--------------------------- MODULE ServicesProofs ----------------------------
(***************************************************************************)
(* Proofs about the services around the pipeline, each for its own          *)
(* specification and for every value of its constants: the circuit breaker, *)
(* the SLO mitigation, the Python runner, the style LoRA training, the      *)
(* analysis column, the cooldown of Gemini and the signals of the viewers.  *)
(* They share no state.                                                     *)
(***************************************************************************)
EXTENDS CircuitBreaker, SloMitigation, PythonRunner, StyleLora, AnalysisColumn,
        GeminiCooldown, LiveSteering, TLAPS

-----------------------------------------------------------------------------
(* The circuit does what it is for, for any number of attempts at once and *)
(* any threshold and cooldown.  What the property says of the history is   *)
(* read off the fields by an invariant that ties the two together: the     *)
(* count is the streak, an open circuit is as old as the last failure, and *)
(* a half-open one has kept its count and outlived a whole cooldown.       *)

CountIsStreak == failureCount = streak
ClosedBelow   == circuit = "closed" => failureCount < Threshold /\ openedAt = NotOpened
OpenSince     == circuit = "open" => failureCount = Threshold /\ openedAt = calm
HalfOpenCalm  == circuit = "half-open" =>
                     failureCount = Threshold /\ openedAt = NotOpened /\ calm = Cooldown

BreakerInv == BreakerTypeOK /\ CountIsStreak /\ ClosedBelow /\ OpenSince /\ HalfOpenCalm

LEMMA UpToType ==
  ASSUME NEW bound \in Nat, NEW n \in 0..bound
  PROVE  UpTo(bound, n) \in 0..bound /\ UpTo(bound, n) >= n
BY DEF UpTo

LEMMA BreakerStarts == BreakerInit => BreakerInv
BY ThresholdAssumption, CooldownAssumption
   DEF BreakerInit, BreakerInv, BreakerTypeOK, CountIsStreak, ClosedBelow, OpenSince, HalfOpenCalm

LEMMA BreakerStep == BreakerInv /\ [BreakerNext]_breakerVars => BreakerInv'
<1> SUFFICES ASSUME BreakerInv, [BreakerNext]_breakerVars PROVE BreakerInv'
  OBVIOUS
<1> USE ThresholdAssumption, CooldownAssumption, NotOpenedAssumption, UpToType
    DEF BreakerInv, BreakerTypeOK, CountIsStreak, ClosedBelow, OpenSince, HalfOpenCalm
<1>1. ASSUME NEW a \in Attempts, LetThrough(a) PROVE BreakerInv'
  BY <1>1 DEF LetThrough, RetryAfter
<1>2. ASSUME RecordFailure, streak' = UpTo(Threshold, streak), calm' = 0,
             running' \subseteq Attempts
      PROVE  BreakerInv'
  BY <1>2 DEF RecordFailure, UpTo
<1>3. ASSUME NEW a \in Attempts, Refuse(a) \/ AttemptFails(a) PROVE BreakerInv'
  BY <1>2, <1>3 DEF Refuse, AttemptFails
<1>4. ASSUME NEW a \in Attempts, AttemptSucceeds(a) PROVE BreakerInv'
  BY <1>4 DEF AttemptSucceeds, RecordSuccess
<1>5. ASSUME NEW a \in Attempts, AttemptIsWrong(a) PROVE BreakerInv'
  BY <1>5 DEF AttemptIsWrong
<1>6. CASE BreakerTick
  BY <1>6 DEF BreakerTick, UpTo
<1>7. CASE UNCHANGED breakerVars
  BY <1>7 DEF breakerVars
<1> QED
  BY <1>1, <1>3, <1>4, <1>5, <1>6, <1>7 DEF BreakerNext

(* The fields of a circuit and the history keep their types.               *)
THEOREM BreakerTypeCorrect == BreakerSpec => []BreakerTypeOK
<1>1. BreakerInv => BreakerTypeOK
  BY DEF BreakerInv
<1> QED
  BY <1>1, BreakerStarts, BreakerStep, PTL DEF BreakerSpec

(* After Threshold failures in a row canExecute lets nothing through before *)
(* a whole cooldown without a failure has passed, and refuses nothing else: *)
(* for any number of attempts that were let through earlier and end at any  *)
(* moment, in success or in failure.                                        *)
THEOREM BreakerShields == BreakerSpec => ShieldedAfterFailures
<1>1. BreakerInv /\ [BreakerNext]_breakerVars =>
        [\A a \in Attempts :
           /\ LetThrough(a) => streak < Threshold \/ calm = Cooldown
           /\ Refuse(a) => streak = Threshold /\ calm < Cooldown]_breakerVars
  <2> SUFFICES ASSUME BreakerInv, NEW a \in Attempts
               PROVE  /\ LetThrough(a) => streak < Threshold \/ calm = Cooldown
                      /\ Refuse(a) => streak = Threshold /\ calm < Cooldown
    OBVIOUS
  <2> QED
    BY CooldownAssumption, ThresholdAssumption, NotOpenedAssumption
       DEF BreakerInv, BreakerTypeOK, CountIsStreak, ClosedBelow, OpenSince, HalfOpenCalm,
           LetThrough, Refuse, RetryAfter
<1> QED
  BY <1>1, BreakerStarts, BreakerStep, PTL DEF BreakerSpec, ShieldedAfterFailures

-----------------------------------------------------------------------------
(* A paused queue always has somebody who will resume it, for any number   *)
(* of concurrent evaluations and any number of activations.  The argument  *)
(* rests on the cooldown: while one evaluation activates, none can          *)
(* deactivate, and the other way round, so that the last call to finish     *)
(* leaves either an active mitigation with its timer or a resumed queue.    *)

Activating   == {c \in Callers : call[c] \in {"pause", "setFlag"}}
Deactivating == {c \in Callers : call[c] \in {"resume", "clearFlag"}}

SloFields ==
  /\ paused \in BOOLEAN /\ earlyFailover \in BOOLEAN /\ active \in BOOLEAN
  /\ cooled \in BOOLEAN /\ resumeFailed \in BOOLEAN
  /\ activation \in Nat
  /\ call \in [Callers -> {"none", "pause", "setFlag", "resume", "clearFlag"}]
  /\ timers \subseteq Nat
  /\ phase \in {"starting", "up", "closing", "down"}

(* Until the process closes, calls of the two kinds exclude each other.     *)
OneKind == phase = "up" => Activating = {} \/ Deactivating = {}

(* Once one of several calls has finished, the cooldown holds the others     *)
(* kind back.                                                                *)
HeldBack ==
  phase = "up" => /\ Activating # {} => ~active \/ ~cooled
                  /\ Deactivating # {} => active \/ ~cooled

ClearsAfterResume ==
  phase \in {"up", "starting"} /\ (\E c \in Callers : call[c] = "clearFlag") =>
      ~paused \/ resumeFailed

StartsAlone ==
  phase = "starting" => /\ call[Startup] \in {"resume", "clearFlag"}
                        /\ \A c \in Callers : c # Startup => call[c] = "none"
                        /\ ~active /\ timers = {}

(* Each hook's calls belong to its own phase, and a dead process has none.    *)
HooksInPhase ==
  /\ phase # "starting" => call[Startup] = "none"
  /\ phase = "up" => call[Shutdown] = "none"
  /\ phase = "down" => /\ \A c \in Callers : call[c] = "none"
                       /\ ~active /\ timers = {}

SloInv ==
  /\ SloFields /\ OneKind /\ HeldBack /\ ClearsAfterResume
  /\ StartsAlone /\ HooksInPhase /\ PausedHasOwner

LEMMA CallersDistinct ==
  /\ Timer \in Callers /\ Shutdown \in Callers /\ Startup \in Callers
  /\ Timer # Startup /\ Shutdown # Startup /\ Timer # Shutdown
  /\ \A c \in Polls : c \in Callers /\ c # Timer /\ c # Shutdown /\ c # Startup
BY PollsAssumption DEF Callers, Timer, Shutdown, Startup

LEMMA SloStarts == SloInit => SloInv
<1> SUFFICES ASSUME SloInit PROVE SloInv
  OBVIOUS
<1>1. SloFields
  BY DEF SloInit, SloFields
<1>2. OneKind /\ HeldBack
  BY DEF SloInit, OneKind, HeldBack, Activating, Deactivating
<1>3. ClearsAfterResume /\ StartsAlone /\ HooksInPhase /\ PausedHasOwner
  BY CallersDistinct DEF SloInit, ClearsAfterResume, StartsAlone, HooksInPhase, PausedHasOwner
<1> QED
  BY <1>1, <1>2, <1>3 DEF SloInv

LEMMA SloStepKeeps == SloInv /\ [SloNext]_sloVars => SloInv'
<1> SUFFICES ASSUME SloInv, [SloNext]_sloVars PROVE SloInv'
  OBVIOUS
<1> USE CallersDistinct
    DEF SloInv, SloFields, OneKind, HeldBack, ClearsAfterResume, StartsAlone, HooksInPhase,
        PausedHasOwner, Activating, Deactivating, CallsInFlight, Goto, Serves
<1>1. ASSUME NEW c \in Polls, EvaluateCritical(c) PROVE SloInv'
  BY <1>1 DEF EvaluateCritical
<1>2. ASSUME NEW c \in Polls, EvaluateMet(c) PROVE SloInv'
  BY <1>2 DEF EvaluateMet
<1>3. ASSUME NEW c \in Callers, ActivatePause(c) PROVE SloInv'
  BY <1>3 DEF ActivatePause
<1>4. ASSUME NEW c \in Callers, ActivateDone(c) PROVE SloInv'
  <2>1. /\ active' = TRUE /\ cooled' = FALSE /\ paused' = paused
        /\ activation' = activation + 1 /\ timers' = timers \cup {activation'}
        /\ call[c] = "setFlag" /\ call' = [call EXCEPT ![c] = "none"]
        /\ phase' = phase /\ resumeFailed' = resumeFailed /\ earlyFailover' \in BOOLEAN
    BY <1>4 DEF ActivateDone
  <2>2. phase # "starting" /\ (phase = "up" => Deactivating = {})
    BY <2>1
  <2>3. SloFields'
    <3>1. activation' \in Nat /\ timers' \subseteq Nat
      BY <2>1
    <3>2. call' \in [Callers -> {"none", "pause", "setFlag", "resume", "clearFlag"}]
      BY <2>1
    <3> QED
      BY <2>1, <3>1, <3>2
  <2>4. (phase = "up" => Deactivating' = {}) /\ ClearsAfterResume'
    BY <2>1, <2>2
  <2>5. OneKind' /\ HeldBack'
    BY <2>1, <2>4
  <2>6. StartsAlone' /\ HooksInPhase'
    BY <2>1, <2>2
  <2> QED
    BY <2>1, <2>3, <2>4, <2>5, <2>6
<1>5. ASSUME NEW c \in Callers, Resume(c) PROVE SloInv'
  BY <1>5 DEF Resume
<1>6. ASSUME NEW c \in Callers, DeactivateDone(c) PROVE SloInv'
  BY <1>6 DEF DeactivateDone
<1>7. CASE StartupDone
  BY <1>7 DEF StartupDone
<1>8. CASE Cool
  BY <1>8 DEF Cool
<1>9. ASSUME NEW t \in timers, AutoResume(t) PROVE SloInv'
  <2>1. /\ timers' = timers \ {t} /\ call[Timer] = "none"
        /\ UNCHANGED <<paused, earlyFailover, active, activation, cooled, phase, resumeFailed>>
    BY <1>9 DEF AutoResume
  <2>2. CASE ~StillTheSame(t)
    <3>1. call' = call /\ (active => activation # t)
      BY <1>9, <2>2 DEF AutoResume, StillTheSame
    <3> QED
      BY <2>1, <3>1
  <2>3. CASE StillTheSame(t)
    <3>1. call' = [call EXCEPT ![Timer] = "resume"] /\ active /\ cooled
      BY <1>9, <2>3 DEF AutoResume, StillTheSame
    <3>2. phase = "up" \/ phase = "closing"
      BY <3>1
    <3>3. phase = "up" => Activating = {} /\ Activating' = {}
      BY <2>1, <3>1
    <3> QED
      BY <2>1, <3>1, <3>2, <3>3
  <2> QED
    BY <2>2, <2>3
<1>10. CASE FlagExpires
  BY <1>10 DEF FlagExpires
<1>11. CASE Close
  BY <1>11 DEF Close
<1>12. CASE Dies
  BY <1>12 DEF Dies
<1>13. CASE Restart
  <2>1. /\ phase = "down" /\ phase' = "starting" /\ cooled' = TRUE
        /\ call' = [call EXCEPT ![Startup] = "resume"]
        /\ UNCHANGED <<paused, earlyFailover, active, activation, timers, resumeFailed>>
    BY <1>13 DEF Restart
  <2>2. StartsAlone'
    BY <2>1
  <2> QED
    BY <2>1, <2>2
<1>14. CASE UNCHANGED sloVars
  BY <1>14 DEF sloVars
<1> QED
  BY <1>1, <1>2, <1>3, <1>4, <1>5, <1>6, <1>7, <1>8, <1>9, <1>10, <1>11, <1>12, <1>13, <1>14
     DEF SloNext, SloStep

(* Through concurrent evaluations, failing calls of Redis, crashes and      *)
(* restarts, nobody leaves the image queue paused without a timer, a call    *)
(* or a restart ahead that resumes it, unless a resume has failed.           *)
THEOREM PauseAlwaysOwned == SloSpec => []PausedHasOwner
<1>1. SloInv => PausedHasOwner
  BY DEF SloInv
<1> QED
  BY <1>1, SloStarts, SloStepKeeps, PTL DEF SloSpec

-----------------------------------------------------------------------------
(* However many lines the script writes, and in whatever order lines, exit *)
(* and timeout reach Node: the answer of a run that resolved is the last   *)
(* result the script wrote.  The invariant says what the callbacks have    *)
(* read and captured so far, and what each kind of answer says of the      *)
(* process and of the lines still unread.                                  *)

RunnerFields ==
  /\ process \in {"unborn", "running", "succeeded", "failed", "killed", "notStarted"}
  /\ inherited \in BOOLEAN /\ unended \in BOOLEAN /\ settled \in BOOLEAN /\ late \in BOOLEAN
  /\ written \in Seq(Kinds)
  /\ read \in Nat /\ read <= Len(written)
  /\ explicit \in Nat
  /\ answer \in [how : {"pending", "resolved", "exitCode", "timedOut", "error"}, result : Nat]

(* explicit is the last of the results read.                                *)
CapturedIsLastRead ==
  /\ explicit <= read
  /\ explicit # 0 => written[explicit] = "result"
  /\ \A i \in 1..read : written[i] = "result" => i <= explicit

Unwritten ==
  /\ process \in {"unborn", "notStarted"} => written = <<>>
  /\ unended => written # <<>>

(* What an answer says of the process and of the lines.                     *)
AnswerFits ==
  /\ answer.how = "pending" => answer = Unanswered
  /\ settled <=> answer.how # "pending"
  /\ answer.how \in {"resolved", "exitCode"} =>
        read = Len(written) /\ process \in {"succeeded", "failed", "killed"}
  /\ answer.how = "resolved" => process = "succeeded" /\ answer.result = explicit
  /\ answer.how = "error" => process = "notStarted"
  /\ late => answer.how = "timedOut"

RunnerInv == RunnerFields /\ CapturedIsLastRead /\ Unwritten /\ AnswerFits

LEMMA RunnerStarts == RunnerInit => RunnerInv
<1> SUFFICES ASSUME RunnerInit PROVE RunnerInv
  OBVIOUS
<1>1. written = <<>> /\ written \in Seq(Kinds) /\ Len(written) = 0
  BY DEF RunnerInit
<1>2. RunnerFields
  <2>1. answer \in [how : {"pending", "resolved", "exitCode", "timedOut", "error"}, result : Nat]
    BY DEF RunnerInit, Unanswered
  <2>2. read = 0 /\ read <= Len(written)
    BY <1>1 DEF RunnerInit
  <2>3. /\ process = "unborn" /\ inherited = FALSE /\ unended = FALSE /\ settled = FALSE
        /\ late = FALSE /\ explicit = 0
    BY DEF RunnerInit
  <2> QED
    BY <1>1, <2>1, <2>2, <2>3 DEF RunnerFields
<1>3. CapturedIsLastRead
  BY DEF RunnerInit, CapturedIsLastRead
<1>4. Unwritten /\ AnswerFits
  BY <1>1 DEF RunnerInit, Unwritten, AnswerFits, Unanswered
<1> QED
  BY <1>2, <1>3, <1>4 DEF RunnerInv

-----------------------------------------------------------------------------
(* Reading on to line n, capturing it when it is a result.                  *)
LEMMA ReadTo ==
  ASSUME RunnerInv, NEW n \in 1..Len(written), read <= n, n <= read + 1,
         explicit' = Capture(n), read' = n, written' = written
  PROVE  explicit' \in Nat /\ CapturedIsLastRead'
<1>1. /\ written \in Seq(Kinds) /\ read \in Nat /\ explicit \in Nat /\ explicit <= read
      /\ explicit # 0 => written[explicit] = "result"
      /\ \A i \in 1..read : written[i] = "result" => i <= explicit
      /\ n \in Nat
  BY DEF RunnerInv, RunnerFields, CapturedIsLastRead
<1>2. CASE written[n] = "result"
  <2>1. explicit' = n
    BY <1>2 DEF Capture
  <2> QED
    BY <1>1, <1>2, <2>1 DEF CapturedIsLastRead
<1>3. CASE written[n] # "result"
  <2>1. explicit' = explicit
    BY <1>3 DEF Capture
  <2>2. \A i \in 1..n : written[i] = "result" => i \in 1..read
    BY <1>1, <1>3
  <2> QED
    BY <1>1, <2>1, <2>2 DEF CapturedIsLastRead
<1> QED
  BY <1>2, <1>3

LEMMA RunnerStep == RunnerInv /\ [RunnerNext]_runnerVars => RunnerInv'
<1> SUFFICES ASSUME RunnerInv, [RunnerNext]_runnerVars PROVE RunnerInv'
  OBVIOUS
<1>0. RunnerFields /\ CapturedIsLastRead /\ Unwritten /\ AnswerFits
  BY DEF RunnerInv
<1>1. CASE Spawn
  BY <1>0, <1>1 DEF Spawn, RunnerInv, RunnerFields, CapturedIsLastRead, Unwritten, AnswerFits
<1>2. ASSUME NEW kind \in Kinds, NEW ended \in BOOLEAN, WriteLine(kind, ended) PROVE RunnerInv'
  <2>1. /\ process = "running" /\ written' = Append(written, kind) /\ unended' = ~ended
        /\ UNCHANGED <<process, inherited, read, settled, explicit, answer, late>>
    BY <1>2 DEF WriteLine
  <2>2. written \in Seq(Kinds) /\ read \in Nat /\ read <= Len(written)
        /\ explicit \in Nat /\ explicit <= read
    BY <1>0 DEF RunnerFields, CapturedIsLastRead
  <2>3. /\ written' \in Seq(Kinds) /\ Len(written') = Len(written) + 1 /\ written' # <<>>
        /\ \A i \in 1..read : written'[i] = written[i]
    BY <2>1, <2>2
  <2>4. RunnerFields'
    BY <1>0, <2>1, <2>2, <2>3 DEF RunnerFields
  <2>5. CapturedIsLastRead'
    <3>1. explicit # 0 => explicit \in 1..read
      BY <2>2
    <3> QED
      BY <1>0, <2>1, <2>3, <3>1 DEF CapturedIsLastRead
  <2>6. Unwritten'
    BY <2>1, <2>3 DEF Unwritten
  <2>7. AnswerFits'
    BY <1>0, <2>1 DEF AnswerFits
  <2> QED
    BY <2>4, <2>5, <2>6, <2>7 DEF RunnerInv
<1>3. CASE StartProgram
  BY <1>0, <1>3 DEF StartProgram, RunnerInv, RunnerFields, CapturedIsLastRead, Unwritten, AnswerFits
<1>4. CASE ProgramEnds
  BY <1>0, <1>4 DEF ProgramEnds, RunnerInv, RunnerFields, CapturedIsLastRead, Unwritten, AnswerFits
<1>5. ASSUME NEW result \in {"succeeded", "failed"}, ProcessEnds(result) PROVE RunnerInv'
  BY <1>0, <1>5 DEF ProcessEnds, RunnerInv, RunnerFields, CapturedIsLastRead, Unwritten, AnswerFits
<1>6. CASE Data
  <2>1. /\ read < Len(written) /\ read' = read + 1 /\ explicit' = Capture(read + 1)
        /\ late' = (late \/ (answer # Unanswered /\ written[read'] = "progress"))
        /\ UNCHANGED <<process, inherited, written, unended, settled, answer>>
    BY <1>0, <1>6 DEF Data, RunnerFields
  <2>2. read + 1 \in 1..Len(written) /\ written \in Seq(Kinds) /\ read \in Nat
    BY <1>0, <2>1 DEF RunnerFields
  <2>3. explicit' \in Nat /\ CapturedIsLastRead'
    BY <2>1, <2>2, ReadTo
  <2>4. RunnerFields'
    BY <1>0, <2>1, <2>2, <2>3 DEF RunnerFields
  <2>5. Unwritten'
    BY <1>0, <2>1 DEF Unwritten
  <2>6. AnswerFits'
    <3>1. written # <<>>
      BY <2>2
    <3>2. answer.how \in {"pending", "timedOut"}
      BY <1>0, <2>1, <2>2, <3>1 DEF AnswerFits, Unwritten, RunnerFields
    <3> QED
      BY <1>0, <2>1, <3>2 DEF AnswerFits
  <2> QED
    BY <2>3, <2>4, <2>5, <2>6 DEF RunnerInv
<1>7. CASE CloseEvent
  <2>1. /\ process \in {"succeeded", "failed", "killed"} /\ ~settled
        /\ read >= Len(written) - (IF unended THEN 1 ELSE 0)
        /\ settled' = TRUE /\ read' = Len(written)
        /\ explicit' = IF unended THEN Capture(Len(written)) ELSE explicit
        /\ answer' = IF process = "succeeded" THEN [how |-> "resolved", result |-> explicit']
                     ELSE [how |-> "exitCode", result |-> 0]
        /\ UNCHANGED <<process, inherited, written, unended, late>>
    BY <1>7 DEF CloseEvent, AtEnd
  <2>2. written \in Seq(Kinds) /\ read \in Nat /\ read <= Len(written) /\ Len(written) \in Nat
    BY <1>0 DEF RunnerFields
  <2>3. explicit' \in Nat /\ CapturedIsLastRead'
    <3>1. CASE unended
      <4>1. Len(written) \in 1..Len(written)
        BY <1>0, <2>2, <3>1 DEF Unwritten
      <4>2. Len(written) <= read + 1
        BY <2>1, <2>2, <3>1
      <4> QED
        BY <2>1, <2>2, <3>1, <4>1, <4>2, ReadTo
    <3>2. CASE ~unended
      <4>1. explicit' = explicit /\ read' = read
        BY <2>1, <2>2, <3>2
      <4> QED
        BY <1>0, <2>1, <4>1 DEF CapturedIsLastRead, RunnerFields
    <3> QED
      BY <3>1, <3>2
  <2>4. RunnerFields'
    BY <1>0, <2>1, <2>2, <2>3 DEF RunnerFields
  <2>5. Unwritten'
    BY <1>0, <2>1 DEF Unwritten
  <2>6. AnswerFits'
    BY <1>0, <2>1 DEF AnswerFits
  <2> QED
    BY <2>3, <2>4, <2>5, <2>6 DEF RunnerInv
<1>8. CASE ErrorEvent
  BY <1>0, <1>8 DEF ErrorEvent, RunnerInv, RunnerFields, CapturedIsLastRead, Unwritten, AnswerFits
<1>9. CASE TimeoutEvent
  BY <1>0, <1>9 DEF TimeoutEvent, RunnerInv, RunnerFields, CapturedIsLastRead, Unwritten, AnswerFits
<1>10. CASE UNCHANGED runnerVars
  BY <1>0, <1>10 DEF runnerVars, RunnerInv, RunnerFields, CapturedIsLastRead, Unwritten, AnswerFits
<1> QED
  BY <1>1, <1>2, <1>3, <1>4, <1>5, <1>6, <1>7, <1>8, <1>9, <1>10 DEF RunnerNext

(* Once every line is read, what has been captured is the last result.      *)
LEMMA CapturedIsLast ==
  ASSUME RunnerInv, read = Len(written)
  PROVE  explicit = LastResult
<1> DEFINE results == {i \in DOMAIN written : written[i] = "result"}
<1>1. /\ explicit \in Nat /\ results = {i \in 1..read : written[i] = "result"}
      /\ explicit <= read /\ read \in Nat
  BY DEF RunnerInv, RunnerFields, CapturedIsLastRead
<1>2. \A i \in results : i \in Nat /\ i >= 1 /\ i <= explicit
  BY <1>1 DEF RunnerInv, CapturedIsLastRead
<1>3. explicit # 0 => explicit \in results
  BY <1>1 DEF RunnerInv, CapturedIsLastRead
<1>4. CASE results = {}
  <2>1. LastResult = 0
    BY <1>4 DEF LastResult
  <2> QED
    BY <1>3, <1>4, <2>1
<1>5. CASE results # {}
  <2>1. LastResult = CHOOSE i \in results : \A j \in results : j <= i
    BY <1>5 DEF LastResult
  <2>2. explicit \in results
    BY <1>1, <1>2, <1>3, <1>5
  <2> HIDE DEF results
  <2>3. \A i \in results : (\A j \in results : j <= i) => i = explicit
    BY <1>1, <1>2, <2>2
  <2>4. \E i \in results : \A j \in results : j <= i
    BY <1>2, <2>2
  <2> QED
    BY <2>1, <2>3, <2>4
<1> QED
  BY <1>4, <1>5

(* Whatever the order of lines, exit, close and timeout, a run that resolves *)
(* has ended in success and reports the last RESULT_JSON of the script, and  *)
(* only a timeout is followed by progress: runScriptWithProgress settles once. *)
THEOREM AnswerAlwaysFinal == RunnerSpec => []AnswerIsFinal
<1>1. RunnerInv => AnswerIsFinal
  <2> SUFFICES ASSUME RunnerInv PROVE AnswerIsFinal
    OBVIOUS
  <2>1. answer.how = "resolved" => process = "succeeded" /\ answer.result = explicit /\ read = Len(written)
    BY DEF RunnerInv, AnswerFits
  <2>2. answer.how = "resolved" => answer.result = LastResult
    BY <2>1, CapturedIsLast
  <2> QED
    BY <2>1, <2>2 DEF RunnerInv, AnswerFits, AnswerIsFinal
<1> QED
  BY <1>1, RunnerStarts, RunnerStep, PTL DEF RunnerSpec

-----------------------------------------------------------------------------
(* The trainings of any number of styles, asked for by any number of       *)
(* viewers at once: an active row always has somebody to end it, and a     *)
(* training never takes the LoRA of another style away, both up to what a  *)
(* failed dispatch or a crash may leave behind.                            *)

Row == [style : Styles, status : {"PENDING", "PROCESSING", "COMPLETED", "FAILED"},
        likesUsed : Nat, queued : BOOLEAN, attempts : Nat]

LoraFields ==
  /\ likes \in [Styles -> Nat]
  /\ trainings \in Seq(Row)
  /\ liker \in [Likers -> [at : {"none", "count", "findActive", "findCompleted", "create", "dispatch"},
                           style : Styles, count : Nat, row : Nat]]
  /\ trainer \in [at : {"idle", "script", "readConfig", "writeConfig", "complete", "fail"},
                  row : Nat, count : Nat, config : [Styles -> Nat]]
  /\ config \in [Styles -> Nat]
  /\ torn \in BOOLEAN /\ tornOnce \in BOOLEAN

(* Who works on a row works on one that exists.                             *)
RowsExist ==
  /\ \A r \in Likers : liker[r].at = "dispatch" => liker[r].row \in DOMAIN trainings
  /\ trainer.at # "idle" => trainer.row \in DOMAIN trainings

(* Until a crash tears the file it is torn only while it is being written,  *)
(* by a trainer that holds all of it.                                       *)
FileIsWhole ==
  /\ torn => trainer.at = "writeConfig" \/ tornOnce
  /\ trainer.at = "writeConfig" /\ ~tornOnce =>
        \A s \in Styles : config[s] # 0 => trainer.config[s] # 0

LoraInv == LoraFields /\ RowsExist /\ FileIsWhole /\ TrainingHasOwner

LEMMA Placeholders ==
  /\ NoLike \in [at : {"none", "count", "findActive", "findCompleted", "create", "dispatch"},
                 style : Styles, count : Nat, row : Nat]
  /\ NoLike.at = "none"
  /\ NoLoras \in [Styles -> Nat]
  /\ Idle \in [at : {"idle", "script", "readConfig", "writeConfig", "complete", "fail"},
               row : Nat, count : Nat, config : [Styles -> Nat]]
  /\ Idle.at = "idle"
BY StylesAssumption DEF NoLike, NoLoras, Idle

LEMMA LoraStarts == LoraInit => LoraInv
<1> SUFFICES ASSUME LoraInit PROVE LoraInv
  OBVIOUS
<1>1. trainings = <<>> /\ DOMAIN trainings = {} /\ trainings \in Seq(Row)
  BY DEF LoraInit
<1> QED
  BY <1>1, Placeholders DEF LoraInit, LoraInv, LoraFields, RowsExist, FileIsWhole, TrainingHasOwner

(* A change of one row keeps the rows, and the owners when it keeps or ends *)
(* that row's need of one.                                                  *)
LEMMA RowChanges ==
  ASSUME LoraInv, NEW t \in DOMAIN trainings, NEW new \in Row,
         trainings' = [trainings EXCEPT ![t] = new]
  PROVE  /\ trainings' \in Seq(Row) /\ DOMAIN trainings' = DOMAIN trainings
         /\ trainings'[t] = new
         /\ \A u \in DOMAIN trainings : u # t => trainings'[u] = trainings[u]
BY DEF LoraInv, LoraFields

-----------------------------------------------------------------------------
(* A request that only looks at the rows, or takes the next step.          *)
LEMMA LikerStep ==
  ASSUME LoraInv, NEW r \in Likers, NEW new \in [at : {"none", "count", "findActive", "findCompleted", "create", "dispatch"},
                                                 style : Styles, count : Nat, row : Nat],
         new.at # "dispatch", liker[r].at # "dispatch",
         liker' = [liker EXCEPT ![r] = new], likes' \in [Styles -> Nat],
         UNCHANGED <<trainings, trainer, config, torn, abandoned, tornOnce>>
  PROVE  LoraInv'
<1>1. LoraFields'
  BY DEF LoraInv, LoraFields
<1>2. \A q \in Likers : liker'[q].at = "dispatch" => liker'[q] = liker[q]
  BY DEF LoraInv, LoraFields
<1>3. \A q \in Likers : liker[q].at = "dispatch" => liker'[q] = liker[q]
  BY DEF LoraInv, LoraFields
<1>4. RowsExist'
  BY <1>2 DEF LoraInv, RowsExist
<1>5. FileIsWhole'
  BY DEF LoraInv, FileIsWhole
<1>6. TrainingHasOwner'
  BY <1>3 DEF LoraInv, TrainingHasOwner
<1> QED
  BY <1>1, <1>4, <1>5, <1>6 DEF LoraInv

(* The worker writes the row it holds: it stays queued or is no more active. *)
LEMMA WorkerWrites ==
  ASSUME LoraInv, NEW t \in DOMAIN trainings, NEW new \in Row,
         trainings' = [trainings EXCEPT ![t] = new],
         \/ new.status \notin {"PENDING", "PROCESSING"}
         \/ new.queued
         \/ new.status = trainings[t].status /\ new.queued = trainings[t].queued,
         trainer' \in [at : {"idle", "script", "readConfig", "writeConfig", "complete", "fail"},
                       row : Nat, count : Nat, config : [Styles -> Nat]],
         trainer'.at # "writeConfig", trainer.at # "writeConfig",
         trainer'.at # "idle" => trainer'.row = t,
         UNCHANGED <<likes, liker, config, torn, abandoned, tornOnce>>
  PROVE  LoraInv'
<1>1. /\ trainings' \in Seq(Row) /\ DOMAIN trainings' = DOMAIN trainings
      /\ trainings'[t] = new
      /\ \A u \in DOMAIN trainings : u # t => trainings'[u] = trainings[u]
  BY RowChanges
<1>2. LoraFields'
  BY <1>1 DEF LoraInv, LoraFields
<1>3. RowsExist'
  BY <1>1 DEF LoraInv, RowsExist
<1>4. FileIsWhole'
  BY DEF LoraInv, FileIsWhole
<1>5. TrainingHasOwner'
  <2> SUFFICES ASSUME NEW u \in DOMAIN trainings, trainings'[u].status \in {"PENDING", "PROCESSING"}
               PROVE  \/ trainings'[u].queued
                      \/ \E r \in Likers : liker[r].at = "dispatch" /\ liker[r].row = u
                      \/ u \in abandoned
    BY <1>1 DEF TrainingHasOwner
  <2>1. CASE u # t
    BY <1>1, <2>1 DEF LoraInv, TrainingHasOwner
  <2>2. CASE u = t
    BY <1>1, <2>2 DEF LoraInv, TrainingHasOwner
  <2> QED
    BY <2>1, <2>2
<1> QED
  BY <1>2, <1>3, <1>4, <1>5 DEF LoraInv

-----------------------------------------------------------------------------
LEMMA LikersStep ==
  ASSUME LoraInv, NEW r \in Likers,
         \/ \E s \in Styles : Like(r, s)
         \/ CountLikes(r)
         \/ FindActive(r)
         \/ FindCompleted(r)
         \/ CreateTraining(r)
         \/ DispatchTraining(r)
         \/ DispatchTrainingFails(r)
  PROVE  LoraInv'
<1> USE Placeholders
<1>0. LoraFields /\ RowsExist /\ FileIsWhole /\ TrainingHasOwner
  BY DEF LoraInv
<1>1. ASSUME NEW s \in Styles, Like(r, s) PROVE LoraInv'
  <2>1. likes' \in [Styles -> Nat]
    <3>1. likes' = [likes EXCEPT ![s] = likes[s] + 1]
      BY <1>1 DEF Like
    <3>2. likes \in [Styles -> Nat]
      BY <1>0 DEF LoraFields
    <3>3. likes[s] \in Nat
      BY <3>2
    <3> QED
      BY <3>1, <3>2, <3>3
  <2> DEFINE new == [NoLike EXCEPT !.at = "count", !.style = s]
  <2>2. /\ new \in [at : {"none", "count", "findActive", "findCompleted", "create", "dispatch"},
                    style : Styles, count : Nat, row : Nat]
        /\ new.at # "dispatch"
    OBVIOUS
  <2>3. liker' = [liker EXCEPT ![r] = new] /\ liker[r].at # "dispatch"
    BY <1>1 DEF Like
  <2>4. UNCHANGED <<trainings, trainer, config, torn, abandoned, tornOnce>>
    BY <1>1 DEF Like
  <2> HIDE DEF new
  <2> QED
    BY <2>1, <2>2, <2>3, <2>4, LikerStep
<1>2. CASE CountLikes(r)
  <2> DEFINE new == IF likes[liker[r].style] < Batch THEN NoLike
                    ELSE [liker[r] EXCEPT !.at = "findActive", !.count = likes[liker[r].style]]
  <2>1. /\ new \in [at : {"none", "count", "findActive", "findCompleted", "create", "dispatch"},
                    style : Styles, count : Nat, row : Nat]
        /\ new.at # "dispatch"
    BY <1>0 DEF LoraFields
  <2>2. liker' = [liker EXCEPT ![r] = new] /\ liker[r].at # "dispatch"
    BY <1>2 DEF CountLikes
  <2>3. UNCHANGED <<likes, trainings, trainer, config, torn, abandoned, tornOnce>> /\ likes' \in [Styles -> Nat]
    BY <1>0, <1>2 DEF CountLikes, LoraFields
  <2> HIDE DEF new
  <2> QED
    BY <2>1, <2>2, <2>3, LikerStep
<1>3. CASE FindActive(r)
  <2> DEFINE new == IF Rows(liker[r].style, {"PENDING", "PROCESSING"}) # {}
                    THEN NoLike ELSE [liker[r] EXCEPT !.at = "findCompleted"]
  <2>1. /\ new \in [at : {"none", "count", "findActive", "findCompleted", "create", "dispatch"},
                    style : Styles, count : Nat, row : Nat]
        /\ new.at # "dispatch"
    BY <1>0 DEF LoraFields
  <2>2. liker' = [liker EXCEPT ![r] = new] /\ liker[r].at # "dispatch"
    BY <1>3 DEF FindActive
  <2>3. UNCHANGED <<likes, trainings, trainer, config, torn, abandoned, tornOnce>> /\ likes' \in [Styles -> Nat]
    BY <1>0, <1>3 DEF FindActive, LoraFields
  <2> HIDE DEF new
  <2> QED
    BY <2>1, <2>2, <2>3, LikerStep
<1>4. CASE FindCompleted(r)
  <2>1. PICK enough \in BOOLEAN :
          liker' = [liker EXCEPT ![r] = IF enough THEN NoLike ELSE [liker[r] EXCEPT !.at = "create"]]
    BY <1>4 DEF FindCompleted
  <2> DEFINE new == IF enough THEN NoLike ELSE [liker[r] EXCEPT !.at = "create"]
  <2>2. /\ new \in [at : {"none", "count", "findActive", "findCompleted", "create", "dispatch"},
                    style : Styles, count : Nat, row : Nat]
        /\ new.at # "dispatch"
    BY <1>0 DEF LoraFields
  <2>3. liker' = [liker EXCEPT ![r] = new] /\ liker[r].at # "dispatch"
    BY <1>4, <2>1 DEF FindCompleted
  <2>4. UNCHANGED <<likes, trainings, trainer, config, torn, abandoned, tornOnce>> /\ likes' \in [Styles -> Nat]
    BY <1>0, <1>4 DEF FindCompleted, LoraFields
  <2> HIDE DEF new
  <2> QED
    BY <2>2, <2>3, <2>4, LikerStep
<1>5. CASE CreateTraining(r)
  <2> DEFINE new == [style |-> liker[r].style, status |-> "PENDING",
                     likesUsed |-> 0, queued |-> FALSE, attempts |-> 0]
  <2>1. /\ trainings' = Append(trainings, new)
        /\ liker[r].at = "create"
        /\ liker' = [liker EXCEPT ![r] = [@ EXCEPT !.at = "dispatch", !.row = Len(trainings')]]
        /\ UNCHANGED <<likes, trainer, config, torn, abandoned, tornOnce>>
    BY <1>0, <1>5 DEF CreateTraining, LoraFields
  <2>2. new \in Row
    BY <1>0 DEF LoraFields, Row
  <2> HIDE DEF new
  <2>3. /\ trainings' \in Seq(Row) /\ Len(trainings') \in DOMAIN trainings' /\ Len(trainings') \in Nat
        /\ DOMAIN trainings' = DOMAIN trainings \cup {Len(trainings')}
        /\ \A t \in DOMAIN trainings : trainings'[t] = trainings[t]
    <3>1. trainings \in Seq(Row)
      BY <1>0 DEF LoraFields
    <3>2. /\ Append(trainings, new) \in Seq(Row)
          /\ Len(Append(trainings, new)) = Len(trainings) + 1
          /\ \A t \in 1..Len(trainings) : Append(trainings, new)[t] = trainings[t]
      BY <2>2, <3>1
    <3>3. /\ DOMAIN trainings = 1..Len(trainings) /\ Len(trainings) \in Nat
          /\ DOMAIN trainings' = 1..Len(trainings')
      BY <2>1, <3>1, <3>2
    <3> QED
      BY <2>1, <3>2, <3>3
  <2>4. LoraFields'
    BY <1>0, <2>1, <2>3 DEF LoraFields
  <2>5. /\ liker'[r].at = "dispatch" /\ liker'[r].row = Len(trainings')
        /\ \A q \in Likers : q # r => liker'[q] = liker[q]
    BY <1>0, <2>1 DEF LoraFields
  <2>6. RowsExist'
    BY <1>0, <2>1, <2>3, <2>5 DEF RowsExist
  <2>7. FileIsWhole'
    BY <1>0, <2>1 DEF FileIsWhole
  <2>8. TrainingHasOwner'
    <3> SUFFICES ASSUME NEW t \in DOMAIN trainings', trainings'[t].status \in {"PENDING", "PROCESSING"}
                 PROVE  \/ trainings'[t].queued
                        \/ \E q \in Likers : liker'[q].at = "dispatch" /\ liker'[q].row = t
                        \/ t \in abandoned'
      BY DEF TrainingHasOwner
    <3>1. CASE t = Len(trainings')
      BY <2>5, <3>1
    <3>2. CASE t \in DOMAIN trainings
      <4>1. \/ trainings[t].queued
            \/ \E q \in Likers : liker[q].at = "dispatch" /\ liker[q].row = t
            \/ t \in abandoned
        BY <1>0, <2>3, <3>2 DEF TrainingHasOwner
      <4> QED
        BY <2>1, <2>3, <2>5, <3>2, <4>1
    <3> QED
      BY <2>3, <3>1, <3>2
  <2> QED
    BY <2>4, <2>6, <2>7, <2>8 DEF LoraInv
<1>6. CASE DispatchTraining(r)
  <2> DEFINE row == liker[r].row
             new == [trainings[row] EXCEPT !.queued = TRUE]
  <2>1. /\ liker[r].at = "dispatch" /\ row \in DOMAIN trainings
        /\ trainings' = [trainings EXCEPT ![row] = new]
        /\ liker' = [liker EXCEPT ![r] = NoLike]
        /\ UNCHANGED <<likes, trainer, config, torn, abandoned, tornOnce>>
    BY <1>0, <1>6 DEF DispatchTraining, RowsExist
  <2>2. trainings[row] \in Row
    BY <1>0, <2>1 DEF LoraFields
  <2>3. new \in Row /\ new.queued
    BY <2>2 DEF Row
  <2> HIDE DEF new
  <2>4. /\ trainings' \in Seq(Row) /\ DOMAIN trainings' = DOMAIN trainings
        /\ trainings'[row] = new
        /\ \A u \in DOMAIN trainings : u # row => trainings'[u] = trainings[u]
    BY <2>1, <2>3, RowChanges
  <2>5. LoraFields'
    BY <1>0, <2>1, <2>4 DEF LoraFields
  <2>6. liker'[r] = NoLike /\ \A q \in Likers : q # r => liker'[q] = liker[q]
    BY <1>0, <2>1 DEF LoraFields
  <2>7. RowsExist'
    BY <1>0, <2>1, <2>4, <2>6 DEF RowsExist
  <2>8. FileIsWhole'
    BY <1>0, <2>1 DEF FileIsWhole
  <2>9. TrainingHasOwner'
    <3> SUFFICES ASSUME NEW t \in DOMAIN trainings, trainings'[t].status \in {"PENDING", "PROCESSING"}
                 PROVE  \/ trainings'[t].queued
                        \/ \E q \in Likers : liker'[q].at = "dispatch" /\ liker'[q].row = t
                        \/ t \in abandoned'
      BY <2>4 DEF TrainingHasOwner
    <3>1. CASE t = row
      BY <2>3, <2>4, <3>1
    <3>2. CASE t # row
      <4>1. \/ trainings[t].queued
            \/ \E q \in Likers : liker[q].at = "dispatch" /\ liker[q].row = t
            \/ t \in abandoned
        BY <1>0, <2>4, <3>2 DEF TrainingHasOwner
      <4> QED
        BY <2>1, <2>4, <2>6, <3>2, <4>1
    <3> QED
      BY <3>1, <3>2
  <2> QED
    BY <2>5, <2>7, <2>8, <2>9 DEF LoraInv
<1>7. CASE DispatchTrainingFails(r)
  <2>1. /\ liker[r].at = "dispatch"
        /\ abandoned' = abandoned \cup {liker[r].row}
        /\ liker' = [liker EXCEPT ![r] = NoLike]
        /\ UNCHANGED <<likes, trainings, trainer, config, torn, tornOnce>>
    BY <1>7 DEF DispatchTrainingFails
  <2>2. LoraFields'
    BY <1>0, <2>1 DEF LoraFields
  <2>3. liker'[r] = NoLike /\ \A q \in Likers : q # r => liker'[q] = liker[q]
    BY <1>0, <2>1 DEF LoraFields
  <2>4. RowsExist'
    BY <1>0, <2>1, <2>3 DEF RowsExist
  <2>5. FileIsWhole'
    BY <1>0, <2>1 DEF FileIsWhole
  <2>6. TrainingHasOwner'
    BY <1>0, <2>1, <2>3 DEF TrainingHasOwner
  <2> QED
    BY <2>2, <2>4, <2>5, <2>6 DEF LoraInv
<1> QED
  BY <1>1, <1>2, <1>3, <1>4, <1>5, <1>6, <1>7

-----------------------------------------------------------------------------
(* The steps of the worker that change neither a row nor a request.         *)
LEMMA TrainerMoves ==
  ASSUME LoraInv,
         trainer' \in [at : {"idle", "script", "readConfig", "writeConfig", "complete", "fail"},
                       row : Nat, count : Nat, config : [Styles -> Nat]],
         trainer.at # "idle", trainer'.row = trainer.row,
         config' \in [Styles -> Nat], torn' \in BOOLEAN,
         FileIsWhole',
         UNCHANGED <<likes, trainings, liker, abandoned, tornOnce>>
  PROVE  LoraInv'
<1>1. LoraFields'
  BY DEF LoraInv, LoraFields
<1>2. RowsExist'
  BY DEF LoraInv, RowsExist
<1>3. TrainingHasOwner'
  BY DEF LoraInv, TrainingHasOwner
<1> QED
  BY <1>1, <1>2, <1>3 DEF LoraInv

LEMMA TrainerStep ==
  ASSUME LoraInv,
         \/ \E t \in DOMAIN trainings : Train(t)
         \/ TrainingSucceeds
         \/ TrainingFails
         \/ ReadConfig
         \/ WriteConfig
         \/ CompleteTraining
         \/ PutOff
         \/ FailTraining
  PROVE  LoraInv'
<1>0. LoraFields /\ RowsExist /\ FileIsWhole /\ TrainingHasOwner
  BY DEF LoraInv
<1>1. ASSUME NEW t \in DOMAIN trainings, Train(t) PROVE LoraInv'
  <2> DEFINE new == [trainings[t] EXCEPT !.status = "PROCESSING"]
  <2>1. trainings[t] \in Row /\ trainings[t].queued
    <3>1. trainings \in Seq(Row)
      BY <1>0 DEF LoraFields
    <3>2. trainings[t].queued
      BY <1>1 DEF Train
    <3> QED
      BY <3>1, <3>2
  <2>2. new \in Row /\ new.queued
    BY <2>1 DEF Row
  <2>3. trainings' = [trainings EXCEPT ![t] = new]
    BY <1>1 DEF Train
  <2> HIDE DEF new
  <2>4. /\ trainer.at = "idle" /\ trainer' = [Idle EXCEPT !.at = "script", !.row = t]
        /\ UNCHANGED <<likes, liker, config, torn, abandoned, tornOnce>>
    BY <1>1 DEF Train
  <2>5. t \in Nat
    BY <1>0 DEF LoraFields
  <2>6. /\ trainer' \in [at : {"idle", "script", "readConfig", "writeConfig", "complete", "fail"},
                         row : Nat, count : Nat, config : [Styles -> Nat]]
        /\ trainer'.at = "script" /\ trainer'.row = t
    BY <2>4, <2>5, Placeholders
  <2> QED
    BY <2>2, <2>3, <2>4, <2>6, WorkerWrites
<1>2. CASE TrainingSucceeds
  <2>1. PICK place \in {"readConfig", "complete"} :
          trainer' = [trainer EXCEPT !.at = place, !.count = likes[trainings[trainer.row].style]]
    BY <1>2 DEF TrainingSucceeds
  <2>2. trainer.at = "script" /\ UNCHANGED <<likes, trainings, liker, config, torn, abandoned, tornOnce>>
    BY <1>2 DEF TrainingSucceeds
  <2>3. trainings[trainer.row] \in Row
    BY <1>0, <2>2 DEF LoraFields, RowsExist
  <2>4. likes[trainings[trainer.row].style] \in Nat
    BY <1>0, <2>3 DEF LoraFields, Row
  <2>5. /\ trainer' \in [at : {"idle", "script", "readConfig", "writeConfig", "complete", "fail"},
                         row : Nat, count : Nat, config : [Styles -> Nat]]
        /\ trainer'.at = place /\ trainer'.row = trainer.row
    BY <1>0, <2>1, <2>4 DEF LoraFields
  <2>6. FileIsWhole'
    BY <1>0, <2>2, <2>5 DEF FileIsWhole
  <2>7. config' \in [Styles -> Nat] /\ torn' \in BOOLEAN
    BY <1>0, <2>2 DEF LoraFields
  <2> QED
    BY <2>2, <2>5, <2>6, <2>7, TrainerMoves
<1>3. CASE TrainingFails
  <2>1. /\ trainer.at = "script" /\ trainer' = [trainer EXCEPT !.at = "fail"]
        /\ UNCHANGED <<likes, trainings, liker, config, torn, abandoned, tornOnce>>
    BY <1>3 DEF TrainingFails
  <2>2. /\ trainer' \in [at : {"idle", "script", "readConfig", "writeConfig", "complete", "fail"},
                         row : Nat, count : Nat, config : [Styles -> Nat]]
        /\ trainer'.at = "fail" /\ trainer'.row = trainer.row
    BY <1>0, <2>1 DEF LoraFields
  <2>3. FileIsWhole'
    BY <1>0, <2>1, <2>2 DEF FileIsWhole
  <2>4. config' \in [Styles -> Nat] /\ torn' \in BOOLEAN
    BY <1>0, <2>1 DEF LoraFields
  <2> QED
    BY <2>1, <2>2, <2>3, <2>4, TrainerMoves
<1>4. CASE ReadConfig
  <2> DEFINE style == trainings[trainer.row].style
             new == [IF torn THEN NoLoras ELSE config EXCEPT ![style] = trainer.row]
  <2>1. /\ trainer.at = "readConfig"
        /\ trainer' = [trainer EXCEPT !.at = "writeConfig", !.config = new]
        /\ torn' = TRUE
        /\ UNCHANGED <<likes, trainings, liker, config, abandoned, tornOnce>>
    BY <1>4 DEF ReadConfig
  <2>2. trainings[trainer.row] \in Row /\ trainer.row \in Nat \ {0}
    BY <1>0, <2>1 DEF LoraFields, RowsExist
  <2>3. style \in Styles
    BY <2>2 DEF Row
  <2>4. new \in [Styles -> Nat] /\ \A s \in Styles : ~torn /\ config[s] # 0 => new[s] # 0
    BY <1>0, <2>2, <2>3, Placeholders DEF LoraFields
  <2> HIDE DEF new
  <2>5. /\ trainer' \in [at : {"idle", "script", "readConfig", "writeConfig", "complete", "fail"},
                         row : Nat, count : Nat, config : [Styles -> Nat]]
        /\ trainer'.at = "writeConfig" /\ trainer'.row = trainer.row /\ trainer'.config = new
    BY <1>0, <2>1, <2>4 DEF LoraFields
  <2>6. FileIsWhole'
    BY <1>0, <2>1, <2>4, <2>5 DEF FileIsWhole
  <2>7. config' \in [Styles -> Nat] /\ torn' \in BOOLEAN
    BY <1>0, <2>1 DEF LoraFields
  <2> QED
    BY <2>1, <2>5, <2>6, <2>7, TrainerMoves
<1>5. CASE WriteConfig
  <2>1. /\ trainer.at = "writeConfig" /\ trainer' = [trainer EXCEPT !.at = "complete"]
        /\ config' = trainer.config /\ torn' = FALSE
        /\ UNCHANGED <<likes, trainings, liker, abandoned, tornOnce>>
    BY <1>5 DEF WriteConfig
  <2>2. /\ trainer' \in [at : {"idle", "script", "readConfig", "writeConfig", "complete", "fail"},
                         row : Nat, count : Nat, config : [Styles -> Nat]]
        /\ trainer'.at = "complete" /\ trainer'.row = trainer.row
    BY <1>0, <2>1 DEF LoraFields
  <2>3. FileIsWhole'
    BY <2>1, <2>2 DEF FileIsWhole
  <2>4. config' \in [Styles -> Nat] /\ torn' \in BOOLEAN
    BY <1>0, <2>1 DEF LoraFields
  <2> QED
    BY <2>1, <2>2, <2>3, <2>4, TrainerMoves
<1>6. CASE CompleteTraining
  <2> DEFINE row == trainings[trainer.row]
             new == [row EXCEPT !.status = "COMPLETED", !.likesUsed = trainer.count, !.queued = FALSE]
  <2>1. /\ trainer.at = "complete" /\ trainings' = [trainings EXCEPT ![trainer.row] = new]
        /\ trainer' = Idle
        /\ UNCHANGED <<likes, liker, config, torn, abandoned, tornOnce>>
    BY <1>6 DEF CompleteTraining
  <2>2. row \in Row /\ trainer.row \in DOMAIN trainings /\ trainer.count \in Nat
    BY <1>0, <2>1 DEF LoraFields, RowsExist
  <2>3. new \in Row /\ new.status = "COMPLETED"
    BY <2>2 DEF Row
  <2> HIDE DEF new, row
  <2> QED
    BY <2>1, <2>2, <2>3, Placeholders, WorkerWrites
<1>7. CASE PutOff
  <2> DEFINE row == trainings[trainer.row]
             new == [row EXCEPT !.attempts = 1]
  <2>1. /\ trainer.at = "fail" /\ trainings' = [trainings EXCEPT ![trainer.row] = new]
        /\ trainer' = Idle
        /\ UNCHANGED <<likes, liker, config, torn, abandoned, tornOnce>>
    BY <1>7 DEF PutOff
  <2>2. row \in Row /\ trainer.row \in DOMAIN trainings
    BY <1>0, <2>1 DEF LoraFields, RowsExist
  <2>3. new \in Row /\ new.status = row.status /\ new.queued = row.queued
    BY <2>2 DEF Row
  <2> HIDE DEF new
  <2> QED
    BY <2>1, <2>2, <2>3, Placeholders, WorkerWrites
<1>8. CASE FailTraining
  <2> DEFINE row == trainings[trainer.row]
             new == [row EXCEPT !.status = "FAILED", !.queued = @ /\ row.attempts = 0, !.attempts = @ + 1]
  <2>1. /\ trainer.at = "fail" /\ trainings' = [trainings EXCEPT ![trainer.row] = new]
        /\ trainer' = Idle
        /\ UNCHANGED <<likes, liker, config, torn, abandoned, tornOnce>>
    BY <1>8 DEF FailTraining
  <2>2. row \in Row /\ trainer.row \in DOMAIN trainings
    BY <1>0, <2>1 DEF LoraFields, RowsExist
  <2>3. row.attempts + 1 \in Nat /\ (row.queued /\ row.attempts = 0) \in BOOLEAN
    BY <2>2 DEF Row
  <2>4. new \in Row /\ new.status = "FAILED"
    BY <2>2, <2>3 DEF Row
  <2> HIDE DEF new, row
  <2> QED
    BY <2>1, <2>2, <2>4, Placeholders, WorkerWrites
<1> QED
  BY <1>1, <1>2, <1>3, <1>4, <1>5, <1>6, <1>7, <1>8

LEMMA CrashStep == LoraInv /\ BackendDies => LoraInv'
<1> SUFFICES ASSUME LoraInv, BackendDies PROVE LoraInv'
  OBVIOUS
<1>1. /\ abandoned' = abandoned \cup {liker[r].row : r \in {q \in Likers : liker[q].at = "dispatch"}}
      /\ liker' = [r \in Likers |-> NoLike]
      /\ trainer' = Idle
      /\ tornOnce' = (tornOnce \/ torn)
      /\ UNCHANGED <<likes, trainings, config, torn>>
  BY DEF BackendDies
<1>2. LoraFields'
  BY <1>1, Placeholders DEF LoraInv, LoraFields
<1>3. RowsExist'
  BY <1>1, Placeholders DEF RowsExist
<1>4. FileIsWhole'
  BY <1>1, Placeholders DEF FileIsWhole
<1>5. TrainingHasOwner'
  BY <1>1 DEF LoraInv, TrainingHasOwner
<1> QED
  BY <1>2, <1>3, <1>4, <1>5 DEF LoraInv

LEMMA LoraStep == LoraInv /\ [LoraNext]_loraVars => LoraInv'
<1> SUFFICES ASSUME LoraInv, [LoraNext]_loraVars PROVE LoraInv'
  OBVIOUS
<1>1. CASE UNCHANGED loraVars
  BY <1>1 DEF loraVars, LoraInv, LoraFields, RowsExist, FileIsWhole, TrainingHasOwner
<1>2. CASE LoraNext
  BY <1>2, LikersStep, TrainerStep, CrashStep DEF LoraNext
<1> QED
  BY <1>1, <1>2

(* Every active training of a style, in addFeedback's sense, is queued, is  *)
(* about to be queued, or was lost by a failed dispatch or a crash: for     *)
(* any styles, requests and numbers of likes and trainings.                 *)
THEOREM TrainingsAlwaysOwned == LoraSpec => []TrainingHasOwner
<1>1. LoraInv => TrainingHasOwner
  BY DEF LoraInv
<1> QED
  BY <1>1, LoraStarts, LoraStep, PTL DEF LoraSpec

(* Until a crash has torn generation-config.json no training of any style   *)
(* takes a configured LoRA away: setStyleLoraPath writes all it has read.   *)
THEOREM LorasAlwaysConfigured == LoraSpec => LorasStayConfigured
<1>1. LoraInv /\ [LoraNext]_loraVars =>
        [tornOnce \/ \A s \in Styles : config[s] # 0 => config'[s] # 0]_loraVars
  <2> SUFFICES ASSUME LoraInv, LoraNext, ~tornOnce, NEW s \in Styles, config[s] # 0
               PROVE  config'[s] # 0
    BY DEF loraVars
  <2>1. CASE WriteConfig
    BY <2>1 DEF WriteConfig, LoraInv, FileIsWhole
  <2>2. CASE UNCHANGED config
    BY <2>2
  <2>3. WriteConfig \/ UNCHANGED config
    BY DEF LoraNext, Like, CountLikes, FindActive, FindCompleted, CreateTraining, DispatchTraining,
           DispatchTrainingFails, Train, TrainingSucceeds, TrainingFails, ReadConfig,
           CompleteTraining, PutOff, FailTraining, BackendDies
  <2> QED
    BY <2>1, <2>2, <2>3
<1> QED
  BY <1>1, LoraStarts, LoraStep, PTL DEF LoraSpec, LorasStayConfigured

-----------------------------------------------------------------------------
(***************************************************************************)
(* A thread of the image script makes at most one call in a cooldown of its *)
(* own script, for any number of threads and any length of the cooldowns.   *)
(***************************************************************************)

(* The thread that has made its call and is on its way to the next one has  *)
(* passed the gate since, and the gate has not let it through before the     *)
(* end of the cooldown: a cooldown that is extended begins the count anew.   *)
Spared ==
  \A t \in Threads : lateCalls[t] # 0 =>
    /\ lateCalls[t] = 1
    /\ actor[t].at = "queued" => localUntil <= now
    /\ actor[t].at = "asleep" => localUntil <= actor[t].until

GeminiInv == GeminiTypeOK /\ Spared

(* No call of a thread or of the analysis, no end of a call, no write of    *)
(* the file and no restart makes a second call possible.                    *)
LEMMA GeminiStep == GeminiInv /\ [GeminiNext]_geminiVars => GeminiInv'
<1> SUFFICES ASSUME GeminiInv, [GeminiNext]_geminiVars PROVE GeminiInv'
  OBVIOUS
<1> USE GeminiAssumption DEF GeminiInv, GeminiTypeOK, Spared, Times, Quiet
<1>0. Threads \subseteq Actors /\ Analysis \in Actors
  BY DEF Actors
<1> USE <1>0
<1>1. ASSUME NEW t \in Threads, Gate(t) PROVE GeminiInv'
  BY <1>1 DEF Gate, Remaining
<1>2. ASSUME NEW t \in Threads, WakeUp(t) PROVE GeminiInv'
  BY <1>2 DEF WakeUp
<1>3. ASSUME NEW t \in Threads, TakeSlot(t) PROVE GeminiInv'
  BY <1>3 DEF TakeSlot
<1>4. ASSUME NEW t \in Threads, ActivateLocal(t) PROVE GeminiInv'
  BY <1>4 DEF ActivateLocal
<1>5. ASSUME AnalysisCalls PROVE GeminiInv'
  BY <1>5 DEF AnalysisCalls
<1>6. ASSUME NEW a \in Actors, CallEnds(a) \/ CallRefused(a) PROVE GeminiInv'
  BY <1>6 DEF CallEnds, CallRefused
<1>7. ASSUME NEW a \in Actors, ActivateRead(a) PROVE GeminiInv'
  <2>1. Until(a) \in Times
    BY DEF Until
  <2>2. /\ actor' = [actor EXCEPT ![a] = [at |-> "write", until |-> Until(a)]]
           \/ actor' = [actor EXCEPT ![a] = Quiet]
        /\ halfWritten' \in BOOLEAN
        /\ UNCHANGED <<fileUntil, localUntil, now, lateCalls>>
    BY <1>7 DEF ActivateRead
  <2> QED
    BY <2>1, <2>2
<1>8. ASSUME NEW a \in Actors, ActivateWrite(a) PROVE GeminiInv'
  <2>1. /\ actor' = [actor EXCEPT ![a] = Quiet] /\ fileUntil' \in Times /\ halfWritten' \in BOOLEAN
        /\ UNCHANGED <<localUntil, now, lateCalls>>
    BY <1>8 DEF ActivateWrite
  <2> QED
    BY <2>1
<1>9. ASSUME GeminiTick \/ ImagesRestart \/ AnalysisRestarts \/ UNCHANGED geminiVars PROVE GeminiInv'
  BY <1>9 DEF GeminiTick, ImagesRestart, AnalysisRestarts, geminiVars
<1> QED
  BY <1>1, <1>2, <1>3, <1>4, <1>5, <1>6, <1>7, <1>8, <1>9 DEF GeminiNext

(* After a refusal no thread of the image script calls Gemini twice before  *)
(* the cooldown is over, however the threads race for the gate and the slot *)
(* and whatever the other script does to the file they share.               *)
THEOREM GeminiSpared == GeminiSpec => []OneCallPerCooldown
<1>1. GeminiInit => GeminiInv
  <2> SUFFICES ASSUME GeminiInit PROVE GeminiInv
    OBVIOUS
  <2>1. 0 \in Times /\ 0 \in 0..MaxNow /\ 0 \in Nat
    BY GeminiAssumption DEF Times
  <2>2. actor \in [Actors -> [at : {"quiet", "asleep", "queued", "calling", "refused", "read", "write"},
                              until : Times]]
    BY <2>1 DEF GeminiInit, Quiet
  <2> QED
    BY <2>1, <2>2 DEF GeminiInit, GeminiInv, GeminiTypeOK, Spared
<1>2. GeminiInv => OneCallPerCooldown
  BY DEF GeminiInv, GeminiTypeOK, Spared, OneCallPerCooldown
<1> QED
  BY <1>1, <1>2, GeminiStep, PTL DEF GeminiSpec

-----------------------------------------------------------------------------
(***************************************************************************)
(* A run that had the project to itself leaves a column of its own, for any *)
(* number of runs before it and any set of stages that may end degraded.    *)
(***************************************************************************)

Alone(n) == n = current /\ n \notin shared

(* Runs are started one after the other, and one that is alone is the only  *)
(* one at work.                                                             *)
RunsInTurn ==
  /\ \A n \in Run : n > current <=> at[n] = "idle"
  /\ \A n \in Run : n > current => stage[n] = 0
  /\ \A n \in Run : Alone(n) => AtWork \subseteq {n}
  /\ \A n \in Run : at[n] \in {"readToClear", "clear"} => stage[n] = 0
  /\ \A n \in Run : stage[n] = Render + 1 => at[n] = "over"
  /\ \A n \in Run : at[n] \notin {"idle", "readToClear", "clear", "over"} => stage[n] \in 1..Render
  /\ \A n \in Run : at[n] = "save" => stage[n] = Images
  /\ \A n \in Run : at[n] \in {"addMetrics", "done"} => stage[n] \in WithMetrics

(* A stage is reported degraded when it has come to its reasons, not before.*)
DegradedInTurn ==
  /\ \A n \in Run : at[n] = "addReasons" => <<n, stage[n]>> \in degraded
  /\ \A r \in degraded :
        /\ r[2] <= stage[r[1]]
        /\ r[2] = stage[r[1]] => at[r[1]] \notin {"script", "save", "reasons"}

(* What the run has read is still what the column holds.                    *)
CopyIsFresh(n) == at[n] \in {"save", "addReasons", "addMetrics"} => copy[n] = column

AnalysisSaved(n) == \/ stage[n] > Analyze
                    \/ stage[n] = Analyze /\ at[n] # "script"
StillGoing(n)    == at[n] = "over" => stage[n] = Render + 1

(* The part of the run's own column that is written by now: the analysis    *)
(* has erased whatever was there, and every later write has kept it.        *)
ColumnSoFar(n) ==
  /\ column.analysis = n
  /\ column.images = IF stage[n] > Images \/ (stage[n] = Images /\ at[n] \notin {"script", "save"})
                     THEN n ELSE 0
  /\ column.reasons = {r \in degraded : /\ r[1] = n /\ r[2] >= Analyze
                                         /\ ~(r[2] = stage[n] /\ at[n] = "addReasons")}
  /\ column.metrics = {n} \X {s \in WithMetrics : s < stage[n] \/ (s = stage[n] /\ at[n] = "done")}

ColumnInv ==
  /\ ColumnTypeOK
  /\ RunsInTurn
  /\ DegradedInTurn
  /\ \A n \in Run : Alone(n) => /\ CopyIsFresh(n)
                                /\ AnalysisSaved(n) /\ StillGoing(n) => ColumnSoFar(n)

(* Every step of a run keeps what the others, and itself, have to rely on.  *)
LEMMA ColumnStep == ColumnInv /\ [ColumnNext]_columnVars => ColumnInv'
<1> SUFFICES ASSUME ColumnInv, [ColumnNext]_columnVars PROVE ColumnInv'
  OBVIOUS
<1>0. /\ Analyze = 2 /\ Images = 3 /\ Render = 4 /\ WithMetrics = {3, 4}
      /\ Run \subseteq Nat \ {0} /\ Runs \in Nat /\ (\A n \in 0..Runs : n \in Nat)
      /\ \A r \in Reported : r[1] \in Run /\ r[2] \in Nat /\ r = <<r[1], r[2]>>
      /\ Blank \in Columns
  BY RunsAssumption DEF Analyze, Images, Render, WithMetrics, Run, Reported, Blank, Columns
<1> USE <1>0 DEF ColumnInv, ColumnTypeOK
<1>1. ASSUME StartRun PROVE ColumnInv'
  <2>1. ColumnTypeOK'
    BY <1>1 DEF StartRun, MoveTo, AtWork, Run
  <2>2. RunsInTurn'
    BY <1>1 DEF StartRun, MoveTo, AtWork, Run, RunsInTurn, Alone
  <2>3. DegradedInTurn'
    BY <1>1 DEF StartRun, MoveTo, DegradedInTurn
  <2>4. ASSUME NEW n \in Run, Alone(n)' PROVE n = current + 1 /\ stage'[n] = 0 /\ at'[n] = "readToClear"
    BY <1>1, <2>4 DEF StartRun, MoveTo, Alone, RunsInTurn
  <2> QED
    BY <2>1, <2>2, <2>3, <2>4 DEF CopyIsFresh, AnalysisSaved
<1>2. ASSUME NEW n \in Run, ReadToClear(n) PROVE ColumnInv'
  <2>1. ColumnTypeOK'
    BY <1>2 DEF ReadToClear, ReadColumn, MoveTo
  <2>2. RunsInTurn'
    BY <1>2 DEF ReadToClear, ReadColumn, MoveTo, AtWork, RunsInTurn, Alone
  <2>3. DegradedInTurn'
    BY <1>2 DEF ReadToClear, ReadColumn, MoveTo, DegradedInTurn
  <2>4. ASSUME NEW m \in Run, Alone(m)'
        PROVE  CopyIsFresh(m)' /\ (AnalysisSaved(m)' /\ StillGoing(m)' => ColumnSoFar(m)')
    BY <1>2, <2>4 DEF ReadToClear, ReadColumn, MoveTo, Alone, RunsInTurn, CopyIsFresh,
       AnalysisSaved, StillGoing,
       ColumnSoFar
  <2> QED
    BY <2>1, <2>2, <2>3, <2>4
<1>3. ASSUME NEW n \in Run, ClearMeta(n) PROVE ColumnInv'
  <2>1. ColumnTypeOK'
    <3>1. [copy[n] EXCEPT !.reasons = {}, !.metrics = {}] \in Columns
      BY DEF Columns
    <3> QED
      BY <1>3, <3>1 DEF ClearMeta, MoveTo
  <2>2. RunsInTurn'
    BY <1>3 DEF ClearMeta, MoveTo, AtWork, RunsInTurn, Alone
  <2>3. DegradedInTurn'
    BY <1>3 DEF ClearMeta, MoveTo, DegradedInTurn, RunsInTurn
  <2>4. ASSUME NEW m \in Run, Alone(m)'
        PROVE  CopyIsFresh(m)' /\ (AnalysisSaved(m)' /\ StillGoing(m)' => ColumnSoFar(m)')
    BY <1>3, <2>4 DEF ClearMeta, MoveTo, Alone, RunsInTurn, AtWork, CopyIsFresh, AnalysisSaved,
       StillGoing, ColumnSoFar
  <2> QED
    BY <2>1, <2>2, <2>3, <2>4
<1>4. ASSUME NEW n \in Run, SaveAnalysis(n) PROVE ColumnInv'
  <2>1. ColumnTypeOK'
    <3>1. [Blank EXCEPT !.analysis = n] \in Columns
      BY <1>4 DEF SaveAnalysis, WriteColumn, MoveTo, RunsInTurn, Columns, Reported
    <3> QED
      BY <1>4, <3>1 DEF SaveAnalysis, WriteColumn, MoveTo
  <2>2. RunsInTurn'
    BY <1>4 DEF SaveAnalysis, WriteColumn, MoveTo, AtWork, RunsInTurn, Alone
  <2>3. DegradedInTurn'
    BY <1>4 DEF SaveAnalysis, WriteColumn, MoveTo, DegradedInTurn, RunsInTurn
  <2>4. ASSUME NEW m \in Run, Alone(m)'
        PROVE  CopyIsFresh(m)' /\ (AnalysisSaved(m)' /\ StillGoing(m)' => ColumnSoFar(m)')
    <3>1. m = n /\ Alone(n)
      BY <1>4, <2>4 DEF SaveAnalysis, WriteColumn, MoveTo, Alone, RunsInTurn, AtWork
    <3>2. /\ stage[n] = 2 /\ stage' = stage /\ at[n] = "script" /\ at'[n] = "reasons" /\ degraded' = degraded
          /\ column' = [Blank EXCEPT !.analysis = n]
      BY <1>4 DEF SaveAnalysis, WriteColumn, MoveTo
    <3>3. column'.analysis = n /\ column'.images = 0 /\ column'.reasons = {} /\ column'.metrics = {}
      BY <3>2 DEF Blank
    <3>4. {r \in degraded : r[1] = n /\ r[2] >= 2 /\ ~(r[2] = stage[n] /\ at'[n] = "addReasons")} = {}
      BY <3>2 DEF DegradedInTurn
    <3>5. {n} \X {s \in WithMetrics : s < stage[n] \/ (s = stage[n] /\ at'[n] = "done")} = {}
      BY <3>2
    <3> QED
      BY <3>1, <3>2, <3>3, <3>4, <3>5 DEF ColumnSoFar, CopyIsFresh
  <2> QED
    BY <2>1, <2>2, <2>3, <2>4
<1>5. ASSUME NEW n \in Run, ReadForImages(n) PROVE ColumnInv'
  <2>1. ColumnTypeOK'
    BY <1>5 DEF ReadForImages, ReadColumn, MoveTo
  <2>2. RunsInTurn'
    BY <1>5 DEF ReadForImages, ReadColumn, MoveTo, AtWork, RunsInTurn, Alone
  <2>3. DegradedInTurn'
    BY <1>5 DEF ReadForImages, ReadColumn, MoveTo, DegradedInTurn, RunsInTurn
  <2>4. ASSUME NEW m \in Run, Alone(m)'
        PROVE  CopyIsFresh(m)' /\ (AnalysisSaved(m)' /\ StillGoing(m)' => ColumnSoFar(m)')
    <3>1. /\ UNCHANGED <<column, degraded, stage, current, shared>>
          /\ copy' = [copy EXCEPT ![n] = column] /\ at' = [at EXCEPT ![n] = "save"]
          /\ stage[n] = 3 /\ at[n] = "script" /\ stage'[n] = 3 /\ at'[n] = "save"
      BY <1>5 DEF ReadForImages, ReadColumn, MoveTo
    <3>2. m = n /\ Alone(n)
      BY <2>4, <3>1 DEF Alone, RunsInTurn, AtWork
    <3>3. CopyIsFresh(n)'
      BY <3>1 DEF CopyIsFresh, RunsInTurn
    <3>4. ColumnSoFar(n)
      BY <3>1, <3>2 DEF AnalysisSaved, StillGoing
    <3>5. column'.images = 0 /\ column'.analysis = n
      BY <3>1, <3>4 DEF ColumnSoFar
    <3>6. column'.reasons = {r \in degraded' : r[1] = n /\ r[2] >= 2 /\ ~(r[2] = stage'[n] /\ at'[n] = "addReasons")}
      BY <3>1, <3>4 DEF ColumnSoFar
    <3>7. column'.metrics = {n} \X {s \in WithMetrics : s < stage'[n] \/ (s = stage'[n] /\ at'[n] = "done")}
      BY <3>1, <3>4 DEF ColumnSoFar
    <3> QED
      BY <3>1, <3>2, <3>3, <3>5, <3>6, <3>7 DEF ColumnSoFar
  <2> QED
    BY <2>1, <2>2, <2>3, <2>4
<1>6. ASSUME NEW n \in Run, SaveImages(n) PROVE ColumnInv'
  <2>1. ColumnTypeOK'
    <3>1. [copy[n] EXCEPT !.images = n] \in Columns
      <4>1. copy[n] \in Columns
        BY ONLY ColumnTypeOK, <1>6 DEF ColumnTypeOK
      <4>2. n \in 0..Runs
        BY ONLY <1>6, RunsAssumption DEF Run
      <4> QED
        BY ONLY <4>1, <4>2 DEF Columns
    <3> QED
      BY <1>6, <3>1 DEF SaveImages, WriteColumn, MoveTo
  <2>2. RunsInTurn'
    BY <1>6 DEF SaveImages, WriteColumn, MoveTo, AtWork, RunsInTurn, Alone
  <2>3. DegradedInTurn'
    BY <1>6 DEF SaveImages, WriteColumn, MoveTo, DegradedInTurn, RunsInTurn
  <2>4. ASSUME NEW m \in Run, Alone(m)'
        PROVE  CopyIsFresh(m)' /\ (AnalysisSaved(m)' /\ StillGoing(m)' => ColumnSoFar(m)')
    <3>1. m = n /\ Alone(n)
      BY <1>6, <2>4 DEF SaveImages, WriteColumn, MoveTo, Alone, RunsInTurn, AtWork
    <3>2. /\ at[n] = "save" /\ stage[n] = 3 /\ stage' = stage /\ at'[n] = "reasons" /\ degraded' = degraded
          /\ column' = [column EXCEPT !.images = n]
      BY <1>6, <3>1 DEF SaveImages, WriteColumn, MoveTo, CopyIsFresh, RunsInTurn
    <3>3. /\ column'.analysis = column.analysis /\ column'.images = n
          /\ column'.reasons = column.reasons /\ column'.metrics = column.metrics
      BY <3>2 DEF Columns
    <3>4. AnalysisSaved(n) /\ StillGoing(n)
      BY <3>2 DEF AnalysisSaved, StillGoing
    <3>5. /\ column.analysis = n
          /\ column.reasons = {r \in degraded : r[1] = n /\ r[2] >= 2 /\ ~(r[2] = stage[n] /\ at[n] = "addReasons")}
          /\ column.metrics = {n} \X {s \in WithMetrics : s < stage[n] \/ (s = stage[n] /\ at[n] = "done")}
      BY <3>1, <3>4 DEF ColumnSoFar
    <3>6. /\ {r \in degraded : r[1] = n /\ r[2] >= 2 /\ ~(r[2] = stage[n] /\ at[n] = "addReasons")}
            = {r \in degraded' : r[1] = n /\ r[2] >= 2 /\ ~(r[2] = stage'[n] /\ at'[n] = "addReasons")}
          /\ {s \in WithMetrics : s < stage[n] \/ (s = stage[n] /\ at[n] = "done")}
            = {s \in WithMetrics : s < stage'[n] \/ (s = stage'[n] /\ at'[n] = "done")}
      BY <3>2
    <3> QED
      BY <3>1, <3>2, <3>3, <3>5, <3>6 DEF ColumnSoFar, CopyIsFresh
  <2> QED
    BY <2>1, <2>2, <2>3, <2>4
<1>7. ASSUME NEW n \in Run, OtherScript(n) \/ NotDegraded(n) PROVE ColumnInv'
  <2>1. ColumnTypeOK'
    BY <1>7 DEF OtherScript, NotDegraded, MoveTo
  <2>2. RunsInTurn'
    BY <1>7 DEF OtherScript, NotDegraded, MoveTo, AtWork, RunsInTurn, Alone
  <2>3. DegradedInTurn'
    BY <1>7 DEF OtherScript, NotDegraded, MoveTo, DegradedInTurn, RunsInTurn
  <2>4. ASSUME NEW m \in Run, Alone(m)'
        PROVE  CopyIsFresh(m)' /\ (AnalysisSaved(m)' /\ StillGoing(m)' => ColumnSoFar(m)')
    BY <1>7, <2>4 DEF OtherScript, NotDegraded, MoveTo, Alone, RunsInTurn, AtWork, CopyIsFresh,
       AnalysisSaved, StillGoing, ColumnSoFar, DegradedInTurn
  <2> QED
    BY <2>1, <2>2, <2>3, <2>4
<1>8. ASSUME NEW n \in Run, RunFails(n) PROVE ColumnInv'
  <2>1. ColumnTypeOK'
    BY <1>8 DEF RunFails, MoveTo
  <2>2. RunsInTurn'
    BY <1>8 DEF RunFails, MoveTo, AtWork, RunsInTurn, Alone
  <2>3. DegradedInTurn'
    BY <1>8 DEF RunFails, MoveTo, DegradedInTurn, RunsInTurn
  <2>4. ASSUME NEW m \in Run, Alone(m)'
        PROVE  CopyIsFresh(m)' /\ (AnalysisSaved(m)' /\ StillGoing(m)' => ColumnSoFar(m)')
    BY <1>8, <2>4 DEF RunFails, MoveTo, Alone, RunsInTurn, AtWork, CopyIsFresh,
       AnalysisSaved, StillGoing, ColumnSoFar, DegradedInTurn
  <2> QED
    BY <2>1, <2>2, <2>3, <2>4
<1>9. ASSUME NEW n \in Run, ReadForReasons(n) PROVE ColumnInv'
  <2>1. ColumnTypeOK'
    <3>1. <<n, stage[n]>> \in Reported
      BY <1>9 DEF ReadForReasons, MoveTo, RunsInTurn, Columns, Reported
    <3> QED
      BY <1>9, <3>1 DEF ReadForReasons, MoveTo
  <2>2. RunsInTurn'
    BY <1>9 DEF ReadForReasons, MoveTo, AtWork, RunsInTurn, Alone
  <2>3. DegradedInTurn'
    BY <1>9 DEF ReadForReasons, MoveTo, DegradedInTurn, RunsInTurn
  <2>4. ASSUME NEW m \in Run, Alone(m)'
        PROVE  CopyIsFresh(m)' /\ (AnalysisSaved(m)' /\ StillGoing(m)' => ColumnSoFar(m)')
    BY <1>9, <2>4 DEF ReadForReasons, MoveTo, Alone, RunsInTurn, AtWork, CopyIsFresh,
       AnalysisSaved, StillGoing, ColumnSoFar, DegradedInTurn
  <2> QED
    BY <2>1, <2>2, <2>3, <2>4
<1>10. ASSUME NEW n \in Run, AddReasons(n) PROVE ColumnInv'
  <2>1. ColumnTypeOK'
    <3>1. [copy[n] EXCEPT !.reasons = @ \cup {<<n, stage[n]>>}] \in Columns
      BY <1>10 DEF AddReasons, WriteColumn, MoveTo, RunsInTurn, Columns, Reported
    <3> QED
      BY <1>10, <3>1 DEF AddReasons, WriteColumn, MoveTo
  <2>2. RunsInTurn'
    BY <1>10 DEF AddReasons, WriteColumn, MoveTo, AtWork, RunsInTurn, Alone
  <2>3. DegradedInTurn'
    BY <1>10 DEF AddReasons, WriteColumn, MoveTo, DegradedInTurn, RunsInTurn
  <2>4. ASSUME NEW m \in Run, Alone(m)'
        PROVE  CopyIsFresh(m)' /\ (AnalysisSaved(m)' /\ StillGoing(m)' => ColumnSoFar(m)')
    <3>1. m = n /\ Alone(n)
      BY <1>10, <2>4 DEF AddReasons, WriteColumn, MoveTo, Alone, RunsInTurn, AtWork
    <3>2. /\ at[n] = "addReasons" /\ stage' = stage /\ at'[n] = "metrics" /\ degraded' = degraded
          /\ column' = [column EXCEPT !.reasons = @ \cup {<<n, stage[n]>>}]
      BY <1>10, <3>1 DEF AddReasons, WriteColumn, MoveTo, CopyIsFresh
    <3>3. /\ column'.analysis = column.analysis /\ column'.images = column.images
          /\ column'.reasons = column.reasons \cup {<<n, stage[n]>>} /\ column'.metrics = column.metrics
      BY <3>2 DEF Columns
    <3> SUFFICES ASSUME AnalysisSaved(n)' PROVE ColumnSoFar(n)'
      BY <3>1, <3>2 DEF CopyIsFresh
    <3>4. AnalysisSaved(n) /\ StillGoing(n) /\ stage[n] \in Nat /\ stage[n] >= 2
      BY <3>2 DEF AnalysisSaved, StillGoing
    <3>5. <<n, stage[n]>> \in degraded
      BY <3>2 DEF DegradedInTurn
    <3>6. column.reasons = {r \in degraded : r[1] = n /\ r[2] >= 2 /\ ~(r[2] = stage[n] /\ at[n] = "addReasons")}
      BY <3>1, <3>4 DEF ColumnSoFar
    <3>7. column.reasons \cup {<<n, stage[n]>>}
            = {r \in degraded' : r[1] = n /\ r[2] >= 2 /\ ~(r[2] = stage'[n] /\ at'[n] = "addReasons")}
      <4>1. ASSUME NEW r \in degraded, r[1] = n, r[2] = stage[n] PROVE r = <<n, stage[n]>>
        BY <4>1
      <4> QED
        BY <3>2, <3>4, <3>5, <3>6, <4>1
    <3>8. /\ column.analysis = n
          /\ column.images = IF stage[n] > Images \/ (stage[n] = Images /\ at[n] \notin {"script", "save"})
                              THEN n ELSE 0
          /\ column.metrics = {n} \X {s \in WithMetrics : s < stage[n] \/ (s = stage[n] /\ at[n] = "done")}
      BY <3>1, <3>4 DEF ColumnSoFar
    <3>9. {s \in WithMetrics : s < stage[n] \/ (s = stage[n] /\ at[n] = "done")}
            = {s \in WithMetrics : s < stage'[n] \/ (s = stage'[n] /\ at'[n] = "done")}
      BY <3>2
    <3> QED
      BY <3>1, <3>2, <3>3, <3>7, <3>8, <3>9 DEF ColumnSoFar, CopyIsFresh
  <2> QED
    BY <2>1, <2>2, <2>3, <2>4
<1>11. ASSUME NEW n \in Run, ReadForMetrics(n) PROVE ColumnInv'
  <2>1. ColumnTypeOK'
    BY <1>11 DEF ReadForMetrics, ReadColumn, MoveTo
  <2>2. RunsInTurn'
    BY <1>11 DEF ReadForMetrics, ReadColumn, MoveTo, AtWork, RunsInTurn, Alone
  <2>3. DegradedInTurn'
    BY <1>11 DEF ReadForMetrics, ReadColumn, MoveTo, DegradedInTurn, RunsInTurn
  <2>4. ASSUME NEW m \in Run, Alone(m)'
        PROVE  CopyIsFresh(m)' /\ (AnalysisSaved(m)' /\ StillGoing(m)' => ColumnSoFar(m)')
    BY <1>11, <2>4 DEF ReadForMetrics, ReadColumn, MoveTo, Alone, RunsInTurn, AtWork, CopyIsFresh,
       AnalysisSaved, StillGoing, ColumnSoFar, DegradedInTurn
  <2> QED
    BY <2>1, <2>2, <2>3, <2>4
<1>12. ASSUME NEW n \in Run, AddMetrics(n) PROVE ColumnInv'
  <2>1. ColumnTypeOK'
    <3>1. column' \in Columns
      BY <1>12 DEF AddMetrics, WriteColumn, MoveTo, RunsInTurn, Columns, Reported
    <3> QED
      BY <1>12, <3>1 DEF AddMetrics, WriteColumn, MoveTo
  <2>2. RunsInTurn'
    BY <1>12 DEF AddMetrics, WriteColumn, MoveTo, AtWork, RunsInTurn, Alone
  <2>3. DegradedInTurn'
    BY <1>12 DEF AddMetrics, WriteColumn, MoveTo, DegradedInTurn, RunsInTurn
  <2>4. ASSUME NEW m \in Run, Alone(m)'
        PROVE  CopyIsFresh(m)' /\ (AnalysisSaved(m)' /\ StillGoing(m)' => ColumnSoFar(m)')
    <3>1. m = n /\ Alone(n)
      BY <1>12, <2>4 DEF AddMetrics, WriteColumn, MoveTo, Alone, RunsInTurn, AtWork
    <3>2. /\ at[n] = "addMetrics" /\ stage' = stage /\ at'[n] = "done" /\ degraded' = degraded
          /\ column' = [column EXCEPT !.metrics = {x \in @ : x[2] # stage[n]} \cup {<<n, stage[n]>>}]
      BY <1>12, <3>1 DEF AddMetrics, WriteColumn, MoveTo, CopyIsFresh
    <3>3. /\ column'.analysis = column.analysis /\ column'.images = column.images
          /\ column'.reasons = column.reasons
          /\ column'.metrics = {x \in column.metrics : x[2] # stage[n]} \cup {<<n, stage[n]>>}
      BY <3>2 DEF Columns
    <3>4. stage[n] \in WithMetrics /\ stage[n] > 2 /\ AnalysisSaved(n) /\ StillGoing(n)
      BY <3>2 DEF AnalysisSaved, StillGoing, RunsInTurn
    <3>5. column.metrics = {n} \X {s \in WithMetrics : s < stage[n] \/ (s = stage[n] /\ at[n] = "done")}
      BY <3>1, <3>4 DEF ColumnSoFar
    <3>6. column'.metrics = {n} \X {s \in WithMetrics : s < stage[n] \/ s = stage[n]}
      <4>1. {x \in {n} \X {s \in WithMetrics : s < stage[n] \/ (s = stage[n] /\ at[n] = "done")} : x[2] # stage[n]}
              = {n} \X {s \in WithMetrics : s < stage[n]}
        BY <3>4
      <4>2. ({n} \X {s \in WithMetrics : s < stage[n]}) \cup {<<n, stage[n]>>}
              = {n} \X ({s \in WithMetrics : s < stage[n]} \cup {stage[n]})
        OBVIOUS
      <4>3. {s \in WithMetrics : s < stage[n]} \cup {stage[n]} = {s \in WithMetrics : s < stage[n] \/ s = stage[n]}
        BY <3>4
      <4> QED
        BY <3>3, <3>5, <4>1, <4>2, <4>3
    <3>7. /\ column.analysis = n
          /\ column.images = IF stage[n] > Images \/ (stage[n] = Images /\ at[n] \notin {"script", "save"})
                              THEN n ELSE 0
          /\ column.reasons = {r \in degraded : r[1] = n /\ r[2] >= 2 /\ ~(r[2] = stage[n] /\ at[n] = "addReasons")}
      BY <3>1, <3>4 DEF ColumnSoFar
    <3>8. {r \in degraded : r[1] = n /\ r[2] >= 2 /\ ~(r[2] = stage[n] /\ at[n] = "addReasons")}
            = {r \in degraded' : r[1] = n /\ r[2] >= 2 /\ ~(r[2] = stage'[n] /\ at'[n] = "addReasons")}
      BY <3>2
    <3>9. {s \in WithMetrics : s < stage[n] \/ s = stage[n]}
            = {s \in WithMetrics : s < stage'[n] \/ (s = stage'[n] /\ at'[n] = "done")}
      BY <3>2
    <3> QED
      BY <3>1, <3>2, <3>3, <3>6, <3>7, <3>8, <3>9 DEF ColumnSoFar, CopyIsFresh
  <2> QED
    BY <2>1, <2>2, <2>3, <2>4
<1>13. ASSUME NEW n \in Run, NextStage(n) PROVE ColumnInv'
  <2>1. ColumnTypeOK'
    <3>1. stage[n] \in 1..4
      BY <1>13 DEF NextStage, RunsInTurn
    <3> QED
      BY <1>13, <3>1 DEF NextStage, MoveTo
  <2>2. RunsInTurn'
    BY <1>13 DEF NextStage, MoveTo, AtWork, RunsInTurn, Alone
  <2>3. DegradedInTurn'
    BY <1>13 DEF NextStage, MoveTo, DegradedInTurn, RunsInTurn
  <2>4. ASSUME NEW m \in Run, Alone(m)'
        PROVE  CopyIsFresh(m)' /\ (AnalysisSaved(m)' /\ StillGoing(m)' => ColumnSoFar(m)')
    BY <1>13, <2>4 DEF NextStage, MoveTo, Alone, RunsInTurn, AtWork, CopyIsFresh,
       AnalysisSaved, StillGoing, ColumnSoFar, DegradedInTurn
  <2> QED
    BY <2>1, <2>2, <2>3, <2>4
<1>14. ASSUME UNCHANGED columnVars PROVE ColumnInv'
  BY <1>14 DEF columnVars, RunsInTurn, DegradedInTurn, Alone, AtWork, CopyIsFresh,
     AnalysisSaved, StillGoing, ColumnSoFar
<1> QED
  BY <1>1, <1>2, <1>3, <1>4, <1>5, <1>6, <1>7, <1>8, <1>9, <1>10, <1>11, <1>12, <1>13, <1>14
     DEF ColumnNext

(* A run that had the project to itself ends with a column that is all its   *)
(* own: its analysis, its images, its metrics and every degraded reason from *)
(* the analysis on.                                                          *)
THEOREM ColumnAlwaysOwn == ColumnSpec => []RunLeavesItsOwnColumn
<1>1. ColumnInit => ColumnInv
  BY RunsAssumption DEF ColumnInit, ColumnInv, ColumnTypeOK, RunsInTurn, DegradedInTurn, Alone,
     AtWork, Run, Blank,
     Columns, Render, CopyIsFresh, AnalysisSaved, StillGoing, Analyze
<1>2. ColumnInv => RunLeavesItsOwnColumn
  <2> SUFFICES ASSUME ColumnInv, NEW n \in Run, n = current, stage[n] = Render + 1, n \notin shared
               PROVE  column = [analysis |-> n, images |-> n,
                                reasons |-> {r \in degraded : r[1] = n /\ r[2] >= Analyze},
                                metrics |-> {n} \X WithMetrics]
    BY DEF RunLeavesItsOwnColumn
  <2>1. at[n] = "over" /\ ColumnSoFar(n)
    BY DEF ColumnInv, RunsInTurn, Alone, AnalysisSaved, StillGoing, Render, Analyze
  <2>2. /\ column.analysis = n /\ column.images = n
        /\ column.reasons = {r \in degraded : r[1] = n /\ r[2] >= Analyze}
        /\ column.metrics = {n} \X WithMetrics
    BY <2>1 DEF ColumnSoFar, Render, Images, WithMetrics
  <2>3. column = [analysis |-> column.analysis, images |-> column.images,
                  reasons |-> column.reasons, metrics |-> column.metrics]
    BY DEF ColumnInv, ColumnTypeOK, Columns
  <2> QED
    BY <2>2, <2>3
<1> QED
  BY <1>1, <1>2, ColumnStep, PTL DEF ColumnSpec

-----------------------------------------------------------------------------
(***************************************************************************)
(* A queued signal stays within the script's reach, for any number of       *)
(* signals and clears.  The file is written before Redis and by the same    *)
(* call, so a signal under way that nothing else was written over is in the *)
(* file; and what the script marks as processed has been applied, so it is  *)
(* another signal, or one that no longer waits.                             *)
(***************************************************************************)

(* A signal under way that nothing has been written over.                   *)
UnderWay(s) == save[s] # "new" /\ s \notin applied /\ s \notin dropped

SteeringInv ==
  /\ save \in [Signals -> {"new", "filed", "set", "queued"}]
  /\ \A s \in Signals : UnderWay(s) => file = Pending(s)
  /\ \A s \in Signals : UnderWay(s) /\ save[s] \in {"set", "queued"} => redis \in {Pending(s), Empty}
  /\ script \in {"markRedis", "markFile"} => inHand \in applied

LEMMA SteeringStep == SteeringInv /\ [SteeringNext]_steeringVars => SteeringInv'
<1> SUFFICES ASSUME SteeringInv, [SteeringNext]_steeringVars PROVE SteeringInv'
  OBVIOUS
<1> USE DEF SteeringInv, UnderWay
<1>1. ASSUME NEW s \in Signals, SaveFile(s) PROVE SteeringInv'
  BY <1>1 DEF SaveFile, DropOthers
<1>2. ASSUME NEW s \in Signals, SaveRedis(s) PROVE SteeringInv'
  BY <1>2 DEF SaveRedis, DropOthers
<1>3. ASSUME NEW s \in Signals, SaveRedisFails(s) PROVE SteeringInv'
  BY <1>3 DEF SaveRedisFails
<1>4. ASSUME NEW s \in Signals, SaveExpire(s) PROVE SteeringInv'
  BY <1>4 DEF SaveExpire, steeringHistory
<1>5. CASE RedisExpires
  BY <1>5 DEF RedisExpires, steeringHistory
<1>6. CASE ClearFile \/ ClearRedis
  BY <1>6 DEF ClearFile, ClearRedis
<1>7. CASE ReadRedis \/ ReadRedisFails \/ ReadFile
  BY <1>7 DEF ReadRedis, ReadRedisFails, ReadFile, Steer, steeringHistory
<1>8. CASE MarkRedis
  BY <1>8 DEF MarkRedis, DropOthers
<1>9. CASE MarkFile
  BY <1>9 DEF MarkFile, DropOthers
<1>10. CASE UNCHANGED steeringVars
  BY <1>10 DEF steeringVars
<1> QED
  BY <1>1, <1>2, <1>3, <1>4, <1>5, <1>6, <1>7, <1>8, <1>9, <1>10 DEF SteeringNext

(* Whatever fails, expires, is cleared or marked, Redis or the file behind   *)
(* it still has a queued signal that is to steer a scene.                   *)
THEOREM QueuedSignalAlwaysReadable == SteeringSpec => []QueuedSignalIsReadable
<1>1. SteeringInit => SteeringInv
  BY DEF SteeringInit, SteeringInv, UnderWay
<1>2. SteeringInv => QueuedSignalIsReadable
  BY DEF SteeringInv, UnderWay, QueuedSignalIsReadable, Waiting
<1> QED
  BY <1>1, <1>2, SteeringStep, PTL DEF SteeringSpec
=============================================================================
