---------------------------- MODULE GeminiCooldown ----------------------------
(***************************************************************************)
(* How the scripts that call Gemini spare it after it has refused a call   *)
(* (generate_images.py, analyze_lyrics.py, gemini_semaphore.py): a cooldown *)
(* kept in the memory of the image script and in a file for all scripts.   *)
(* The threads of the image script pass the gate before every attempt, and *)
(* then wait for the one slot that calls are made in.  The analysis calls  *)
(* without either: it only activates the cooldown.                         *)
(***************************************************************************)
EXTENDS Naturals, FiniteSets

CONSTANTS
    Threads,       \* of the image script
    LongCooldown,  \* of the image script, 90 seconds in the code
    ShortCooldown, \* of the analysis, 30 seconds
    MaxNow         \* bound: the clock

ASSUME GeminiAssumption ==
    /\ LongCooldown \in Nat /\ ShortCooldown \in Nat /\ MaxNow \in Nat
    /\ 0 < ShortCooldown /\ ShortCooldown <= LongCooldown

Analysis == "analysis"
Actors == Threads \cup {Analysis}

VARIABLES
    fileUntil,   \* cooldown.json, 0 when there is none
    halfWritten, \* it is not a document
    localUntil,  \* _GEMINI_ROUTING_STATE of the image script
    now,         \* time
    actor,       \* what each thread and the analysis does, until when or with which end
    lateCalls    \* history: calls of a thread in the cooldown its script activated last

geminiVars == <<fileUntil, halfWritten, localUntil, now, actor, lateCalls>>

Times == 0..(MaxNow + LongCooldown)
Quiet == [at |-> "quiet", until |-> 0]

GeminiTypeOK ==
    /\ fileUntil \in Times /\ localUntil \in Times
    /\ now \in 0..MaxNow
    /\ actor \in [Actors -> [at : {"quiet", "asleep", "queued", "calling", "refused", "read", "write"},
                             until : Times]]
    /\ lateCalls \in [Threads -> Nat]
    /\ halfWritten \in BOOLEAN

GeminiInit ==
    /\ fileUntil = 0 /\ halfWritten = FALSE
    /\ localUntil = 0
    /\ now = 0
    /\ actor = [a \in Actors |-> Quiet]
    /\ lateCalls = [t \in Threads |-> 0]

(* The lock of CrossProcessCooldown keeps the threads of one script apart. *)
FileLockFree(a) == \A b \in Threads \ {a} : a = Analysis \/ actor[b].at # "write"

-----------------------------------------------------------------------------
(* Mutation: A gate that looks at the file alone. *)
Remaining_fileOnly == IF halfWritten THEN 0 ELSE fileUntil

(* get_gemini_cooldown_remaining_seconds, as the end of the cooldown: a file
   that cannot be parsed counts as none. *)
Remaining ==
    IF halfWritten \/ fileUntil < localUntil THEN localUntil ELSE fileUntil

Gate(t) ==
    /\ actor[t].at = "quiet" /\ FileLockFree(t)
    /\ actor' = [actor EXCEPT ![t] = IF Remaining > now THEN [at |-> "asleep", until |-> Remaining]
                                     ELSE [at |-> "queued", until |-> 0]]
    /\ UNCHANGED <<fileUntil, halfWritten, localUntil, now, lateCalls>>

(* Whoever has slept does not look again. *)
WakeUp(t) ==
    /\ actor[t].at = "asleep" /\ now >= actor[t].until
    /\ actor' = [actor EXCEPT ![t] = [at |-> "queued", until |-> 0]]
    /\ UNCHANGED <<fileUntil, halfWritten, localUntil, now, lateCalls>>

(* gemini_global_slot and _GEMINI_CALL_LOCK. *)
TakeSlot(t) ==
    /\ actor[t].at = "queued" /\ \A b \in Threads : actor[b].at # "calling"
    /\ actor' = [actor EXCEPT ![t].at = "calling"]
    /\ lateCalls' = IF localUntil > now THEN [lateCalls EXCEPT ![t] = @ + 1] ELSE lateCalls
    /\ UNCHANGED <<fileUntil, halfWritten, localUntil, now>>

AnalysisCalls ==
    /\ actor[Analysis].at = "quiet"
    /\ actor' = [actor EXCEPT ![Analysis].at = "calling"]
    /\ UNCHANGED <<fileUntil, halfWritten, localUntil, now, lateCalls>>

(* Success, or an error other than a refusal; the slot is given back. *)
CallEnds(a) ==
    /\ actor[a].at = "calling"
    /\ actor' = [actor EXCEPT ![a] = Quiet]
    /\ UNCHANGED <<fileUntil, halfWritten, localUntil, now, lateCalls>>

(* HTTP 429.  A thread has left the slot before it activates the cooldown. *)
CallRefused(a) ==
    /\ actor[a].at = "calling"
    /\ actor' = [actor EXCEPT ![a].at = IF a = Analysis THEN "read" ELSE "refused"]
    /\ UNCHANGED <<fileUntil, halfWritten, localUntil, now, lateCalls>>

-----------------------------------------------------------------------------
(* activate_gemini_cooldown: first the script's own, then the file. *)
ActivateLocal(t) ==
    LET until == now + LongCooldown IN
    /\ actor[t].at = "refused"
    /\ localUntil' = IF until > localUntil THEN until ELSE localUntil
    /\ lateCalls' = IF until > localUntil THEN [b \in Threads |-> 0] ELSE lateCalls
    /\ actor' = [actor EXCEPT ![t].at = "read"]
    /\ UNCHANGED <<fileUntil, halfWritten, now>>

Until(a) == now + (IF a = Analysis THEN ShortCooldown ELSE LongCooldown)

Extends(until) == halfWritten \/ fileUntil < until

(* activate: the file is read, and opened for writing, which empties it. *)
ActivateRead(a) ==
    LET until == Until(a) IN
    /\ actor[a].at = "read" /\ FileLockFree(a)
    /\ IF Extends(until)
       THEN /\ actor' = [actor EXCEPT ![a] = [at |-> "write", until |-> until]]
            /\ halfWritten' = TRUE
       ELSE /\ actor' = [actor EXCEPT ![a] = Quiet]
            /\ UNCHANGED halfWritten
    /\ UNCHANGED <<fileUntil, localUntil, now, lateCalls>>

(* A text that another script has completed meanwhile is overlaid: when the
   new one is shorter, the rest of the old one follows it. *)
ActivateWrite(a) ==
    /\ actor[a].at = "write"
    /\ fileUntil' = actor[a].until
    /\ halfWritten' \in (IF halfWritten THEN {FALSE} ELSE BOOLEAN)
    /\ actor' = [actor EXCEPT ![a] = Quiet]
    /\ UNCHANGED <<localUntil, now, lateCalls>>

-----------------------------------------------------------------------------
GeminiTick ==
    /\ now < MaxNow
    /\ now' = now + 1
    /\ UNCHANGED <<fileUntil, halfWritten, localUntil, actor, lateCalls>>

(* A script ends or is killed, and starts again for the next project. *)
ImagesRestart ==
    /\ actor' = [a \in Actors |-> IF a \in Threads THEN Quiet ELSE actor[a]]
    /\ localUntil' = 0
    /\ lateCalls' = [t \in Threads |-> 0]
    /\ UNCHANGED <<fileUntil, halfWritten, now>>

AnalysisRestarts ==
    /\ actor' = [actor EXCEPT ![Analysis] = Quiet]
    /\ UNCHANGED <<fileUntil, halfWritten, localUntil, now, lateCalls>>

GeminiNext ==
    \/ \E t \in Threads :
          \/ Gate(t)
          \/ WakeUp(t)
          \/ TakeSlot(t)
          \/ ActivateLocal(t)
    \/ AnalysisCalls
    \/ \E a \in Actors :
          \/ CallEnds(a)
          \/ CallRefused(a)
          \/ ActivateRead(a)
          \/ ActivateWrite(a)
    \/ GeminiTick
    \/ ImagesRestart
    \/ AnalysisRestarts

GeminiSpec == GeminiInit /\ [][GeminiNext]_geminiVars

-----------------------------------------------------------------------------
(* After a refusal Gemini is spared.  A thread may be past the gate when the
   cooldown is activated, or wake from an earlier one that has been extended:
   it makes that call, and no second one before the cooldown is over, whatever
   the other script does to the file. *)
OneCallPerCooldown == \A t \in Threads : lateCalls[t] <= 1
=============================================================================
