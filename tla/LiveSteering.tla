---------------------------- MODULE LiveSteering ----------------------------
(***************************************************************************)
(* Live steering of a project: LiveSteeringService writes a signal of the  *)
(* viewer to a file and to Redis and acknowledges it as queued; the image  *)
(* script looks for a signal before every scene, in Redis first and in the *)
(* file when Redis has none, steers the scene with it and writes it back   *)
(* as processed to both.  Neither side locks anything, and both pass over  *)
(* the errors of Redis.  One script runs for the project.                  *)
(***************************************************************************)
EXTENDS Naturals

CONSTANTS
    Signals,  \* signals the viewers send, each once
    MaxClears \* bound: clearLiveSignal calls in a behaviour

Empty == [signal |-> "none", processed |-> TRUE]

Pending(s) == [signal |-> s, processed |-> FALSE]

Done(s) == [signal |-> s, processed |-> TRUE]

VARIABLES
    file,    \* output/live-signals/<project>.json
    redis,   \* steering:<project>
    volatile,\* the Redis key has a time to live
    save,    \* where saveLiveSignal stands for each signal
    clear,   \* where clearLiveSignal stands
    clears,  \* calls of clearLiveSignal so far
    script,  \* where the script stands in check_and_apply_steering
    inHand,  \* the signal the script is marking
    applied, \* history: signals that have steered a scene
    dropped  \* history: signals something else was written over, see below

steeringVars == <<file, redis, volatile, save, clear, clears, script, inHand,
                  applied, dropped>>
steeringHistory == <<applied, dropped>>

SteeringTypeOK ==
    /\ {file, redis} \subseteq [signal : Signals \cup {"none"}, processed : BOOLEAN]
    /\ volatile \in BOOLEAN
    /\ save \in [Signals -> {"new", "filed", "set", "queued"}]
    /\ clear \in {"idle", "unlinked"}
    /\ clears \in 0..MaxClears
    /\ script \in {"scene", "readFile", "markRedis", "markFile"}
    /\ inHand \in Signals \cup {"none"}
    /\ {applied, dropped} \subseteq SUBSET Signals

SteeringInit ==
    /\ file = Empty /\ redis = Empty /\ volatile = FALSE
    /\ save = [s \in Signals |-> "new"]
    /\ clear = "idle" /\ clears = 0
    /\ script = "scene" /\ inHand = "none"
    /\ applied = {} /\ dropped = {}

(* Every signal under way but s gives way to what is written now. *)
DropOthers(s) ==
    dropped' = dropped \cup {r \in Signals \ {s} : save[r] # "new"}

-----------------------------------------------------------------------------
(* Mutation: the file is no longer written, since Redis has the signal. *)
SaveFile_redisOnly(s) ==
    /\ save[s] = "new"
    /\ save' = [save EXCEPT ![s] = "filed"]
    /\ DropOthers(s)
    /\ UNCHANGED <<file, redis, volatile, clear, clears, script, inHand, applied>>

(* saveLiveSignal: the file, then Redis, then the time to live, then the
   acknowledgement; an error of Redis ends at the acknowledgement. *)
SaveFile(s) ==
    /\ save[s] = "new"
    /\ file' = Pending(s)
    /\ save' = [save EXCEPT ![s] = "filed"]
    /\ DropOthers(s)
    /\ UNCHANGED <<redis, volatile, clear, clears, script, inHand, applied>>

SaveRedis(s) ==
    /\ save[s] = "filed"
    /\ redis' = Pending(s) /\ volatile' = FALSE
    /\ save' = [save EXCEPT ![s] = "set"]
    /\ DropOthers(s)
    /\ UNCHANGED <<file, clear, clears, script, inHand, applied>>

(* The fallback: the file alone has the signal, and the script reads it only
   when Redis has nothing at all. *)
SaveRedisFails(s) ==
    /\ save[s] = "filed"
    /\ save' = [save EXCEPT ![s] = "queued"]
    /\ dropped' = IF redis = Empty THEN dropped ELSE dropped \cup {s}
    /\ UNCHANGED <<file, redis, volatile, clear, clears, script, inHand, applied>>

SaveExpire(s) ==
    /\ save[s] = "set"
    /\ volatile' \in {volatile, redis # Empty}
    /\ save' = [save EXCEPT ![s] = "queued"]
    /\ UNCHANGED <<file, redis, clear, clears, script, inHand, steeringHistory>>

(* 300 s later. *)
RedisExpires ==
    /\ volatile
    /\ redis' = Empty /\ volatile' = FALSE
    /\ UNCHANGED <<file, save, clear, clears, script, inHand, steeringHistory>>

ClearFile ==
    /\ clear = "idle" /\ clears < MaxClears
    /\ clear' = "unlinked" /\ clears' = clears + 1
    /\ file' = Empty
    /\ dropped' = dropped \cup {r \in Signals : save[r] # "new"}
    /\ UNCHANGED <<redis, volatile, save, script, inHand, applied>>

(* A failure of DEL is passed over: the signal stays in Redis. *)
ClearRedis ==
    /\ clear = "unlinked"
    /\ clear' = "idle"
    /\ \/ redis' = Empty /\ volatile' = FALSE
       \/ UNCHANGED <<redis, volatile>>
    /\ dropped' = dropped \cup {r \in Signals : save[r] # "new"}
    /\ UNCHANGED <<file, save, clears, script, inHand, applied>>

-----------------------------------------------------------------------------
Steer(s) ==
    /\ inHand' = s
    /\ applied' = applied \cup {s}
    /\ script' = "markRedis"
    /\ UNCHANGED dropped

(* check_for_signal *)
ReadRedis ==
    /\ script = "scene"
    /\ IF redis = Empty
       THEN script' = "readFile" /\ UNCHANGED <<inHand, steeringHistory>>
       ELSE IF redis.processed
            THEN UNCHANGED <<script, inHand, steeringHistory>>
            ELSE Steer(redis.signal)
    /\ UNCHANGED <<file, redis, volatile, save, clear, clears>>

ReadRedisFails ==
    /\ script = "scene"
    /\ script' = "readFile"
    /\ UNCHANGED <<file, redis, volatile, save, clear, clears, inHand, steeringHistory>>

(* Mutation: The script never falls back to the file. *)
ReadFile_never ==
    /\ script = "readFile"
    /\ script' = "scene"
    /\ UNCHANGED <<file, redis, volatile, save, clear, clears, inHand, steeringHistory>>

ReadFile ==
    /\ script = "readFile"
    /\ IF file.processed
       THEN script' = "scene" /\ UNCHANGED <<inHand, steeringHistory>>
       ELSE Steer(file.signal)
    /\ UNCHANGED <<file, redis, volatile, save, clear, clears>>

(* mark_signal_processed, without a look at what it overwrites.  SET takes
   the key's time to live away. *)
MarkRedis ==
    /\ script = "markRedis"
    /\ script' = "markFile"
    /\ \/ /\ redis' = Done(inHand) /\ volatile' = FALSE
          /\ DropOthers(inHand)
       \/ UNCHANGED <<redis, volatile, dropped>>
    /\ UNCHANGED <<file, save, clear, clears, inHand, applied>>

MarkFile ==
    /\ script = "markFile"
    /\ script' = "scene" /\ inHand' = "none"
    /\ \/ /\ file' = Done(inHand)
          /\ DropOthers(inHand)
       \/ UNCHANGED <<file, dropped>>
    /\ UNCHANGED <<redis, volatile, save, clear, clears, applied>>

SteeringNext ==
    \/ \E s \in Signals :
          SaveFile(s) \/ SaveRedis(s) \/ SaveRedisFails(s) \/ SaveExpire(s)
    \/ RedisExpires
    \/ ClearFile
    \/ ClearRedis
    \/ ReadRedis
    \/ ReadRedisFails
    \/ ReadFile
    \/ MarkRedis
    \/ MarkFile

(* The script goes from scene to scene, and Redis is not always unreachable
   when it looks. *)
SteeringFairness ==
    /\ WF_steeringVars(ReadFile \/ MarkRedis \/ MarkFile)
    /\ SF_steeringVars(ReadRedis)

SteeringSpec ==
    SteeringInit /\ [][SteeringNext]_steeringVars /\ SteeringFairness

-----------------------------------------------------------------------------
(* A signal that was acknowledged as queued and has not steered yet, unless
   another signal, a clear or the mark of another signal was written while it
   was under way, or its Redis write failed while Redis held something older. *)
Waiting == {s \in Signals : save[s] = "queued" /\ s \notin applied /\ s \notin dropped}

(* Such a signal is never out of the script's reach (saveLiveSignal,
   check_for_signal): Redis has it, or Redis has nothing and the file has it,
   whatever expires, fails or is marked in between. *)
QueuedSignalIsReadable ==
    \A s \in Waiting : file = Pending(s) /\ redis \in {Pending(s), Empty}

(* And it steers a scene in the end. *)
QueuedSignalSteers == Waiting # {} ~> Waiting = {}
=============================================================================
