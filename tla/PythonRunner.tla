---------------------------- MODULE PythonRunner ----------------------------
(***************************************************************************)
(* PythonRunnerService.runScriptWithProgress: one run of a script, from    *)
(* spawn to the settling of its promise.  The script writes lines and      *)
(* ends; Node delivers the lines, the exit and the timeout as events in    *)
(* turn (the two pipes are one here), and "close" only when every writer   *)
(* of the pipes is gone, also the programs the script has started.  The    *)
(* first of close, error and timeout settles the promise, and the others   *)
(* find settled and return.                                                *)
(***************************************************************************)
EXTENDS Naturals, Sequences

CONSTANT MaxLines \* bound: lines the script writes

(* What the callbacks tell apart: progress, RESULT_JSON that parses, and text;
   the results of a run are told apart by their place. *)
Kinds == {"progress", "result", "text"}

VARIABLES
    process,   \* the Python process
    inherited, \* a program it started holds the pipes open
    written,   \* all lines so far; the script's last one may be unended
    unended,   \* that the last line has no line break
    read,      \* lines the data callbacks have handled
    settled,   \* the flag of the closure
    explicit,  \* place of the result captured last, 0 for none
    answer,    \* how the promise was settled, and with which result
    late       \* history: a progress event came after the answer

runnerVars == <<process, inherited, written, unended, read, settled, explicit, answer, late>>

Unanswered == [how |-> "pending", result |-> 0]

RunnerTypeOK ==
    /\ process \in {"unborn", "running", "succeeded", "failed", "killed", "notStarted"}
    /\ {inherited, unended, settled, late} \subseteq BOOLEAN
    /\ written \in Seq(Kinds) /\ Len(written) <= MaxLines
    /\ read \in 0..Len(written)
    /\ explicit \in 0..Len(written)
    /\ answer \in [how : {"pending", "resolved", "exitCode", "timedOut", "error"}, result : 0..MaxLines]

RunnerInit ==
    /\ process = "unborn"
    /\ inherited = FALSE
    /\ written = <<>> /\ unended = FALSE
    /\ read = 0
    /\ settled = FALSE
    /\ explicit = 0
    /\ answer = Unanswered
    /\ late = FALSE

-----------------------------------------------------------------------------
(* spawn, which arms the timer; the interpreter may be missing. *)
Spawn ==
    /\ process = "unborn"
    /\ process' \in {"running", "notStarted"}
    /\ UNCHANGED <<inherited, written, unended, read, settled, explicit, answer, late>>

WriteLine(kind, ended) ==
    /\ process = "running" /\ ~unended /\ Len(written) < MaxLines
    /\ written' = Append(written, kind)
    /\ unended' = ~ended
    /\ UNCHANGED <<process, inherited, read, settled, explicit, answer, late>>

StartProgram ==
    /\ process = "running"
    /\ inherited' = TRUE
    /\ UNCHANGED <<process, written, unended, read, settled, explicit, answer, late>>

ProgramEnds ==
    /\ inherited
    /\ inherited' = FALSE
    /\ UNCHANGED <<process, written, unended, read, settled, explicit, answer, late>>

ProcessEnds(result) ==
    /\ process = "running"
    /\ process' = result
    /\ UNCHANGED <<inherited, written, unended, read, settled, explicit, answer, late>>

-----------------------------------------------------------------------------
Capture(line) == IF written[line] = "result" THEN line ELSE explicit

(* processBufferedLines: it does not look at settled. *)
Data ==
    /\ read < Len(written) - (IF unended THEN 1 ELSE 0)
    /\ read' = read + 1
    /\ explicit' = Capture(read')
    /\ late' = (late \/ (answer # Unanswered /\ written[read'] = "progress"))
    /\ UNCHANGED <<process, inherited, written, unended, settled, answer>>

(* Mutation: Answering at the exit of the process instead of the close of its pipes. *)
AtEnd_atExit == process \in {"succeeded", "failed", "killed"}

AtEnd ==
    /\ process \in {"succeeded", "failed", "killed"} /\ ~inherited
    /\ read >= Len(written) - (IF unended THEN 1 ELSE 0)

(* close: the line without a break is handled first, then the exit code. *)
CloseEvent ==
    /\ AtEnd /\ ~settled
    /\ settled' = TRUE
    /\ read' = Len(written)
    /\ explicit' = IF unended THEN Capture(Len(written)) ELSE explicit
    /\ answer' = IF process = "succeeded" THEN [how |-> "resolved", result |-> explicit']
                 ELSE [how |-> "exitCode", result |-> 0]
    /\ UNCHANGED <<process, inherited, written, unended, late>>

(* error: the interpreter could not be started. *)
ErrorEvent ==
    /\ process = "notStarted" /\ ~settled
    /\ settled' = TRUE
    /\ answer' = [how |-> "error", result |-> 0]
    /\ UNCHANGED <<process, inherited, written, unended, read, explicit, late>>

(* Mutation: A timer cleared when the process exits. *)
TimeoutEvent_whileRunning ==
    /\ ~settled /\ process = "running"
    /\ settled' = TRUE
    /\ process' = "killed"
    /\ answer' = [how |-> "timedOut", result |-> 0]
    /\ UNCHANGED <<inherited, written, unended, read, explicit, late>>

(* The timer kills the process, not the programs it has started. *)
TimeoutEvent ==
    /\ process # "unborn" /\ ~settled
    /\ settled' = TRUE
    /\ process' = IF process = "running" THEN "killed" ELSE process
    /\ answer' = [how |-> "timedOut", result |-> 0]
    /\ UNCHANGED <<inherited, written, unended, read, explicit, late>>

RunnerNext ==
    \/ Spawn
    \/ \E kind \in Kinds, ended \in BOOLEAN : WriteLine(kind, ended)
    \/ StartProgram
    \/ ProgramEnds
    \/ \E result \in {"succeeded", "failed"} : ProcessEnds(result)
    \/ Data
    \/ CloseEvent
    \/ ErrorEvent
    \/ TimeoutEvent

(* Node runs what is due; nothing is assumed of the script. *)
RunnerFairness ==
    /\ WF_runnerVars(TimeoutEvent)
    /\ WF_runnerVars(CloseEvent)

RunnerSpec == RunnerInit /\ [][RunnerNext]_runnerVars /\ RunnerFairness

-----------------------------------------------------------------------------
LastResult == LET results == {i \in DOMAIN written : written[i] = "result"} IN
    IF results = {} THEN 0 ELSE CHOOSE i \in results : \A j \in results : j <= i

(* A run is reported as done only when the script ended well by itself, and
   with the last result it wrote: also one whose line was not ended, and not
   the first of several.  A run that timed out is never reported as done
   afterwards, and no progress follows an answer that was not a timeout. *)
AnswerIsFinal ==
    /\ answer.how = "resolved" => process = "succeeded" /\ answer.result = LastResult
    /\ late => answer.how = "timedOut"

(* Every run is answered, also when the script hangs, or ends while a program
   it started keeps the pipes open. *)
EveryRunAnswered == process # "unborn" ~> answer # Unanswered
=============================================================================
