--------------------------- MODULE PipelinePromise ---------------------------
(***************************************************************************)
(* What a user of the API is promised about the runs of one project,       *)
(* whatever jobs, queues and workers do underneath: a run is begun only    *)
(* when the previous one is closed, and the project is COMPLETED only when *)
(* all the work of one of its runs has been done.                          *)
(***************************************************************************)
EXTENDS Integers

CONSTANT Work        \* the stages of a run that do work: all but FINALIZE

VARIABLES
  status,  \* of the project
  run,     \* runs begun so far
  open,    \* the latest run is neither finalized nor stopped
  done     \* <<r, s>>: the work of stage s has been done in run r

pvars == <<status, run, open, done>>

AllDone(r) == \A s \in Work : <<r, s>> \in done

PInit == status = "DRAFT" /\ run = 0 /\ ~open /\ done = {}

(* A start that creates a run.                                              *)
Begin ==
  /\ ~open
  /\ run' = run + 1
  /\ open' = TRUE
  /\ status' = "PROCESSING"
  /\ UNCHANGED done

(* A start that finds the latest run at work and resumes it.                *)
Resume ==
  /\ run > 0
  /\ status' = "PROCESSING"
  /\ UNCHANGED <<run, open, done>>

DoWork ==
  /\ \E r \in 1 .. run, s \in Work : done' = done \cup {<<r, s>>}
  /\ UNCHANGED <<status, run, open>>

(* FINALIZE, or the end of what was left of a stopped run.                  *)
Close ==
  /\ open
  /\ open' = FALSE
  /\ UNCHANGED <<status, run, done>>

(* A failure, a cancel or the watchdog.                                     *)
Stop ==
  /\ status' \in {"FAILED", "CANCELLED"}
  /\ open' = FALSE
  /\ UNCHANGED <<run, done>>

(* It is the work of one whole run that completes a project, and it may be  *)
(* that of a run that has been stopped or replaced since.                   *)
Complete ==
  /\ \E r \in 1 .. run : AllDone(r)
  /\ status' = "COMPLETED"
  /\ UNCHANGED <<run, open, done>>

PNext == Begin \/ Resume \/ DoWork \/ Close \/ Stop \/ Complete

PSpec == PInit /\ [][PNext]_pvars
=============================================================================
