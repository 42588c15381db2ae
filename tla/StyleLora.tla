------------------------------ MODULE StyleLora ------------------------------
(***************************************************************************)
(* Training a LoRA of a visual style from the viewers' likes:              *)
(* ProjectFeedbackService.addFeedback counts the likes of the style and    *)
(* StyleLoraService.triggerStyleLoraTraining creates and dispatches a      *)
(* TRAIN_LORA job when a batch of new likes has come in and no training of *)
(* the style is active; TrainLoraProcessor, one job at a time, trains and  *)
(* writes the result into the configuration file shared by all styles.     *)
(***************************************************************************)
EXTENDS Naturals, Sequences, Functions

CONSTANTS
    Styles,
    Likers,       \* feedback requests under way at one time
    Batch,        \* likes per training, 50 in the code
    MaxLikes,     \* bound: likes of all styles together
    MaxTrainings  \* bound: TRAIN_LORA rows

ASSUME BatchAssumption == Batch \in Nat \ {0}
ASSUME StylesAssumption == Styles # {}

VARIABLES
    likes,     \* GenerationFeedback rows with a positive score, by style
    trainings, \* the TRAIN_LORA rows and their queue entries, in order of creation
    liker,     \* where each feedback request stands
    trainer,   \* where the worker stands
    config,    \* styleLoras of generation-config.json: the training each style uses, 0 for none
    torn,      \* the file is not a complete document
    abandoned, \* history: rows whose dispatch failed or never came
    tornOnce   \* history: a crash has torn the file

loraVars == <<likes, trainings, liker, trainer, config, torn, abandoned, tornOnce>>

Configs == [Styles -> 0..MaxTrainings]
NoLoras == [s \in Styles |-> 0]
NoLike == [at |-> "none", style |-> CHOOSE s \in Styles : TRUE, count |-> 0, row |-> 0]
Idle == [at |-> "idle", row |-> 0, count |-> 0, config |-> NoLoras]

LoraTypeOK ==
    /\ likes \in [Styles -> 0..MaxLikes]
    /\ trainings \in Seq([style : Styles, status : {"PENDING", "PROCESSING", "COMPLETED", "FAILED"},
                          likesUsed : 0..MaxLikes, queued : BOOLEAN, attempts : 0..2])
    /\ Len(trainings) <= MaxTrainings
    /\ liker \in [Likers -> [at : {"none", "count", "findActive", "findCompleted", "create", "dispatch"},
                             style : Styles, count : 0..MaxLikes, row : 0..MaxTrainings]]
    /\ trainer \in [at : {"idle", "script", "readConfig", "writeConfig", "complete", "fail"},
                    row : 0..MaxTrainings, count : 0..MaxLikes, config : Configs]
    /\ config \in Configs
    /\ {torn, tornOnce} \subseteq BOOLEAN
    /\ abandoned \subseteq 1..MaxTrainings

LoraInit ==
    /\ likes = [s \in Styles |-> 0]
    /\ trainings = <<>>
    /\ liker = [r \in Likers |-> NoLike]
    /\ trainer = Idle
    /\ config = NoLoras /\ torn = FALSE
    /\ abandoned = {} /\ tornOnce = FALSE

Rows(s, statuses) ==
    {t \in DOMAIN trainings : trainings[t].style = s /\ trainings[t].status \in statuses}

Newest(rows) == CHOOSE t \in rows : \A u \in rows : u <= t

-----------------------------------------------------------------------------
(* addFeedback: the row of the like, later the count of the likes. *)
Like(r, s) ==
    /\ liker[r].at = "none" /\ FoldFunction(+, 0, likes) < MaxLikes
    /\ likes' = [likes EXCEPT ![s] = @ + 1]
    /\ liker' = [liker EXCEPT ![r] = [NoLike EXCEPT !.at = "count", !.style = s]]
    /\ UNCHANGED <<trainings, trainer, config, torn, abandoned, tornOnce>>

CountLikes(r) ==
    LET count == likes[liker[r].style] IN
    /\ liker[r].at = "count"
    /\ liker' = [liker EXCEPT ![r] = IF count < Batch THEN NoLike
                                     ELSE [@ EXCEPT !.at = "findActive", !.count = count]]
    /\ UNCHANGED <<likes, trainings, trainer, config, torn, abandoned, tornOnce>>

FindActive(r) ==
    /\ liker[r].at = "findActive"
    /\ liker' = [liker EXCEPT ![r] = IF Rows(@.style, {"PENDING", "PROCESSING"}) # {}
                                     THEN NoLike ELSE [@ EXCEPT !.at = "findCompleted"]]
    /\ UNCHANGED <<likes, trainings, trainer, config, torn, abandoned, tornOnce>>

FindCompleted(r) ==
    LET done == Rows(liker[r].style, {"COMPLETED"})
        lastLikesUsed == IF done = {} THEN 0 ELSE trainings[Newest(done)].likesUsed IN
    /\ liker[r].at = "findCompleted"
    /\ liker' = [liker EXCEPT ![r] = IF @.count < lastLikesUsed + Batch
                                     THEN NoLike ELSE [@ EXCEPT !.at = "create"]]
    /\ UNCHANGED <<likes, trainings, trainer, config, torn, abandoned, tornOnce>>

CreateTraining(r) ==
    /\ liker[r].at = "create" /\ Len(trainings) < MaxTrainings
    /\ trainings' = Append(trainings, [style |-> liker[r].style, status |-> "PENDING",
                                       likesUsed |-> 0, queued |-> FALSE, attempts |-> 0])
    /\ liker' = [liker EXCEPT ![r].at = "dispatch", ![r].row = Len(trainings')]
    /\ UNCHANGED <<likes, trainer, config, torn, abandoned, tornOnce>>

DispatchTraining(r) ==
    /\ liker[r].at = "dispatch"
    /\ trainings' = [trainings EXCEPT ![liker[r].row].queued = TRUE]
    /\ liker' = [liker EXCEPT ![r] = NoLike]
    /\ UNCHANGED <<likes, trainer, config, torn, abandoned, tornOnce>>

(* Queue.add throws: addFeedback logs it and keeps the row. *)
DispatchTrainingFails(r) ==
    /\ liker[r].at = "dispatch"
    /\ abandoned' = abandoned \cup {liker[r].row}
    /\ liker' = [liker EXCEPT ![r] = NoLike]
    /\ UNCHANGED <<likes, trainings, trainer, config, torn, tornOnce>>

-----------------------------------------------------------------------------
Train(t) ==
    /\ trainer.at = "idle" /\ trainings[t].queued
    /\ trainings' = [trainings EXCEPT ![t].status = "PROCESSING"]
    /\ trainer' = [Idle EXCEPT !.at = "script", !.row = t]
    /\ UNCHANGED <<likes, liker, config, torn, abandoned, tornOnce>>

(* The script counts the likes itself; without enough pictures it has no LoRA. *)
TrainingSucceeds ==
    /\ trainer.at = "script"
    /\ \E place \in {"readConfig", "complete"} :
          trainer' = [trainer EXCEPT !.at = place, !.count = likes[trainings[trainer.row].style]]
    /\ UNCHANGED <<likes, trainings, liker, config, torn, abandoned, tornOnce>>

TrainingFails ==
    /\ trainer.at = "script"
    /\ trainer' = [trainer EXCEPT !.at = "fail"]
    /\ UNCHANGED <<likes, trainings, liker, config, torn, abandoned, tornOnce>>

(* Mutation: The entry of the style written without the entries of the others. *)
ReadConfig_ownEntryOnly ==
    /\ trainer.at = "readConfig"
    /\ trainer' = [trainer EXCEPT !.at = "writeConfig",
          !.config = [NoLoras EXCEPT ![trainings[trainer.row].style] = trainer.row]]
    /\ torn' = TRUE
    /\ UNCHANGED <<likes, trainings, liker, config, abandoned, tornOnce>>

(* readGenerationConfig: what cannot be parsed counts as empty. *)
ReadConfig ==
    /\ trainer.at = "readConfig"
    /\ trainer' = [trainer EXCEPT !.at = "writeConfig",
          !.config = [IF torn THEN NoLoras ELSE config
                        EXCEPT ![trainings[trainer.row].style] = trainer.row]]
    /\ torn' = TRUE
    /\ UNCHANGED <<likes, trainings, liker, config, abandoned, tornOnce>>

(* writeFile has truncated the file and now completes it. *)
WriteConfig ==
    /\ trainer.at = "writeConfig"
    /\ config' = trainer.config /\ torn' = FALSE
    /\ trainer' = [trainer EXCEPT !.at = "complete"]
    /\ UNCHANGED <<likes, trainings, liker, abandoned, tornOnce>>

CompleteTraining ==
    /\ trainer.at = "complete"
    /\ trainings' = [trainings EXCEPT ![trainer.row] =
          [@ EXCEPT !.status = "COMPLETED", !.likesUsed = trainer.count, !.queued = FALSE]]
    /\ trainer' = Idle
    /\ UNCHANGED <<likes, liker, config, torn, abandoned, tornOnce>>

(* A temporary failure with an attempt left is put off. *)
PutOff ==
    /\ trainer.at = "fail" /\ trainings[trainer.row].attempts = 0
    /\ trainings' = [trainings EXCEPT ![trainer.row].attempts = 1]
    /\ trainer' = Idle
    /\ UNCHANGED <<likes, liker, config, torn, abandoned, tornOnce>>

(* Mutation: markAsFailed left out before the error is thrown again. *)
FailTraining_rowKept ==
    LET row == trainings[trainer.row] IN
    /\ trainer.at = "fail"
    /\ trainings' = [trainings EXCEPT ![trainer.row] =
          [row EXCEPT !.queued = @ /\ row.attempts = 0, !.attempts = @ + 1]]
    /\ trainer' = Idle
    /\ UNCHANGED <<likes, liker, config, torn, abandoned, tornOnce>>

(* markAsFailed and the error thrown again: BullMQ still makes the attempts
   that are left, so the row may come back to PROCESSING. *)
FailTraining ==
    LET row == trainings[trainer.row] IN
    /\ trainer.at = "fail"
    /\ trainings' = [trainings EXCEPT ![trainer.row] =
          [row EXCEPT !.status = "FAILED", !.queued = @ /\ row.attempts = 0, !.attempts = @ + 1]]
    /\ trainer' = Idle
    /\ UNCHANGED <<likes, liker, config, torn, abandoned, tornOnce>>

(* The backend dies: entries stay queued, and nobody dispatches the rows of
   the requests that were cut off. *)
BackendDies ==
    /\ trainer # Idle \/ \E r \in Likers : liker[r].at # "none"
    /\ abandoned' = abandoned \cup {liker[r].row : r \in {q \in Likers : liker[q].at = "dispatch"}}
    /\ liker' = [r \in Likers |-> NoLike]
    /\ trainer' = Idle
    /\ tornOnce' = (tornOnce \/ torn)
    /\ UNCHANGED <<likes, trainings, config, torn>>

LoraNext ==
    \/ \E r \in Likers :
          \/ \E s \in Styles : Like(r, s)
          \/ CountLikes(r)
          \/ FindActive(r)
          \/ FindCompleted(r)
          \/ CreateTraining(r)
          \/ DispatchTraining(r)
          \/ DispatchTrainingFails(r)
    \/ \E t \in DOMAIN trainings : Train(t)
    \/ TrainingSucceeds
    \/ TrainingFails
    \/ ReadConfig
    \/ WriteConfig
    \/ CompleteTraining
    \/ PutOff
    \/ FailTraining
    \/ BackendDies

LoraSpec == LoraInit /\ [][LoraNext]_loraVars

-----------------------------------------------------------------------------
(* An active training keeps every later one of its style away, so one that
   nothing will end blocks the style for ever.  Every active row has a queue
   entry or a request that is about to queue it; the exception is a row whose
   dispatch failed or was cut off by a crash, which nothing repairs. *)
TrainingHasOwner ==
    \A t \in DOMAIN trainings :
        trainings[t].status \in {"PENDING", "PROCESSING"} =>
            \/ trainings[t].queued
            \/ \E r \in Likers : liker[r].at = "dispatch" /\ liker[r].row = t
            \/ t \in abandoned

(* The trainings of all styles rewrite one file.  A style that has its LoRA
   keeps one whatever the other styles' trainings do, unless a crash tears
   the file: then the next training reads it as empty and drops the rest. *)
LorasStayConfigured ==
    [][tornOnce \/ \A s \in Styles : config[s] # 0 => config'[s] # 0]_loraVars
=============================================================================
