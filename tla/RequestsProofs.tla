---------------------------- MODULE RequestsProofs ----------------------------
(***************************************************************************)
(* Proofs about what users ask for, what they are told of it and what they  *)
(* are held to: the source mode and the progress of a project, the votes on *)
(* its scenes, the connections of a page, the daily quotas and the sessions *)
(* of a browser.  The five share no state.                                  *)
(***************************************************************************)
EXTENDS Projects, Feedback, Events, UserQuota, AuthSession, Counting

-----------------------------------------------------------------------------
(***************************************************************************)
(* The stored mode fits the sources, for any number of calls and any bodies *)
(* they may have.  A call that is in the middle of an update has a copy as  *)
(* good as the row, unless another call has written since; the scripts only *)
(* ever write a source that another source has already outranked.           *)
(***************************************************************************)

SourceCopies == [youtube : BOOLEAN, audio : BOOLEAN, lyrics : Lyrics]

Updates == [pc : {"update"}, copy : SourceCopies, lyrics : Lyrics \cup {"unset"}, overtaken : BOOLEAN]

(* There is a sound only where there is a URL it was downloaded from.        *)
SoundHasUrl == projectRow.audio => projectRow.youtube

(* The copy of an update that has not been overtaken tells of the same URL   *)
(* as the row, and of the same lyrics where they decide.                     *)
CopyFits(c) ==
  /\ doing[c] \in Updates
  /\ doing[c].copy.audio => doing[c].copy.youtube
  /\ projectRow.there /\ ~doing[c].overtaken =>
       /\ doing[c].copy.youtube = projectRow.youtube
       /\ projectRow.youtube \/ doing[c].copy.lyrics = projectRow.lyrics

ModeInv ==
  /\ projectRow \in ProjectType
  /\ DOMAIN doing = StageWorkers \cup Calls /\ drift \in BOOLEAN
  /\ SoundHasUrl
  /\ \A c \in DOMAIN doing : doing[c].pc = "update" => CopyFits(c)
  /\ SourceModeFits

(* What every call and every worker does to its own place, apart from the    *)
(* updates, leaves the updates of the others alone.                          *)
Unconcerned == \A c \in DOMAIN doing : doing'[c].pc = "update" => doing'[c] = doing[c]

LEMMA GoesElsewhere ==
  ASSUME ModeInv, NEW t, NEW state, state.pc # "update", Goes(t, state)
  PROVE  Unconcerned /\ DOMAIN doing' = DOMAIN doing
BY DEF Goes, Unconcerned

LEMMA DispatchElsewhere ==
  ASSUME ModeInv, NEW t, NEW job, Dispatch(t, job)
  PROVE  Unconcerned /\ DOMAIN doing' = DOMAIN doing
BY GoesElsewhere DEF Dispatch, After, Over, Unused, Goes, Unconcerned

(* A step that leaves the sources and the mode alone, or changes them as the *)
(* scripts do, keeps the invariant.                                          *)
SourcesKept ==
  /\ projectRow' \in ProjectType
  /\ projectRow'.there => projectRow.there
  /\ projectRow'.youtube = projectRow.youtube
  /\ projectRow'.audio => projectRow'.youtube
  /\ projectRow.youtube \/ projectRow'.lyrics = projectRow.lyrics

LEMMA KeptByTheRest ==
  ASSUME ModeInv, Unconcerned, DOMAIN doing' = DOMAIN doing, SourcesKept,
         \/ drift' = drift /\ projectRow'.mode = projectRow.mode
         \/ drift' = FALSE /\ projectRow'.mode = Resolve(projectRow')
  PROVE  ModeInv'
<1>1. SourceModeFits'
  BY DEF ModeInv, SourceModeFits, SourcesKept, SoundHasUrl, ProjectType, Resolve, Lyrics
<1>2. \A c \in DOMAIN doing' : doing'[c].pc = "update" => CopyFits(c)'
  BY DEF ModeInv, Unconcerned, CopyFits, SourcesKept
<1> QED
  BY <1>1, <1>2 DEF ModeInv, SourcesKept, SoundHasUrl

LEMMA ModeStep == ModeInv /\ [ProjectsNext]_projectVars => ModeInv'
<1> SUFFICES ASSUME ModeInv, [ProjectsNext]_projectVars PROVE ModeInv'
  OBVIOUS
<1>0. ASSUME projectRow' = projectRow, drift' = drift, Unconcerned, DOMAIN doing' = DOMAIN doing PROVE ModeInv'
  BY <1>0, KeptByTheRest DEF ModeInv, SourcesKept, SoundHasUrl
<1>1. ASSUME NEW c \in Calls, UpdateRead(c) PROVE ModeInv'
  <2>1. PICK lyrics \in LyricsSent :
          Goes(c, [pc |-> "update", copy |-> Sources(projectRow), lyrics |-> lyrics, overtaken |-> FALSE])
    BY <1>1 DEF UpdateRead
  <2>2. doing'[c] = [pc |-> "update", copy |-> Sources(projectRow), lyrics |-> lyrics, overtaken |-> FALSE]
    BY <2>1 DEF ModeInv, Goes
  <2>3. lyrics \in Lyrics \cup {"unset"} /\ Sources(projectRow) \in SourceCopies
    BY ProjectsAssumption DEF ModeInv, ProjectType, Sources, SourceCopies
  <2>4. CopyFits(c)'
    BY <1>1, <2>2, <2>3 DEF UpdateRead, CopyFits, Updates, Sources, ModeInv, SoundHasUrl
  <2>5. \A b \in DOMAIN doing : b # c => doing'[b] = doing[b]
    BY <2>1 DEF Goes
  <2>6. DOMAIN doing' = DOMAIN doing /\ projectRow' = projectRow /\ drift' = drift
    BY <1>1, <2>1 DEF UpdateRead, Goes, ghostVars
  <2> QED
    BY <2>4, <2>5, <2>6 DEF ModeInv, CopyFits, SoundHasUrl, SourceModeFits
<1>2. ASSUME NEW c \in Calls, NEW state, state.pc # "update", Overtake(c, state),
             projectRow' \in ProjectType, drift' \in BOOLEAN, SoundHasUrl', SourceModeFits'
      PROVE  ModeInv'
  <2>1. DOMAIN doing' = DOMAIN doing
    BY <1>2 DEF Overtake
  <2>2. ASSUME NEW b \in DOMAIN doing, doing'[b].pc = "update" PROVE CopyFits(b)'
    <3>1. b # c /\ doing'[b] = IF doing[b].pc = "update" THEN [doing[b] EXCEPT !.overtaken = TRUE] ELSE doing[b]
      BY <1>2, <2>2 DEF Overtake
    <3>2. doing[b] \in Updates /\ doing'[b] = [doing[b] EXCEPT !.overtaken = TRUE]
      BY <2>2, <3>1 DEF ModeInv, CopyFits
    <3>3. doing'[b] \in Updates /\ doing'[b].overtaken /\ doing'[b].copy = doing[b].copy
      BY <3>2 DEF Updates
    <3> QED
      BY <2>2, <3>1, <3>3 DEF CopyFits, ModeInv
  <2> QED
    BY <1>2, <2>1, <2>2 DEF ModeInv
<1>3. ASSUME NEW c \in Calls, UpdateWrite(c) PROVE ModeInv'
  <2>1. c \in DOMAIN doing /\ CopyFits(c) /\ Overtake(c, Over) /\ Over.pc # "update"
    BY <1>3 DEF UpdateWrite, ModeInv, Over
  <2>2. CASE ~projectRow.there
    <3>1. projectRow' = projectRow /\ drift' = drift
      BY <1>3, <2>2 DEF UpdateWrite
    <3> QED
      BY <1>2, <2>1, <3>1 DEF ModeInv, SoundHasUrl, SourceModeFits
  <2>3. CASE projectRow.there
    <3> DEFINE lyrics == doing[c].lyrics
               copy == doing[c].copy
    <3>1. /\ projectRow' = [projectRow EXCEPT !.lyrics = IF lyrics = "unset" THEN @ ELSE lyrics,
                                              !.mode = UpdatedMode(copy, lyrics)]
          /\ drift' = (doing[c].overtaken \/ lyrics = "null")
      BY <1>3, <2>3 DEF UpdateWrite
    <3>2. copy \in SourceCopies /\ lyrics \in Lyrics \cup {"unset"} /\ doing[c].overtaken \in BOOLEAN
      BY <2>1 DEF CopyFits, Updates
    <3>3. UpdatedMode(copy, lyrics) \in {"youtube", "audio", "lyrics", "unknown"}
      BY DEF UpdatedMode, Resolve
    <3>4. projectRow' \in ProjectType /\ drift' \in BOOLEAN
      BY <3>1, <3>2, <3>3 DEF ModeInv, ProjectType, Lyrics
    <3>5. /\ projectRow'.youtube = projectRow.youtube /\ projectRow'.audio = projectRow.audio
          /\ projectRow'.there = projectRow.there
          /\ projectRow'.lyrics = (IF lyrics = "unset" THEN projectRow.lyrics ELSE lyrics)
          /\ projectRow'.mode = UpdatedMode(copy, lyrics)
      BY <3>1 DEF ModeInv, ProjectType
    <3>6. ASSUME ~drift' PROVE projectRow'.mode = Resolve(projectRow')
      <4>1. copy.youtube = projectRow.youtube /\ (projectRow.youtube \/ copy.lyrics = projectRow.lyrics) /\ lyrics # "null"
        BY <2>1, <2>3, <3>1, <3>6 DEF CopyFits
      <4>2. CASE projectRow.youtube
        BY <3>2, <3>5, <4>1, <4>2 DEF UpdatedMode, Resolve, SourceCopies
      <4>3. CASE ~projectRow.youtube
        BY <2>1, <3>2, <3>5, <4>1, <4>3 DEF CopyFits, UpdatedMode, Resolve, SourceCopies, ModeInv, SoundHasUrl
      <4> QED
        BY <4>2, <4>3
    <3> QED
      BY <1>2, <2>1, <3>4, <3>5, <3>6 DEF ModeInv, SoundHasUrl, SourceModeFits
  <2> QED
    BY <2>2, <2>3
<1>4. ASSUME NEW c \in Calls, GenerateUrl(c) PROVE ModeInv'
  <2>1. /\ projectRow' = [projectRow EXCEPT !.youtube = TRUE, !.mode = "youtube"] /\ drift' = FALSE
        /\ Overtake(c, [pc |-> "start"]) /\ [pc |-> "start"].pc # "update"
    <3>1. Resolve([projectRow EXCEPT !.youtube = TRUE]) = "youtube"
      BY DEF ModeInv, ProjectType, Resolve
    <3> QED
      BY <1>4, <3>1 DEF GenerateUrl
  <2>2. /\ projectRow' \in ProjectType
        /\ projectRow'.youtube /\ projectRow'.mode = "youtube"
    BY <2>1 DEF ModeInv, ProjectType
  <2> QED
    BY <1>2, <2>1, <2>2 DEF SoundHasUrl, SourceModeFits, Resolve
<1>5. ASSUME NEW c \in Calls, \/ StartRefused(c) \/ StatusRead(c) \/ StatusJobs(c)
                             \/ PostJob(c) \/ PatchJob(c) \/ DeleteJob(c)
      PROVE  ModeInv'
  <2>1. \E state : state.pc # "update" /\ Goes(c, state)
    BY <1>5 DEF StartRefused, StatusRead, StatusJobs, PostJob, PatchJob, DeleteJob, Over, Answer
  <2>2. projectRow' = projectRow /\ drift' = drift
    BY <1>5 DEF StartRefused, StatusRead, StatusJobs, PostJob, PatchJob, DeleteJob, ghostVars
  <2> QED
    BY <1>0, <2>1, <2>2, GoesElsewhere
<1>6. ASSUME NEW c \in Calls, Remove(c) \/ Cancel(c) PROVE ModeInv'
  <2>1. Goes(c, Over) /\ Over.pc # "update" /\ drift' = drift
    BY <1>6 DEF Remove, Cancel, Over, ghostVars
  <2>2. SourcesKept /\ projectRow'.mode = projectRow.mode
    BY <1>6 DEF Remove, Cancel, ModeInv, ProjectType, SourcesKept, SoundHasUrl
  <2> QED
    BY <2>1, <2>2, GoesElsewhere, KeptByTheRest
<1>7. ASSUME NEW c \in Calls, ResumesRun(c) \/ CreatesRun(c) PROVE ModeInv'
  <2>1. /\ projectRow' = [projectRow EXCEPT !.mode = ResolvedSource(projectRow), !.status = "PROCESSING"]
        /\ drift' = FALSE
    BY <1>7 DEF ResumesRun, CreatesRun
  <2>2. ResolvedSource(projectRow) \in {"youtube", "audio", "lyrics", "unknown"}
    BY DEF ResolvedSource, Resolve
  <2>3. SourcesKept /\ projectRow'.mode = Resolve(projectRow')
    BY <2>1, <2>2 DEF ModeInv, ProjectType, SourcesKept, SoundHasUrl, ResolvedSource, Resolve
  <2>4. Goes(c, Over) \/ \E job : Dispatch(c, job)
    BY <1>7 DEF ResumesRun, CreatesRun
  <2> QED
    BY <2>1, <2>3, <2>4, GoesElsewhere, DispatchElsewhere, KeptByTheRest DEF Over
<1>8. ASSUME NEW t \in DOMAIN doing, HandStep(t) PROVE ModeInv'
  <2>1. (\E state : state.pc # "update" /\ Goes(t, state)) \/ \E job : Dispatch(t, job)
    BY <1>8 DEF HandStep, FinalizesInline, Advance, Complete, After, Over, Unused
  <2>2. drift' = drift /\ SourcesKept /\ projectRow'.mode = projectRow.mode
    BY <1>8 DEF HandStep, FinalizesInline, Advance, Complete, ghostVars, ModeInv, ProjectType,
       SourcesKept, SoundHasUrl
  <2> QED
    BY <2>1, <2>2, GoesElsewhere, DispatchElsewhere, KeptByTheRest
<1>9. ASSUME NEW w \in StageWorkers, StageStep(w) PROVE ModeInv'
  <2>1. Unconcerned /\ DOMAIN doing' = DOMAIN doing
    <3>1. doing' = doing \/ \E state : state.pc # "update" /\ Goes(w, state)
      BY <1>9 DEF StageStep, Take, StageCompletes, StageFails, Unused
    <3> QED
      BY <3>1, GoesElsewhere DEF Unconcerned
  <2>2. drift' = drift
    BY <1>9 DEF StageStep, Take, StageCompletes, StageFails, ghostVars
  <2>3. SourcesKept /\ projectRow'.mode = projectRow.mode
    <3>1. CASE Take(w)
      BY <3>1 DEF Take, ModeInv, SourcesKept, SoundHasUrl
    <3>2. CASE StageFails(w)
      BY <3>2 DEF StageFails, ModeInv, ProjectType, SourcesKept, SoundHasUrl
    <3>3. CASE StageCompletes(w)
      BY <3>3 DEF StageCompletes, Written, CanRun, HasSource, ModeInv, ProjectType,
         SourcesKept, SoundHasUrl, Lyrics
    <3> QED
      BY <1>9, <3>1, <3>2, <3>3 DEF StageStep
  <2> QED
    BY <2>1, <2>2, <2>3, KeptByTheRest
<1>10. ASSUME UNCHANGED projectVars PROVE ModeInv'
  BY <1>0, <1>10 DEF projectVars, Unconcerned
<1> QED
  BY <1>1, <1>3, <1>4, <1>5, <1>6, <1>7, <1>8, <1>9, <1>10 DEF ProjectsNext, CallStep, JobCallStep

LEMMA ModeInit == ProjectsInit => ModeInv
<1> SUFFICES ASSUME ProjectsInit PROVE ModeInv
  OBVIOUS
<1>1. PICK dto \in CreateDtos : projectRow = Created(dto)
  BY DEF ProjectsInit
<1>2. dto \in CreateDtoType
  BY ProjectsAssumption
<1>3. projectRow \in ProjectType /\ SoundHasUrl /\ SourceModeFits
  BY <1>1, <1>2 DEF Created, CreateDtoType, ProjectType, SoundHasUrl, SourceModeFits, Resolve
<1> QED
  BY <1>3 DEF ProjectsInit, ModeInv, Unused

(* The stored mode is the one the sources of the project give, unless the   *)
(* last call that wrote it had been overtaken or erased the lyrics.         *)
THEOREM ModeAlwaysFits == ProjectsSpec => []SourceModeFits
<1>1. ModeInv => SourceModeFits
  BY DEF ModeInv
<1> QED
  BY <1>1, ModeInit, ModeStep, PTL DEF ProjectsSpec

-----------------------------------------------------------------------------
(***************************************************************************)
(* A caller told COMPLETED is told 100, for any number of calls and bodies: *)
(* a project is marked by who read its stages all completed, such a stage   *)
(* has nobody ahead who would begin it again, and the mean of any number of *)
(* completed stages is 100.  The last is an induction over the ids; the     *)
(* rest is what a job's row, its entry and its worker tell of each other.   *)
(***************************************************************************)

(* The mean of stages that have all completed is 100, however many they are. *)
LEMMA MeanOfDone ==
  ASSUME lastId \in Nat, NEW table, NEW ids \in SUBSET (1 .. lastId), ids # {},
         \A k \in ids : table[k].status = "COMPLETED"
  PROVE  Mean(table, ids) = 100
<1> DEFINE upTo(k) == Cardinality(ids \cap 1 .. k)
           next(f, k) == IF k = 0 THEN 0 ELSE IF k \in ids THEN f[k - 1] + Share(table[k]) ELSE f[k - 1]
           sum == CHOOSE f : f = [k \in 0 .. lastId |-> next(f, k)]
           hundreds == [k \in 0 .. lastId |-> 100 * upTo(k)]
<1>1. \A k \in Nat : IsFiniteSet(ids \cap 1 .. k) /\ upTo(k) \in Nat
  <2> SUFFICES ASSUME NEW k \in Nat PROVE IsFiniteSet(ids \cap 1 .. k) /\ upTo(k) \in Nat
    OBVIOUS
  <2>1. IsFiniteSet(1 .. k) /\ ids \cap 1 .. k \in SUBSET (1 .. k)
    BY FS_Interval
  <2> QED
    BY <2>1, FS_Subset, FS_CardinalityType
<1>2. upTo(0) = 0
  BY FS_EmptySet
<1>3. \A k \in 1 .. lastId : upTo(k) = IF k \in ids THEN upTo(k - 1) + 1 ELSE upTo(k - 1)
  <2> SUFFICES ASSUME NEW k \in 1 .. lastId
               PROVE  upTo(k) = IF k \in ids THEN upTo(k - 1) + 1 ELSE upTo(k - 1)
    OBVIOUS
  <2>1. ids \cap 1 .. k = IF k \in ids THEN (ids \cap 1 .. k - 1) \cup {k} ELSE ids \cap 1 .. k - 1
    OBVIOUS
  <2>2. k \notin ids \cap 1 .. k - 1 /\ IsFiniteSet(ids \cap 1 .. k - 1)
    BY <1>1
  <2> QED
    BY <2>1, <2>2, FS_AddElement
<1>4. \A k \in ids : Share(table[k]) = 100
  BY DEF Share
<1>5. hundreds = [k \in 0 .. lastId |-> next(hundreds, k)]
  <2> SUFFICES ASSUME NEW k \in 0 .. lastId PROVE hundreds[k] = next(hundreds, k)
    OBVIOUS
  <2> HIDE DEF upTo
  <2>1. CASE k = 0
    BY <1>2, <2>1
  <2>2. CASE k # 0
    <3>1. k \in 1 .. lastId /\ k - 1 \in 0 .. lastId /\ upTo(k - 1) \in Nat
      <4>1. k \in 1 .. lastId /\ k - 1 \in Nat /\ k - 1 \in 0 .. lastId
        BY <2>2
      <4> QED
        BY <1>1, <4>1
    <3> QED
      BY <1>3, <1>4, <3>1
  <2> QED
    BY <2>1, <2>2
<1>6. sum = [k \in 0 .. lastId |-> next(sum, k)]
  BY <1>5
<1>7. 0 .. lastId \subseteq {k \in 0 .. lastId : sum[k] = hundreds[k]}
  <2> HIDE DEF sum, hundreds
  <2>1. sum[0] = hundreds[0]
    BY <1>5, <1>6
  <2>2. \A k \in 0 .. lastId - 1 : sum[k] = hundreds[k] => sum[k + 1] = hundreds[k + 1]
    <3> SUFFICES ASSUME NEW k \in 0 .. lastId - 1, sum[k] = hundreds[k]
                 PROVE  sum[k + 1] = hundreds[k + 1]
      OBVIOUS
    <3>1. k + 1 \in 0 .. lastId /\ k + 1 # 0 /\ (k + 1) - 1 = k
      OBVIOUS
    <3>2. sum[k + 1] = next(sum, k + 1) /\ hundreds[k + 1] = next(hundreds, k + 1)
      BY <1>5, <1>6, <3>1
    <3> QED
      BY <3>1, <3>2
  <2> DEFINE S == {k \in 0 .. lastId : sum[k] = hundreds[k]}
  <2>3. 0 \in S /\ \A i \in 0 .. lastId - 1 : i \in S => i + 1 \in S
    BY <2>1, <2>2
  <2> HIDE DEF S
  <2>4. 0 .. lastId \subseteq S
    BY <2>3, UpTo
  <2> QED
    BY <2>4 DEF S
<1>8. sum[lastId] = 100 * Cardinality(ids)
  <2>1. ids \cap 1 .. lastId = ids
    OBVIOUS
  <2>2. sum[lastId] = hundreds[lastId]
    BY <1>7
  <2> HIDE DEF sum
  <2> QED
    BY <2>1, <2>2
<1>9. Cardinality(ids) \in Nat \ {0}
  <2>1. IsFiniteSet(ids)
    <3>1. IsFiniteSet(1 .. lastId)
      BY FS_Interval
    <3> QED
      BY <3>1, FS_Subset
  <2> QED
    BY <2>1, FS_CardinalityType, FS_EmptySet
<1>10. \A n \in Nat \ {0} : (2 * (100 * n) + n) \div (2 * n) = 100
  OBVIOUS
<1>11. Mean(table, ids) = (2 * sum[lastId] + Cardinality(ids)) \div (2 * Cardinality(ids))
  BY DEF Mean
<1> HIDE DEF sum
<1> QED
  BY <1>8, <1>9, <1>10, <1>11

(* The first of some ids is one of them, and the least.                      *)
LEMMA FirstIs ==
  ASSUME NEW n \in Nat, NEW S \in SUBSET (1 .. n), S # {}
  PROVE  First(S) \in S /\ \A i \in S : First(S) <= i
<1>1. S \in SUBSET Nat
  OBVIOUS
<1>2. \E k \in S : \A i \in S : k <= i
  BY <1>1, LeastOf
<1> QED
  BY <1>2 DEF First

(* A pipeline has stages, and only stages of the full order.                 *)
LEMMA OrderIs ==
  ASSUME NEW p
  PROVE  /\ Len(Order(p)) \in Nat \ {0}
         /\ \A i \in 1 .. Len(Order(p)) : Order(p)[i] \in CoreTypes
<1>1. Len(FullOrder) = 6 /\ FullOrder \in Seq(CoreTypes) /\ DOMAIN FullOrder = 1 .. 6
  BY DEF FullOrder, CoreTypes
<1>2. \A m \in 1 .. 3 : /\ Len(SubSeq(FullOrder, m, 6)) = 7 - m
                        /\ \A i \in 1 .. 7 - m : SubSeq(FullOrder, m, 6)[i] = FullOrder[i + m - 1]
  BY <1>1
<1>3. \A i \in 1 .. 6 : FullOrder[i] \in CoreTypes
  BY <1>1 DEF CoreTypes
<1>4. Order(p) \in {FullOrder, SubSeq(FullOrder, 2, 6), SubSeq(FullOrder, 3, 6)}
  BY Zenon DEF Order
<1>5. CASE Order(p) = FullOrder
  <2>1. Len(Order(p)) = 6
    BY <1>1, <1>5
  <2> QED
    BY <1>3, <1>5, <2>1
<1>6. CASE Order(p) = SubSeq(FullOrder, 2, 6)
  BY <1>2, <1>3, <1>6
<1>7. CASE Order(p) = SubSeq(FullOrder, 3, 6)
  BY <1>2, <1>3, <1>7
<1> QED
  BY <1>4, <1>5, <1>6, <1>7

AtWork == {t \in DOMAIN doing : doing[t].pc = "work"}

(* Somebody is going to run the script of the job.                           *)
Pledged(k) == (\E q \in queued : q.id = k) \/ (\E t \in AtWork : doing[t].id = k)

(* What the rows are, and the runs that the ghosts tell of.                  *)
RowTypes ==
  /\ lastId \in Nat /\ DOMAIN jobRows \subseteq 1 .. lastId
  /\ \A k \in DOMAIN jobRows : jobRows[k] \in JobRowType
  /\ runs \in Nat /\ doneRun \in 0 .. runs /\ edited \in BOOLEAN
  /\ \A t \in DOMAIN doing : doing[t].pc = "complete" => doing[t].run \in 0 .. runs

(* A job has one entry or one worker, and never had one before that; the row *)
(* of FINALIZE never has an entry.                                           *)
Duties ==
  /\ handed \subseteq 1 .. lastId /\ \A q \in queued : q.id \in handed
  /\ \A p, q \in queued : p.id = q.id => p = q
  /\ \A t \in AtWork : doing[t].id \in handed /\ \A q \in queued : q.id # doing[t].id
  /\ \A t, u \in AtWork : doing[t].id = doing[u].id => t = u
  /\ \A t \in DOMAIN doing : doing[t].pc = "finalize" =>
        /\ doing[t].id \in (1 .. lastId) \ handed
        /\ doing[t].id \in DOMAIN jobRows => jobRows[doing[t].id].type = "FINALIZE"
  /\ \A k \in handed \cap DOMAIN jobRows : jobRows[k].type # "FINALIZE"

(* Nobody is going to begin a stage that has completed, so none that has     *)
(* completed can fail: unless its stages are edited by hand.                 *)
UnfinishedAhead ==
  ~edited => \A k \in Core(jobRows) : Pledged(k) => jobRows[k].status # "COMPLETED"

(* What COMPLETED tells of the run whose rows were read for it.              *)
AllDone == Core(jobRows) # {} /\ \A k \in Core(jobRows) : jobRows[k].status = "COMPLETED"
DoneBy(past) == past = runs /\ ~edited /\ projectRow.there => AllDone

ToldDone ==
  /\ projectRow.status = "COMPLETED" => DoneBy(doneRun)
  /\ \A t \in DOMAIN doing : /\ doing[t].pc = "status" => DoneBy(doneRun)
                             /\ doing[t].pc = "complete" => DoneBy(doing[t].run)

(* The inductive invariant.                                                  *)
DoneInv == ModeInv /\ RowTypes /\ Duties /\ UnfinishedAhead /\ ToldDone /\ DoneShowsAll

(* Rows keep their types, and new ones have new ids.                         *)
TypesStay ==
  /\ lastId' >= lastId
  /\ \A k \in DOMAIN jobRows' : k <= lastId => k \in DOMAIN jobRows /\ jobRows'[k].type = jobRows[k].type

(* Nobody begins to work or to complete FINALIZE.                            *)
NothingBegun == \A u \in DOMAIN doing : doing'[u].pc \in {"work", "finalize"} => doing'[u] = doing[u]

LEMMA RowsStep ==
  ASSUME ModeInv, RowTypes, [ProjectsNext]_projectVars
  PROVE  /\ lastId' \in Nat /\ DOMAIN jobRows' \subseteq 1 .. lastId'
         /\ \A k \in DOMAIN jobRows' : jobRows'[k] \in JobRowType
         /\ TypesStay
<1> DEFINE Fine == /\ lastId' \in Nat /\ DOMAIN jobRows' \subseteq 1 .. lastId'
                   /\ \A k \in DOMAIN jobRows' : jobRows'[k] \in JobRowType
                   /\ TypesStay
<1> USE DEF RowTypes
<1>0. ASSUME lastId' = lastId, DOMAIN jobRows' \subseteq DOMAIN jobRows,
             \A k \in DOMAIN jobRows' : jobRows'[k] \in JobRowType /\ jobRows'[k].type = jobRows[k].type
      PROVE  Fine
  BY <1>0 DEF TypesStay
<1>1. ASSUME UNCHANGED <<jobRows, lastId>> PROVE Fine
  BY <1>0, <1>1
<1>2. ASSUME lastId' = lastId,
             \E k \in DOMAIN jobRows, status \in JobStatuses, progress \in Int :
                jobRows' = [jobRows EXCEPT ![k].status = status, ![k].progress = progress]
      PROVE  Fine
  <2>1. PICK k \in DOMAIN jobRows, status \in JobStatuses, progress \in Int :
                jobRows' = [jobRows EXCEPT ![k].status = status, ![k].progress = progress]
    BY <1>2
  <2>2. /\ [[jobRows[k] EXCEPT !.status = status] EXCEPT !.progress = progress] \in JobRowType
        /\ [[jobRows[k] EXCEPT !.status = status] EXCEPT !.progress = progress].type = jobRows[k].type
    BY DEF JobRowType
  <2> QED
    BY <1>0, <1>2, <2>1, <2>2
<1>3. ASSUME lastId' = lastId, DOMAIN jobRows' = DOMAIN jobRows,
             \A k \in DOMAIN jobRows : \/ jobRows'[k] = jobRows[k]
                                       \/ jobRows'[k] = [jobRows[k] EXCEPT !.status = "CANCELLED"]
                                       \/ jobRows'[k] = [jobRows[k] EXCEPT !.status = "FAILED"]
                                       \/ jobRows'[k] = [jobRows[k] EXCEPT !.status = "PROCESSING"]
      PROVE  Fine
  <2>1. \A r \in JobRowType, status \in JobStatuses : /\ [r EXCEPT !.status = status] \in JobRowType
                                                      /\ [r EXCEPT !.status = status].type = r.type
    BY DEF JobRowType
  <2>2. {"CANCELLED", "FAILED", "PROCESSING"} \subseteq JobStatuses
    BY DEF JobStatuses
  <2>3. ASSUME NEW k \in DOMAIN jobRows PROVE jobRows'[k] \in JobRowType /\ jobRows'[k].type = jobRows[k].type
    <3>1. jobRows[k] \in JobRowType
      OBVIOUS
    <3>2. ASSUME NEW status \in {"CANCELLED", "FAILED", "PROCESSING"},
                 jobRows'[k] = [jobRows[k] EXCEPT !.status = status]
          PROVE  jobRows'[k] \in JobRowType /\ jobRows'[k].type = jobRows[k].type
      BY ONLY <2>1, <2>2, <3>1, <3>2
    <3>3. \/ jobRows'[k] = jobRows[k]
          \/ \E status \in {"CANCELLED", "FAILED", "PROCESSING"} :
                jobRows'[k] = [jobRows[k] EXCEPT !.status = status]
      BY ONLY <1>3, <2>3
    <3> QED
      BY ONLY <3>1, <3>2, <3>3
  <2> QED
    BY <1>0, <1>3, <2>3
<1>4. ASSUME NEW c, ResumesRun(c) PROVE Fine
  BY <1>3, <1>4 DEF ResumesRun, Deduped
<1>5. ASSUME NEW c, CreatesRun(c) PROVE Fine
  <2>1. \A k \in DOMAIN Fresh : Fresh[k] \in JobRowType
    BY OrderIs DEF Fresh, NewRow, JobRowType, JobStatuses
  <2>2. DOMAIN Fresh = lastId + 1 .. lastId + Len(Order(projectRow))
    BY DEF Fresh
  <2>3. /\ jobRows' = [k \in (DOMAIN jobRows \ Core(jobRows)) \cup DOMAIN Fresh |->
                         IF k \in DOMAIN Fresh THEN Fresh[k] ELSE jobRows[k]]
        /\ lastId' = lastId + Len(Order(projectRow))
    BY <1>5 DEF CreatesRun
  <2> HIDE DEF Fine
  <2>4. Len(Order(projectRow)) \in Nat
    BY OrderIs
  <2> QED
    BY <2>1, <2>2, <2>3, <2>4 DEF TypesStay, Fine
<1>6. ASSUME NEW c, PostJob(c) PROVE Fine
  <2>1. PICK type \in PostedTypes :
          jobRows' = [k \in DOMAIN jobRows \cup {lastId + 1} |->
                         IF k = lastId + 1 THEN NewRow(type) ELSE jobRows[k]]
    BY <1>6 DEF PostJob
  <2>2. NewRow(type) \in JobRowType
    BY ProjectsAssumption DEF NewRow, JobRowType, JobStatuses
  <2> QED
    BY <1>6, <2>1, <2>2 DEF PostJob, TypesStay
<1>7. ASSUME NEW c, PatchJob(c) PROVE Fine
  BY <1>2, <1>7, ProjectsAssumption DEF PatchJob, EditType
<1>8. ASSUME NEW c, DeleteJob(c) \/ Remove(c) PROVE Fine
  BY <1>0, <1>8 DEF DeleteJob, Remove, NoRows
<1>9. ASSUME NEW c, Cancel(c) PROVE Fine
  BY <1>3, <1>9 DEF Cancel
<1>10. ASSUME NEW t, FinalizesInline(t) PROVE Fine
  <2>1. \/ jobRows' = jobRows
        \/ /\ doing[t].id \in DOMAIN jobRows
           /\ jobRows' = [jobRows EXCEPT ![doing[t].id].status = "COMPLETED", ![doing[t].id].progress = 100]
    BY <1>10 DEF FinalizesInline
  <2>2. lastId' = lastId /\ "COMPLETED" \in JobStatuses /\ 100 \in Int
    BY <1>10 DEF FinalizesInline, JobStatuses
  <2> HIDE DEF Fine
  <2> QED
    BY <1>1, <1>2, <2>1, <2>2
<1>11. ASSUME NEW w, Take(w) PROVE Fine
  BY <1>1, <1>3, <1>11 DEF Take
<1>12. ASSUME NEW w, StageCompletes(w) PROVE Fine
  <2>1. \/ jobRows' = jobRows
        \/ /\ doing[w].id \in DOMAIN jobRows
           /\ jobRows' = [jobRows EXCEPT ![doing[w].id].status = "COMPLETED", ![doing[w].id].progress = 100]
    BY <1>12 DEF StageCompletes
  <2>2. lastId' = lastId /\ "COMPLETED" \in JobStatuses /\ 100 \in Int
    BY <1>12 DEF StageCompletes, JobStatuses
  <2> HIDE DEF Fine
  <2> QED
    BY <1>1, <1>2, <2>1, <2>2
<1>13. ASSUME NEW w, StageFails(w) PROVE Fine
  BY <1>1, <1>3, <1>13 DEF StageFails
<1>14. ASSUME NEW c, \/ UpdateRead(c) \/ UpdateWrite(c) \/ GenerateUrl(c) \/ StartRefused(c)
                     \/ StatusRead(c) \/ StatusJobs(c) \/ Advance(c) \/ Complete(c)
       PROVE  Fine
  BY <1>1, <1>14 DEF UpdateRead, UpdateWrite, GenerateUrl, StartRefused, StatusRead, StatusJobs, Advance, Complete
<1>15. ASSUME UNCHANGED projectVars PROVE Fine
  BY <1>1, <1>15 DEF projectVars
<1> QED
  BY <1>4, <1>5, <1>6, <1>7, <1>8, <1>9, <1>10, <1>11, <1>12, <1>13, <1>14, <1>15
  DEF ProjectsNext, CallStep, JobCallStep, HandStep, StageStep

(* What a step does to the state of its own call or worker leaves that of    *)
(* all others as it was.                                                     *)
Quiet == \A u \in DOMAIN doing : doing'[u].pc \in {"status", "complete", "told"} => doing'[u] = doing[u]

LEMMA GoesQuietly ==
  ASSUME ModeInv, NEW t, NEW state, Goes(t, state) \/ Overtake(t, state)
  PROVE  /\ state.pc \notin {"work", "finalize"} => NothingBegun
         /\ state.pc \notin {"status", "complete", "told"} => Quiet
<1>1. CASE Goes(t, state)
  BY <1>1 DEF Goes, NothingBegun, Quiet
<1>2. CASE Overtake(t, state)
  <2> SUFFICES ASSUME NEW u \in DOMAIN doing, u # t, doing[u].pc = "update"
               PROVE  doing'[u].pc = "update"
    BY <1>2 DEF Overtake, NothingBegun, Quiet
  <2>1. doing[u] \in Updates /\ doing'[u] = [doing[u] EXCEPT !.overtaken = TRUE]
    BY <1>2 DEF Overtake, ModeInv, CopyFits
  <2> QED
    BY <2>1 DEF Updates
<1> QED
  BY <1>1, <1>2

(* A job of the table is handed to its queue, or FINALIZE to the one who     *)
(* dispatches it.                                                            *)
Hands(t, k) == k \in DOMAIN jobRows' /\ Dispatch(t, [id |-> k, type |-> jobRows'[k].type])

LEMMA DispatchQuietly ==
  ASSUME ModeInv, NEW t, NEW k, Hands(t, k)
  PROVE  Quiet
BY GoesQuietly DEF Hands, Dispatch, After, Over, Unused

LEMMA LeastStays ==
  ASSUME RowTypes, NEW j \in Core(jobRows), Active(jobRows[j]), Having(Deduped, "PROCESSING") = {}
  PROVE  Having(Deduped, "PENDING") # {}
<1> DEFINE A == {k \in Core(jobRows) : Active(jobRows[k])}
<1>1. A \in SUBSET (1 .. lastId) /\ A # {} /\ lastId \in Nat
  BY DEF RowTypes, Core
<1> HIDE DEF A
<1>2. First(A) \in A /\ \A k \in A : First(A) <= k
  BY <1>1, FirstIs
<1> DEFINE f == First(A)
<1>3. f \in Core(jobRows) /\ Active(jobRows[f]) /\ f \in DOMAIN jobRows /\ f \in Nat
  BY <1>1, <1>2 DEF A, Core
<1>4. Deduped[f] = jobRows[f]
  <2> SUFFICES ASSUME NEW i \in DOMAIN jobRows, i < f, Active(jobRows[i]), jobRows[i].type = jobRows[f].type
               PROVE  FALSE
    BY <1>3 DEF Deduped
  <2>1. i \in A
    BY <1>3 DEF A, Core, IsCore
  <2> QED
    BY <1>2, <1>3, <2>1 DEF RowTypes
<1>5. f \in Core(Deduped) /\ DOMAIN Deduped = DOMAIN jobRows
  BY <1>3, <1>4 DEF Core, Deduped
<1> QED
  BY <1>3, <1>4, <1>5 DEF Having, Active

LEMMA PendingFirst ==
  ASSUME NEW table, NEW n \in Nat, DOMAIN table \subseteq 1 .. n, Having(table, "PENDING") # {}
  PROVE  /\ First(Having(table, "PENDING")) \in Core(table)
         /\ table[First(Having(table, "PENDING"))].status = "PENDING"
<1>1. Having(table, "PENDING") \in SUBSET (1 .. n)
  BY DEF Having, Core
<1>2. First(Having(table, "PENDING")) \in Having(table, "PENDING")
  BY <1>1, FirstIs
<1> QED
  BY <1>2 DEF Having

(* Whatever is handed over is a stage that waits for its turn.               *)
HandsPending == \E t \in DOMAIN doing, k \in Core(jobRows') : Hands(t, k) /\ jobRows'[k].status = "PENDING"

LEMMA ResumesPending ==
  ASSUME ModeInv, RowTypes, NEW c \in Calls, ResumesRun(c)
  PROVE  HandsPending \/ (Goes(c, Over) /\ UNCHANGED handVars)
<1> SUFFICES ASSUME Having(Deduped, "PROCESSING") = {} PROVE HandsPending
  BY DEF ResumesRun
<1> DEFINE k == First(Having(Deduped, "PENDING"))
<1>1. PICK j \in Core(jobRows) : Active(jobRows[j])
  BY DEF ResumesRun
<1>2. Having(Deduped, "PENDING") # {}
  BY <1>1, LeastStays
<1>3. DOMAIN Deduped \subseteq 1 .. lastId /\ lastId \in Nat
  BY DEF Deduped, RowTypes
<1>4. k \in Core(Deduped) /\ Deduped[k].status = "PENDING"
  BY <1>2, <1>3, PendingFirst
<1>5. jobRows' = Deduped /\ Dispatch(c, Job(Deduped, k)) /\ c \in DOMAIN doing
  BY DEF ResumesRun, ModeInv
<1> HIDE DEF k
<1> QED
  BY <1>4, <1>5 DEF HandsPending, Hands, Job, Core

LEMMA FreshPending ==
  ASSUME ModeInv, RowTypes, NEW c \in Calls, CreatesRun(c)
  PROVE  /\ HandsPending
         /\ \A k \in Core(jobRows') : jobRows'[k].status = "PENDING"
<1>1. Len(Order(projectRow)) \in Nat \ {0} /\ \A i \in 1 .. Len(Order(projectRow)) : Order(projectRow)[i] \in CoreTypes
  BY OrderIs
<1>2. /\ jobRows' = [k \in (DOMAIN jobRows \ Core(jobRows)) \cup DOMAIN Fresh |->
                        IF k \in DOMAIN Fresh THEN Fresh[k] ELSE jobRows[k]]
      /\ Dispatch(c, Job(Fresh, lastId + 1)) /\ c \in DOMAIN doing
  BY DEF CreatesRun, ModeInv
<1>3. DOMAIN Fresh = lastId + 1 .. lastId + Len(Order(projectRow)) /\ lastId \in Nat
  BY DEF Fresh, RowTypes
<1>4. \A k \in DOMAIN Fresh : Fresh[k].status = "PENDING" /\ Fresh[k].type \in CoreTypes
  BY <1>1, <1>3 DEF Fresh, NewRow
<1>5. lastId + 1 \in DOMAIN Fresh
  BY <1>1, <1>3
<1>6. \A k \in Core(jobRows') : k \in DOMAIN Fresh
  BY <1>2 DEF Core
<1>7. \A k \in DOMAIN Fresh : k \in Core(jobRows') /\ jobRows'[k] = Fresh[k]
  BY <1>2, <1>4 DEF Core, IsCore
<1>8. Hands(c, lastId + 1) /\ lastId + 1 \in Core(jobRows') /\ jobRows'[lastId + 1].status = "PENDING"
  BY <1>2, <1>4, <1>5, <1>7 DEF Hands, Job, Core
<1> QED
  BY <1>2, <1>4, <1>6, <1>7, <1>8 DEF HandsPending

LEMMA AdvancePending ==
  ASSUME ModeInv, RowTypes, NEW t \in DOMAIN doing, Advance(t)
  PROVE  \/ HandsPending
         \/ Goes(t, After(t)) /\ UNCHANGED handVars
         \/ Goes(t, [pc |-> "complete", run |-> runs]) /\ UNCHANGED handVars /\ AllDone
<1> DEFINE k == First(Having(jobRows, "PENDING"))
<1>1. CASE Having(jobRows, "PENDING") # {}
  <2>1. k \in Core(jobRows) /\ jobRows[k].status = "PENDING"
    BY <1>1, PendingFirst DEF RowTypes
  <2>2. jobRows' = jobRows /\ Dispatch(t, Job(jobRows, k))
    BY <1>1 DEF Advance
  <2> HIDE DEF k
  <2> QED
    BY <2>1, <2>2 DEF HandsPending, Hands, Job, Core
<1>2. CASE Having(jobRows, "PENDING") = {}
  <2>1. CASE Core(jobRows) # {} /\ Having(jobRows, "COMPLETED") = Core(jobRows)
    <3>1. AllDone
      BY <2>1 DEF AllDone, Having
    <3> QED
      BY <1>2, <2>1, <3>1 DEF Advance
  <2> QED
    BY <1>2, <2>1 DEF Advance
<1> QED
  BY <1>1, <1>2

(* Every step hands a stage over, or takes an entry from a queue, or leaves  *)
(* what is queued, worked on and finalized to those who have it.             *)
Settled == NothingBegun /\ UNCHANGED handVars

LEMMA SettledIf ==
  ASSUME ModeInv, NEW t, NEW state, Goes(t, state) \/ Overtake(t, state),
         state.pc \notin {"work", "finalize"}, UNCHANGED handVars
  PROVE  Settled
BY GoesQuietly DEF Settled

LEMMA CallSettles ==
  ASSUME ModeInv, RowTypes, NEW c \in Calls, CallStep(c)
  PROVE  Settled \/ HandsPending
<1>1. CASE ResumesRun(c)
  BY <1>1, SettledIf, ResumesPending DEF Over
<1>2. CASE CreatesRun(c)
  BY <1>2, FreshPending
<1>3. CASE UpdateRead(c)
  BY <1>3, SettledIf DEF UpdateRead
<1>4. CASE StatusJobs(c)
  BY <1>4, SettledIf DEF StatusJobs, Answer
<1> QED
  BY SettledIf, <1>1, <1>2, <1>3, <1>4
  DEF CallStep, UpdateWrite, Remove, GenerateUrl, StartRefused, Cancel, StatusRead, Over

LEMMA JobCallSettles ==
  ASSUME ModeInv, NEW c \in Calls, JobCallStep(c)
  PROVE  Settled
BY SettledIf DEF JobCallStep, PostJob, PatchJob, DeleteJob, Over

LEMMA HandSettles ==
  ASSUME ModeInv, RowTypes, NEW t \in DOMAIN doing, HandStep(t)
  PROVE  Settled \/ HandsPending
<1>1. CASE Advance(t)
  BY <1>1, SettledIf, AdvancePending DEF After, Over, Unused
<1>2. CASE FinalizesInline(t)
  BY <1>2, SettledIf DEF FinalizesInline, After, Over, Unused
<1>3. CASE Complete(t)
  BY <1>3, SettledIf DEF Complete, After, Over, Unused
<1> QED
  BY <1>1, <1>2, <1>3 DEF HandStep

LEMMA StageSettles ==
  ASSUME ModeInv, NEW w \in StageWorkers, StageCompletes(w) \/ StageFails(w)
  PROVE  Settled
BY SettledIf DEF StageCompletes, StageFails, Unused

LEMMA StepIs ==
  ASSUME ModeInv, RowTypes, [ProjectsNext]_projectVars
  PROVE  Settled \/ HandsPending \/ \E w \in StageWorkers : Take(w)
<1>1. ASSUME UNCHANGED projectVars PROVE Settled
  BY <1>1 DEF projectVars, handVars, Settled, NothingBegun
<1> QED
  BY <1>1, CallSettles, JobCallSettles, HandSettles, StageSettles DEF ProjectsNext, StageStep

LEMMA DutiesStep ==
  ASSUME ModeInv, ModeInv', RowTypes, Duties, [ProjectsNext]_projectVars
  PROVE  Duties'
<1>0. /\ DOMAIN doing' = DOMAIN doing /\ TypesStay
      /\ lastId \in Nat /\ lastId' \in Nat /\ lastId' >= lastId /\ DOMAIN jobRows' \subseteq 1 .. lastId'
  BY RowsStep DEF ModeInv, RowTypes, TypesStay
<1>1. \A k \in handed : k \in 1 .. lastId /\ k \in 1 .. lastId'
  BY <1>0 DEF Duties
<1>2. ASSUME NEW t \in DOMAIN doing, doing[t].pc = "finalize"
      PROVE  /\ doing[t].id \in (1 .. lastId') \ handed
             /\ doing[t].id \in DOMAIN jobRows' => jobRows'[doing[t].id].type = "FINALIZE"
  BY <1>0, <1>2 DEF Duties, TypesStay
<1>3. \A k \in handed \cap DOMAIN jobRows' : jobRows'[k].type # "FINALIZE"
  BY <1>0, <1>1 DEF Duties, TypesStay
<1>4. CASE Settled
  <2>1. handed' = handed /\ queued' = queued
    BY <1>4 DEF Settled, handVars
  <2>2. \A t \in AtWork' : t \in AtWork /\ doing'[t] = doing[t]
    BY <1>0, <1>4 DEF Settled, NothingBegun, AtWork
  <2>3. \A t \in DOMAIN doing' : doing'[t].pc = "finalize" => doing'[t] = doing[t]
    BY <1>0, <1>4 DEF Settled, NothingBegun
  <2> QED
    BY <1>0, <1>1, <1>2, <1>3, <2>1, <2>2, <2>3 DEF Duties
<1>5. CASE HandsPending
  <2>1. PICK t \in DOMAIN doing, k \in DOMAIN jobRows' : Dispatch(t, [id |-> k, type |-> jobRows'[k].type])
    BY <1>5 DEF HandsPending, Hands, Core
  <2> DEFINE job == [id |-> k, type |-> jobRows'[k].type]
  <2>2. k \in 1 .. lastId' /\ job.id = k /\ job.type = jobRows'[k].type
    BY <1>0
  <2>3. CASE job.type = "FINALIZE"
    <3>1. handed' = handed /\ queued' = queued /\ Goes(t, [pc |-> "finalize", id |-> k])
      BY <2>1, <2>3 DEF Dispatch, handVars
    <3>2. \A u \in DOMAIN doing' : IF u = t THEN doing'[u] = [pc |-> "finalize", id |-> k] ELSE doing'[u] = doing[u]
      BY <1>0, <3>1 DEF Goes
    <3>3. k \notin handed
      BY <1>3, <2>3
    <3>4. \A u \in AtWork' : u \in AtWork /\ doing'[u] = doing[u]
      BY <1>0, <3>2 DEF AtWork
    <3> QED
      BY <1>0, <1>1, <1>2, <1>3, <2>2, <2>3, <3>1, <3>2, <3>3, <3>4 DEF Duties
  <2>4. CASE job.type # "FINALIZE"
    <3>1. /\ handed' = handed \cup {k} /\ Goes(t, After(t))
          /\ queued' = IF k \in handed THEN queued ELSE queued \cup {job}
      BY <2>1, <2>4 DEF Dispatch
    <3>2. \A u \in DOMAIN doing' : doing'[u].pc \in {"work", "finalize"} => doing'[u] = doing[u]
      BY <1>0, <3>1 DEF Goes, After, Over, Unused
    <3>3. \A u \in AtWork' : u \in AtWork /\ doing'[u] = doing[u]
      BY <1>0, <3>2 DEF AtWork
    <3>4. \A u \in DOMAIN doing : doing[u].pc = "finalize" => doing[u].id # k
      BY <1>2, <2>4
    <3>5. \A q \in queued' : q \in queued \/ (q = job /\ k \notin handed)
      BY <3>1
    <3> HIDE DEF job
    <3>6. handed' \subseteq 1 .. lastId' /\ \A q \in queued' : q.id \in handed'
      BY <1>1, <2>2, <3>1, <3>5 DEF Duties
    <3>7. \A p, q \in queued' : p.id = q.id => p = q
      BY <2>2, <3>5 DEF Duties
    <3>8. \A u \in AtWork' : doing'[u].id \in handed' /\ \A q \in queued' : q.id # doing'[u].id
      BY <2>2, <3>1, <3>3, <3>5 DEF Duties
    <3>9. \A u, v \in AtWork' : doing'[u].id = doing'[v].id => u = v
      BY <3>3 DEF Duties
    <3>10. \A u \in DOMAIN doing' : doing'[u].pc = "finalize" =>
              /\ doing'[u].id \in (1 .. lastId') \ handed'
              /\ doing'[u].id \in DOMAIN jobRows' => jobRows'[doing'[u].id].type = "FINALIZE"
      BY <1>0, <1>2, <3>1, <3>2, <3>4
    <3>11. \A i \in handed' \cap DOMAIN jobRows' : jobRows'[i].type # "FINALIZE"
      BY <1>3, <2>2, <2>4, <3>1
    <3> QED
      BY <3>6, <3>7, <3>8, <3>9, <3>10, <3>11 DEF Duties
  <2> QED
    BY <2>3, <2>4
<1>6. ASSUME NEW w \in StageWorkers, Take(w) PROVE Duties'
  <2>1. PICK job \in queued : /\ queued' = queued \ {job}
                              /\ IF job.id \notin DOMAIN jobRows THEN UNCHANGED <<jobRows, doing>>
                                 ELSE Goes(w, [pc |-> "work", id |-> job.id])
    BY <1>6 DEF Take
  <2>2. handed' = handed /\ w \in DOMAIN doing /\ doing[w].pc = "idle"
    BY <1>6 DEF Take, Unused, ModeInv
  <2>3. CASE doing' = doing
    BY <1>0, <1>1, <1>2, <1>3, <2>1, <2>2, <2>3 DEF Duties, AtWork
  <2>4. CASE Goes(w, [pc |-> "work", id |-> job.id])
    <3>1. \A u \in DOMAIN doing' : doing'[u] = IF u = w THEN [pc |-> "work", id |-> job.id] ELSE doing[u]
      BY <1>0, <2>4 DEF Goes
    <3>2. \A u \in AtWork' : u = w \/ (u \in AtWork /\ doing'[u] = doing[u])
      BY <1>0, <3>1 DEF AtWork
    <3>3. \A u \in DOMAIN doing' : doing'[u].pc = "finalize" => doing'[u] = doing[u]
      BY <1>0, <3>1
    <3>4. doing'[w].id = job.id
      BY <1>0, <2>2, <3>1
    <3> QED
      BY <1>0, <1>1, <1>2, <1>3, <2>1, <2>2, <3>2, <3>3, <3>4 DEF Duties
  <2> QED
    BY <2>1, <2>3, <2>4
<1> QED
  BY <1>4, <1>5, <1>6, StepIs

(* What the step leaves of a table whose stages have all completed.          *)
Kept == ~edited' /\ projectRow'.there /\ runs' = runs => ~edited /\ projectRow.there /\ (AllDone => AllDone')

LEMMA PledgedBefore ==
  ASSUME ModeInv, ModeInv', NothingBegun, UNCHANGED handVars, NEW k, Pledged(k)'
  PROVE  Pledged(k)
<1>1. DOMAIN doing' = DOMAIN doing
  BY DEF ModeInv
<1> QED
  BY <1>1 DEF NothingBegun, handVars, Pledged, AtWork

LEMMA HandedOver ==
  ASSUME ModeInv, ModeInv', HandsPending, NEW k, Pledged(k)'
  PROVE  Pledged(k) \/ jobRows'[k].status = "PENDING"
<1>1. DOMAIN doing' = DOMAIN doing
  BY DEF ModeInv
<1>2. PICK t \in DOMAIN doing, j \in Core(jobRows') :
         Dispatch(t, [id |-> j, type |-> jobRows'[j].type]) /\ jobRows'[j].status = "PENDING"
  BY DEF HandsPending, Hands
<1>3. \A q \in queued' : q \in queued \/ q.id = j
  BY <1>2 DEF Dispatch, handVars
<1>4. \A u \in AtWork' : u \in AtWork /\ doing'[u] = doing[u]
  BY <1>1, <1>2 DEF Dispatch, AtWork, Goes, After, Over, Unused
<1> QED
  BY <1>2, <1>3, <1>4 DEF Pledged

LEMMA StatusStep ==
  ASSUME ModeInv, ModeInv', RowTypes, Duties, UnfinishedAhead, [ProjectsNext]_projectVars
  PROVE  UnfinishedAhead' /\ Kept
<1> DEFINE Goal == UnfinishedAhead' /\ Kept
<1>0. projectRow'.there => projectRow.there
  BY DEF ModeInv, ProjectType, projectVars, ProjectsNext, CallStep, JobCallStep, HandStep, StageStep,
     UpdateRead, UpdateWrite, Remove, GenerateUrl, StartRefused, ResumesRun, CreatesRun, Cancel,
     StatusRead, StatusJobs, PostJob, PatchJob, DeleteJob, FinalizesInline, Advance, Complete,
     Take, StageCompletes, Written, StageFails
(* No stage is finished by the step, and none that was is touched.           *)
<1>1. ASSUME edited => edited',
             ~edited' => Core(jobRows') = Core(jobRows),
             ~edited' => \A k \in Core(jobRows) :
                            jobRows'[k].status = "COMPLETED" <=> jobRows[k].status = "COMPLETED",
             \A k \in Core(jobRows') : Pledged(k)' => Pledged(k) \/ jobRows'[k].status = "PENDING"
      PROVE  Goal
  BY <1>0, <1>1 DEF UnfinishedAhead, Kept, AllDone
<1>2. ASSUME Settled, edited' = edited, runs' = runs, DOMAIN jobRows' = DOMAIN jobRows,
             \A k \in DOMAIN jobRows :
                \/ jobRows'[k] = jobRows[k]
                \/ Active(jobRows[k]) /\ jobRows'[k] = [jobRows[k] EXCEPT !.status = "CANCELLED"]
      PROVE  Goal
  <2>1. \A k \in DOMAIN jobRows : /\ jobRows'[k].type = jobRows[k].type
                                  /\ jobRows'[k].status = "COMPLETED" <=> jobRows[k].status = "COMPLETED"
    BY <1>2 DEF RowTypes, JobRowType, Active
  <2>2. Core(jobRows') = Core(jobRows)
    BY <1>2, <2>1 DEF Core, IsCore
  <2>3. \A k \in Core(jobRows) : k \in DOMAIN jobRows
    BY DEF Core
  <2>4. \A k : Pledged(k)' => Pledged(k)
    BY <1>2, PledgedBefore DEF Settled
  <2> HIDE DEF Goal
  <2> QED
    BY <1>1, <1>2, <2>1, <2>2, <2>3, <2>4
<1>3. ASSUME UNCHANGED <<jobRows, edited>>, Settled \/ HandsPending PROVE Goal
  <2>1. \A k \in Core(jobRows') : Pledged(k)' => Pledged(k) \/ jobRows'[k].status = "PENDING"
    <3>1. CASE Settled
      BY <3>1, PledgedBefore DEF Settled
    <3>2. CASE HandsPending
      BY <3>2, HandedOver
    <3> QED
      BY <1>3, <3>1, <3>2
  <2> HIDE DEF Goal
  <2> QED
    BY <1>1, <1>3, <2>1
<1>4. ASSUME NEW c \in Calls, CallStep(c) PROVE Goal
  <2>1. CASE ResumesRun(c)
    <3>1. PICK j \in Core(jobRows) : Active(jobRows[j])
      BY <2>1 DEF ResumesRun
    <3>2. jobRows' = Deduped /\ edited' = edited
      BY <2>1 DEF ResumesRun
    <3>3. ~AllDone
      BY <3>1 DEF AllDone, Active
    <3>4. Kept
      BY <1>0, <3>2, <3>3 DEF Kept
    <3>5. \A k \in Core(jobRows') : Pledged(k)' => Pledged(k) \/ jobRows'[k].status = "PENDING"
      <4>1. CASE HandsPending
        BY <4>1, HandedOver
      <4>2. CASE Goes(c, Over) /\ UNCHANGED handVars
        BY <4>2, GoesQuietly, PledgedBefore DEF Over
      <4> QED
        BY <2>1, <4>1, <4>2, ResumesPending
    <3>6. \A k \in Core(jobRows') : /\ k \in Core(jobRows)
                                    /\ jobRows'[k].status = "COMPLETED" => jobRows[k].status = "COMPLETED"
      BY <3>2 DEF Core, Deduped, IsCore, RowTypes, JobRowType
    <3>7. UnfinishedAhead'
      BY <3>2, <3>5, <3>6 DEF UnfinishedAhead
    <3> QED
      BY <3>4, <3>7
  <2>2. CASE CreatesRun(c)
    <3>1. UnfinishedAhead'
      BY <2>2, FreshPending DEF UnfinishedAhead
    <3>2. runs' # runs
      BY <2>2 DEF CreatesRun, RowTypes
    <3> QED
      BY <3>1, <3>2 DEF Kept
  <2>3. CASE Remove(c)
    BY <2>3 DEF Remove, NoRows, UnfinishedAhead, Core, Kept, ModeInv, ProjectType
  <2>4. CASE Cancel(c)
    <3>1. Settled
      BY <2>4, GoesQuietly DEF Cancel, Over, Settled
    <3> HIDE DEF Goal
    <3> QED
      BY <1>2, <2>4, <3>1 DEF Cancel, ghostVars
  <2>5. CASE UpdateRead(c) \/ UpdateWrite(c) \/ GenerateUrl(c) \/ StartRefused(c) \/ StatusRead(c) \/ StatusJobs(c)
    <3>1. UNCHANGED <<jobRows, edited>>
      BY <2>5 DEF UpdateRead, UpdateWrite, GenerateUrl, StartRefused, StatusRead, StatusJobs, ghostVars
    <3> HIDE DEF Goal
    <3> QED
      BY <1>3, <1>4, <3>1, CallSettles
  <2> QED
    BY <1>4, <2>1, <2>2, <2>3, <2>4, <2>5 DEF CallStep
<1>5. ASSUME NEW c \in Calls, JobCallStep(c) PROVE Goal
  <2>1. Settled
    BY <1>5, JobCallSettles
  <2>2. \A k : Pledged(k)' => Pledged(k)
    BY <2>1, PledgedBefore DEF Settled
  <2>3. edited => edited'
    BY <1>5 DEF JobCallStep, PostJob, PatchJob, DeleteJob
  <2>4. ASSUME ~edited' PROVE Core(jobRows') = Core(jobRows) /\ \A k \in Core(jobRows) : jobRows'[k] = jobRows[k]
    <3>1. CASE PostJob(c)
      <4>1. PICK type \in PostedTypes :
              /\ jobRows' = [k \in DOMAIN jobRows \cup {lastId + 1} |->
                                IF k = lastId + 1 THEN NewRow(type) ELSE jobRows[k]]
              /\ type \notin CoreTypes
        BY <2>4, <3>1 DEF PostJob
      <4>2. lastId + 1 \notin DOMAIN jobRows /\ ~IsCore(NewRow(type))
        BY <4>1 DEF RowTypes, NewRow, IsCore
      <4> QED
        BY <4>1, <4>2 DEF Core
    <3>2. CASE PatchJob(c)
      <4>1. PICK k \in DOMAIN jobRows, edit \in Edits :
              /\ jobRows' = [jobRows EXCEPT ![k].status = edit.status, ![k].progress = edit.progress]
              /\ ~IsCore(jobRows[k])
        BY <2>4, <3>2 DEF PatchJob
      <4>2. ~IsCore(jobRows'[k])
        BY <4>1 DEF IsCore, RowTypes, JobRowType
      <4> QED
        BY <4>1, <4>2 DEF Core
    <3>3. CASE DeleteJob(c)
      <4>1. PICK k \in DOMAIN jobRows : /\ jobRows' = [i \in DOMAIN jobRows \ {k} |-> jobRows[i]]
                                        /\ ~IsCore(jobRows[k])
        BY <2>4, <3>3 DEF DeleteJob
      <4> QED
        BY <4>1 DEF Core
    <3> QED
      BY <1>5, <3>1, <3>2, <3>3 DEF JobCallStep
  <2> HIDE DEF Goal
  <2> QED
    BY <1>1, <2>2, <2>3, <2>4
<1>6. ASSUME UNCHANGED edited, Settled, NEW k \in DOMAIN jobRows,
             jobRows' = [jobRows EXCEPT ![k].status = "COMPLETED", ![k].progress = 100], ~Pledged(k)'
      PROVE  Goal
  <2>1. /\ DOMAIN jobRows' = DOMAIN jobRows
        /\ \A i \in DOMAIN jobRows : /\ jobRows'[i].type = jobRows[i].type
                                     /\ IF i = k THEN jobRows'[i].status = "COMPLETED" ELSE jobRows'[i] = jobRows[i]
    BY <1>6 DEF RowTypes, JobRowType
  <2>2. Core(jobRows') = Core(jobRows)
    BY <2>1 DEF Core, IsCore
  <2>3. AllDone => AllDone'
    BY <2>1, <2>2 DEF AllDone, Core
  <2>4. UnfinishedAhead'
    BY <1>6, <2>1, <2>2, PledgedBefore DEF UnfinishedAhead, Settled, Core
  <2> QED
    BY <1>0, <1>6, <2>3, <2>4 DEF Kept
<1>7. ASSUME NEW t \in DOMAIN doing, FinalizesInline(t) PROVE Goal
  <2>1. Settled /\ UNCHANGED edited
    BY <1>7, SettledIf DEF FinalizesInline, After, Over, Unused, ghostVars
  <2>2. CASE jobRows' = jobRows
    BY <1>3, <2>1, <2>2
  <2>3. CASE /\ doing[t].id \in DOMAIN jobRows
             /\ jobRows' = [jobRows EXCEPT ![doing[t].id].status = "COMPLETED", ![doing[t].id].progress = 100]
    <3>1. PICK k \in DOMAIN jobRows :
            k = doing[t].id /\ jobRows' = [jobRows EXCEPT ![k].status = "COMPLETED", ![k].progress = 100]
      BY <2>3
    <3>2. ~Pledged(k)
      BY <1>7, <3>1 DEF FinalizesInline, Duties, Pledged
    <3>3. ~Pledged(k)'
      BY <2>1, <3>2, PledgedBefore DEF Settled
    <3> HIDE DEF Goal
    <3> QED
      BY <1>6, <2>1, <3>1, <3>3
  <2> QED
    BY <1>7, <2>2, <2>3 DEF FinalizesInline
<1>8. ASSUME NEW t \in DOMAIN doing, Advance(t) \/ Complete(t) PROVE Goal
  <2>1. UNCHANGED <<jobRows, edited>>
    BY <1>8 DEF Advance, Complete, ghostVars
  <2> HIDE DEF Goal
  <2> QED
    BY <1>3, <1>8, <2>1, HandSettles DEF HandStep
<1>9. ASSUME NEW w \in StageWorkers, Take(w) PROVE Goal
  <2>1. PICK job \in queued :
          /\ queued' = queued \ {job}
          /\ IF job.id \notin DOMAIN jobRows THEN UNCHANGED <<jobRows, doing>>
             ELSE /\ jobRows' = [jobRows EXCEPT ![job.id].status = "PROCESSING"]
                  /\ Goes(w, [pc |-> "work", id |-> job.id])
    BY <1>9 DEF Take
  <2>2. edited' = edited /\ Pledged(job.id)
    BY <1>9, <2>1 DEF Take, ghostVars, Pledged
  <2>3. \A k : Pledged(k)' => Pledged(k)
    <3>1. DOMAIN doing' = DOMAIN doing
      BY DEF ModeInv
    <3>2. \A t \in AtWork' : doing'[t].id = job.id \/ (t \in AtWork /\ doing'[t] = doing[t])
      BY <2>1, <3>1 DEF AtWork, Goes
    <3> QED
      BY <2>1, <2>2, <3>2 DEF Pledged
  <2>4. CASE jobRows' = jobRows
    BY <1>1, <2>2, <2>3, <2>4
  <2>5. CASE job.id \in DOMAIN jobRows /\ jobRows' = [jobRows EXCEPT ![job.id].status = "PROCESSING"]
    <3>1. /\ DOMAIN jobRows' = DOMAIN jobRows
          /\ \A i \in DOMAIN jobRows : /\ jobRows'[i].type = jobRows[i].type
                                       /\ IF i = job.id THEN jobRows'[i].status = "PROCESSING"
                                          ELSE jobRows'[i] = jobRows[i]
      BY <2>5 DEF RowTypes, JobRowType
    <3>2. Core(jobRows') = Core(jobRows) /\ \A i \in Core(jobRows) : i \in DOMAIN jobRows
      BY <3>1 DEF Core, IsCore
    <3>3. ~edited => \A i \in Core(jobRows) : jobRows'[i].status = "COMPLETED" <=> jobRows[i].status = "COMPLETED"
      BY <2>2, <3>1, <3>2 DEF UnfinishedAhead
    <3> HIDE DEF Goal
    <3> QED
      BY <1>1, <2>2, <2>3, <3>2, <3>3
  <2> QED
    BY <2>1, <2>4, <2>5
<1>10. ASSUME NEW w \in StageWorkers, StageCompletes(w) PROVE Goal
  <2>1. Settled /\ UNCHANGED edited /\ w \in DOMAIN doing /\ doing[w].pc = "work"
    BY <1>10, StageSettles DEF StageCompletes, ghostVars, ModeInv
  <2>2. CASE jobRows' = jobRows
    BY <1>3, <2>1, <2>2
  <2>3. CASE /\ doing[w].id \in DOMAIN jobRows
             /\ jobRows' = [jobRows EXCEPT ![doing[w].id].status = "COMPLETED", ![doing[w].id].progress = 100]
    <3>1. PICK k \in DOMAIN jobRows :
            k = doing[w].id /\ jobRows' = [jobRows EXCEPT ![k].status = "COMPLETED", ![k].progress = 100]
      BY <2>3
    <3>2. \A q \in queued' : q.id # k
      BY <2>1, <3>1 DEF Duties, AtWork, Settled, handVars
    <3>3. doing'[w].pc # "work"
      BY <1>10, <2>1 DEF StageCompletes, Goes, Unused
    <3>4. \A u \in AtWork' : u # w /\ u \in AtWork /\ doing'[u] = doing[u]
      BY <2>1, <3>3 DEF AtWork, Settled, NothingBegun, ModeInv
    <3>5. ~Pledged(k)'
      BY <2>1, <3>1, <3>2, <3>4 DEF Pledged, Duties, AtWork
    <3> HIDE DEF Goal
    <3> QED
      BY <1>6, <2>1, <3>1, <3>5
  <2> QED
    BY <1>10, <2>2, <2>3 DEF StageCompletes
<1>11. ASSUME NEW w \in StageWorkers, StageFails(w) PROVE Goal
  <2>1. Settled /\ UNCHANGED edited /\ w \in DOMAIN doing /\ doing[w].pc = "work"
    BY <1>11, StageSettles DEF StageFails, ghostVars, ModeInv
  <2>2. CASE jobRows' = jobRows
    BY <1>3, <2>1, <2>2
  <2>3. CASE jobRows' = [k \in DOMAIN jobRows |->
                            IF k = doing[w].id THEN [jobRows[k] EXCEPT !.status = "FAILED"]
                            ELSE IF IsCore(jobRows[k]) /\ Active(jobRows[k])
                                 THEN [jobRows[k] EXCEPT !.status = "CANCELLED"]
                            ELSE jobRows[k]]
    <3>1. Pledged(doing[w].id)
      BY <2>1 DEF Pledged, AtWork
    <3>2. /\ DOMAIN jobRows' = DOMAIN jobRows
          /\ \A i \in DOMAIN jobRows :
                /\ jobRows'[i].type = jobRows[i].type
                /\ i = doing[w].id => jobRows'[i].status = "FAILED"
                /\ i # doing[w].id => (jobRows'[i].status = "COMPLETED" <=> jobRows[i].status = "COMPLETED")
      BY <2>3 DEF RowTypes, JobRowType, Active
    <3>3. Core(jobRows') = Core(jobRows) /\ \A i \in Core(jobRows) : i \in DOMAIN jobRows
      BY <3>2 DEF Core, IsCore
    <3>4. ~edited => \A i \in Core(jobRows) : jobRows'[i].status = "COMPLETED" <=> jobRows[i].status = "COMPLETED"
      BY <3>1, <3>2, <3>3 DEF UnfinishedAhead
    <3>5. \A k : Pledged(k)' => Pledged(k)
      BY <2>1, PledgedBefore DEF Settled
    <3> HIDE DEF Goal
    <3> QED
      BY <1>1, <2>1, <3>3, <3>4, <3>5
  <2> QED
    BY <1>11, <2>2, <2>3 DEF StageFails
<1>12. ASSUME UNCHANGED projectVars PROVE Goal
  <2>1. Settled /\ UNCHANGED <<jobRows, edited>>
    BY <1>12 DEF projectVars, handVars, Settled, NothingBegun
  <2> HIDE DEF Goal
  <2> QED
    BY <1>3, <2>1
<1> QED
  BY <1>4, <1>5, <1>7, <1>8, <1>9, <1>10, <1>11, <1>12 DEF ProjectsNext, HandStep, StageStep

LEMMA QuietIf ==
  ASSUME ModeInv, NEW t, NEW state, Goes(t, state) \/ Overtake(t, state),
         state.pc \notin {"status", "complete", "told"}
  PROVE  Quiet
BY GoesQuietly

(* Three steps apart, nobody comes to know more of a completed run.          *)
LEMMA QuietSteps ==
  ASSUME ModeInv, RowTypes, [ProjectsNext]_projectVars
  PROVE  \/ Quiet
         \/ \E c \in Calls : StatusRead(c) \/ StatusJobs(c)
         \/ \E t \in DOMAIN doing : Goes(t, [pc |-> "complete", run |-> runs]) /\ AllDone
<1>1. ASSUME NEW c \in Calls, CallStep(c), ~StatusRead(c), ~StatusJobs(c) PROVE Quiet
  <2>1. CASE ResumesRun(c)
    <3>1. ASSUME HandsPending PROVE Quiet
      BY <3>1, DispatchQuietly DEF HandsPending
    <3> QED
      BY <2>1, <3>1, ResumesPending, GoesQuietly DEF Over
  <2>2. CASE CreatesRun(c)
    BY <2>2, FreshPending, DispatchQuietly DEF HandsPending
  <2>3. CASE UpdateRead(c)
    BY <2>3, QuietIf DEF UpdateRead
  <2>4. CASE UpdateWrite(c) \/ Remove(c) \/ StartRefused(c) \/ Cancel(c)
    BY <2>4, QuietIf DEF UpdateWrite, Remove, StartRefused, Cancel, Over
  <2>5. CASE GenerateUrl(c)
    BY <2>5, QuietIf DEF GenerateUrl
  <2> QED
    BY <1>1, <2>1, <2>2, <2>3, <2>4, <2>5 DEF CallStep
<1>2. ASSUME NEW c \in Calls, JobCallStep(c) PROVE Quiet
  BY <1>2, QuietIf DEF JobCallStep, PostJob, PatchJob, DeleteJob, Over
<1>3. ASSUME NEW t \in DOMAIN doing, Advance(t)
      PROVE  Quiet \/ (Goes(t, [pc |-> "complete", run |-> runs]) /\ AllDone)
  <2>1. ASSUME HandsPending PROVE Quiet
    BY <2>1, DispatchQuietly DEF HandsPending
  <2>2. ASSUME Goes(t, After(t)) PROVE Quiet
    BY <2>2, GoesQuietly DEF After, Over, Unused
  <2> QED
    BY <1>3, <2>1, <2>2, AdvancePending
<1>4. ASSUME NEW t \in DOMAIN doing, FinalizesInline(t) \/ Complete(t) PROVE Quiet
  BY <1>4, GoesQuietly DEF FinalizesInline, Complete, After, Over, Unused
<1>5. ASSUME NEW w \in StageWorkers, StageStep(w) PROVE Quiet
  <2>1. CASE doing' = doing
    BY <2>1 DEF Quiet
  <2>2. CASE Take(w)
    BY <2>1, <2>2, QuietIf DEF Take
  <2>3. CASE StageCompletes(w) \/ StageFails(w)
    BY <2>3, QuietIf DEF StageCompletes, StageFails, Unused
  <2> QED
    BY <1>5, <2>2, <2>3 DEF StageStep
<1>6. ASSUME UNCHANGED projectVars PROVE Quiet
  BY <1>6 DEF projectVars, Quiet
<1> QED
  BY <1>1, <1>2, <1>3, <1>4, <1>5, <1>6 DEF ProjectsNext, HandStep

LEMMA RunsStep ==
  ASSUME ModeInv, ModeInv', RowTypes, [ProjectsNext]_projectVars
  PROVE  RowTypes' /\ runs' \in {runs, runs + 1}
<1>1. runs' \in {runs, runs + 1} /\ edited' \in BOOLEAN
  BY DEF ModeInv, RowTypes, projectVars, ProjectsNext, CallStep, JobCallStep, HandStep, StageStep, ghostVars,
     UpdateRead, UpdateWrite, Remove, GenerateUrl, StartRefused, ResumesRun, CreatesRun, Cancel,
     StatusRead, StatusJobs, PostJob, PatchJob, DeleteJob, FinalizesInline, Advance, Complete,
     Take, StageCompletes, StageFails
<1>2. doneRun' = doneRun \/ \E t \in DOMAIN doing : doing[t].pc = "complete" /\ doneRun' = doing[t].run
  BY DEF projectVars, ProjectsNext, CallStep, JobCallStep, HandStep, StageStep, ghostVars,
     UpdateRead, UpdateWrite, Remove, GenerateUrl, StartRefused, ResumesRun, CreatesRun, Cancel,
     StatusRead, StatusJobs, PostJob, PatchJob, DeleteJob, FinalizesInline, Advance, Complete,
     Take, StageCompletes, StageFails
<1>3. DOMAIN doing' = DOMAIN doing /\ runs \in Nat
  BY DEF ModeInv, RowTypes
<1>4. ASSUME NEW u \in DOMAIN doing, doing'[u].pc = "complete"
      PROVE  doing'[u] = doing[u] \/ doing'[u].run = runs
  <2>1. ASSUME NEW c \in Calls, StatusRead(c) \/ StatusJobs(c) PROVE doing'[u] = doing[u]
    BY <1>3, <1>4, <2>1 DEF StatusRead, StatusJobs, Goes, Answer
  <2>2. ASSUME NEW t \in DOMAIN doing, Goes(t, [pc |-> "complete", run |-> runs])
        PROVE  doing'[u] = doing[u] \/ doing'[u].run = runs
    BY <1>3, <2>2 DEF Goes
  <2> QED
    BY <1>4, <2>1, <2>2, QuietSteps DEF Quiet
<1> QED
  BY <1>1, <1>2, <1>3, <1>4, RowsStep DEF RowTypes

LEMMA DoneByStays ==
  ASSUME Kept, runs \in Nat, runs' \in {runs, runs + 1}, NEW past \in 0 .. runs, DoneBy(past)
  PROVE  DoneBy(past)'
BY DEF Kept, DoneBy

LEMMA ToldDoneStep ==
  ASSUME ModeInv, ModeInv', RowTypes, ToldDone, Kept, runs' \in {runs, runs + 1}, [ProjectsNext]_projectVars
  PROVE  ToldDone'
<1>1. DOMAIN doing' = DOMAIN doing /\ runs \in Nat /\ doneRun \in 0 .. runs
  BY DEF ModeInv, RowTypes
<1>2. ASSUME NEW t \in DOMAIN doing, doing[t].pc = "complete" PROVE doing[t].run \in 0 .. runs /\ DoneBy(doing[t].run)
  BY <1>2 DEF ToldDone, RowTypes
(* A write of COMPLETED apart, the status and what was read of it stay.      *)
<1>3. \/ doneRun' = doneRun /\ (projectRow'.status = "COMPLETED" => projectRow.status = "COMPLETED")
      \/ \E t \in DOMAIN doing : doing[t].pc = "complete" /\ doneRun' = doing[t].run
  BY DEF projectVars, ProjectsNext, CallStep, JobCallStep, HandStep, StageStep, ghostVars, ModeInv, ProjectType, Written,
     UpdateRead, UpdateWrite, Remove, GenerateUrl, StartRefused, ResumesRun, CreatesRun, Cancel,
     StatusRead, StatusJobs, PostJob, PatchJob, DeleteJob, FinalizesInline, Advance, Complete,
     Take, StageCompletes, StageFails
<1>4. ASSUME NEW c \in Calls, StatusRead(c) PROVE DoneBy(doneRun)
  BY <1>4 DEF StatusRead, ToldDone
<1>5. ASSUME NEW u \in DOMAIN doing, doing'[u].pc = "status" PROVE DoneBy(doneRun)
  <2>1. ASSUME doing'[u] = doing[u] PROVE DoneBy(doneRun)
    BY <1>5, <2>1 DEF ToldDone
  <2>2. ASSUME NEW c \in Calls, StatusJobs(c) PROVE DoneBy(doneRun)
    BY <1>1, <1>5, <2>1, <2>2 DEF StatusJobs, Goes, Answer
  <2>3. ASSUME NEW t \in DOMAIN doing, Goes(t, [pc |-> "complete", run |-> runs]) PROVE DoneBy(doneRun)
    BY <1>1, <1>5, <2>1, <2>3 DEF Goes
  <2> QED
    BY <1>4, <1>5, <2>1, <2>2, <2>3, QuietSteps DEF Quiet
<1>6. ASSUME NEW u \in DOMAIN doing, doing'[u].pc = "complete"
      PROVE  \E past \in 0 .. runs : doing'[u].run = past /\ DoneBy(past)
  <2>1. ASSUME doing'[u] = doing[u] PROVE \E past \in 0 .. runs : doing'[u].run = past /\ DoneBy(past)
    BY <1>2, <1>6, <2>1
  <2>2. ASSUME NEW c \in Calls, StatusRead(c) \/ StatusJobs(c) PROVE doing'[u] = doing[u]
    BY <1>1, <1>6, <2>2 DEF StatusRead, StatusJobs, Goes, Answer
  <2>3. ASSUME NEW t \in DOMAIN doing, Goes(t, [pc |-> "complete", run |-> runs]), AllDone
        PROVE  \E past \in 0 .. runs : doing'[u].run = past /\ DoneBy(past)
    <3>1. CASE u = t
      BY <1>1, <2>3, <3>1 DEF Goes, DoneBy
    <3>2. CASE u # t
      BY <1>1, <2>1, <2>3, <3>2 DEF Goes
    <3> QED
      BY <3>1, <3>2
  <2> QED
    BY <1>6, <2>1, <2>2, <2>3, QuietSteps DEF Quiet
<1>7. ASSUME NEW past \in 0 .. runs, DoneBy(past) PROVE DoneBy(past)'
  BY <1>1, <1>7, DoneByStays
<1>8. ASSUME projectRow'.status = "COMPLETED" \/ \E u \in DOMAIN doing : doing'[u].pc = "status"
      PROVE  DoneBy(doneRun)'
  <2>1. \E past \in 0 .. runs : doneRun' = past /\ DoneBy(past)
    <3>1. CASE \E t \in DOMAIN doing : doing[t].pc = "complete" /\ doneRun' = doing[t].run
      BY <1>2, <3>1
    <3>2. CASE doneRun' = doneRun /\ (projectRow'.status = "COMPLETED" => projectRow.status = "COMPLETED")
      <4>1. DoneBy(doneRun)
        BY <1>5, <1>8, <3>2 DEF ToldDone
      <4> QED
        BY <1>1, <3>2, <4>1
    <3> QED
      BY <1>3, <3>1, <3>2
  <2>2. PICK past \in 0 .. runs : doneRun' = past /\ DoneBy(past)
    BY <2>1
  <2>3. DoneBy(past)'
    BY <1>7, <2>2
  <2> QED
    BY <2>2, <2>3 DEF DoneBy
<1>9. ASSUME NEW u \in DOMAIN doing', doing'[u].pc = "complete" PROVE DoneBy(doing[u].run)'
  <2>1. PICK past \in 0 .. runs : doing'[u].run = past /\ DoneBy(past)
    BY <1>1, <1>6, <1>9
  <2>2. DoneBy(past)'
    BY <1>7, <2>1
  <2> QED
    BY <2>1, <2>2 DEF DoneBy
<1> QED
  BY <1>1, <1>8, <1>9 DEF ToldDone

LEMMA ShowsStep ==
  ASSUME ModeInv, RowTypes, ToldDone, DoneShowsAll, [ProjectsNext]_projectVars
  PROVE  DoneShowsAll'
<1>1. Calls \subseteq DOMAIN doing /\ Core(jobRows) \in SUBSET (1 .. lastId) /\ lastId \in Nat
  BY DEF ModeInv, RowTypes, Core
<1>2. AllDone => JobApiProgress(jobRows) = 100 /\ ProjectApiProgress(jobRows) = 100
  BY <1>1, MeanOfDone DEF AllDone, JobApiProgress, ProjectApiProgress
<1>3. CASE Quiet
  BY <1>1, <1>3 DEF Quiet, DoneShowsAll
<1>4. ASSUME NEW c \in Calls, StatusRead(c) PROVE DoneShowsAll'
  BY <1>1, <1>4 DEF StatusRead, Goes, DoneShowsAll
<1>5. ASSUME NEW c \in Calls, StatusJobs(c) PROVE DoneShowsAll'
  <2>1. PICK progress \in {JobApiProgress(jobRows), ProjectApiProgress(jobRows)} : Goes(c, Answer(progress))
    BY <1>5 DEF StatusJobs
  <2>2. doing[c].pc = "status" /\ c \in DOMAIN doing
    BY <1>1, <1>5 DEF StatusJobs
  <2>3. Answer(progress).current => AllDone
    BY <2>2 DEF ToldDone, DoneBy, Answer
  <2>4. Answer(progress).current => Answer(progress).progress = 100
    BY <1>2, <2>3 DEF Answer
  <2> QED
    BY <1>1, <2>1, <2>4 DEF Goes, DoneShowsAll
<1>6. ASSUME NEW t \in DOMAIN doing, Goes(t, [pc |-> "complete", run |-> runs]) PROVE DoneShowsAll'
  BY <1>1, <1>6 DEF Goes, DoneShowsAll
<1> QED
  BY <1>3, <1>4, <1>5, <1>6, QuietSteps

LEMMA DoneInvHolds == ProjectsSpec => []DoneInv
<1>1. ProjectsInit => DoneInv
  <2> SUFFICES ASSUME ProjectsInit PROVE DoneInv
    OBVIOUS
  <2>1. ModeInv
    BY ModeInit
  <2>2. DOMAIN jobRows = {}
    BY DEF ProjectsInit, NoRows
  <2>3. RowTypes
    <3>1. \A t \in DOMAIN doing : doing[t].pc # "complete"
      BY DEF ProjectsInit, Unused
    <3>2. edited \in BOOLEAN
      BY DEF ProjectsInit
    <3>3. lastId = 0 /\ runs = 0 /\ doneRun = 0
      BY DEF ProjectsInit
    <3>4. DOMAIN jobRows \subseteq 1 .. lastId /\ \A k \in DOMAIN jobRows : jobRows[k] \in JobRowType
      BY <2>2
    <3> QED
      BY <3>1, <3>2, <3>3, <3>4 DEF RowTypes
  <2>4. Duties /\ UnfinishedAhead /\ DoneShowsAll
    BY <2>2 DEF ProjectsInit, Unused, Duties, AtWork, UnfinishedAhead, Core, DoneShowsAll
  <2>5. ToldDone
    BY DEF ProjectsInit, Created, Unused, ToldDone
  <2> QED
    BY <2>1, <2>3, <2>4, <2>5 DEF DoneInv
<1>2. DoneInv /\ [ProjectsNext]_projectVars => DoneInv'
  <2> SUFFICES ASSUME DoneInv, [ProjectsNext]_projectVars PROVE DoneInv'
    OBVIOUS
  <2> USE DEF DoneInv
  <2>1. ModeInv'
    BY ModeStep
  <2>2. RowTypes' /\ runs' \in {runs, runs + 1}
    BY <2>1, RunsStep
  <2>3. Duties'
    BY <2>1, DutiesStep
  <2>4. UnfinishedAhead' /\ Kept
    BY <2>1, StatusStep
  <2>5. ToldDone' /\ DoneShowsAll'
    BY <2>1, <2>2, <2>4, ToldDoneStep, ShowsStep
  <2> QED
    BY <2>1, <2>2, <2>3, <2>4, <2>5
<1> QED
  BY <1>1, <1>2, PTL DEF ProjectsSpec

(* A caller told COMPLETED is told 100 as well, by either endpoint, unless a *)
(* new run was created since or its stages were edited by hand.              *)
THEOREM DoneAlwaysShowsAll == ProjectsSpec => []DoneShowsAll
<1>1. DoneInv => DoneShowsAll
  BY DEF DoneInv
<1> QED
  BY <1>1, DoneInvHolds, PTL

-----------------------------------------------------------------------------
(***************************************************************************)
(* What is told of a project's progress is a percentage, whatever a PATCH   *)
(* has written into its table: the share of each row is cut to one, and so   *)
(* their mean, whose sum exists and is bounded by induction over the ids.   *)
(***************************************************************************)
LEMMA ShareIs ==
  ASSUME NEW r \in JobRowType
  PROVE  Share(r) \in 0 .. 100
BY DEF Share, JobRowType

LEMMA MeanIsPercent ==
  ASSUME lastId \in Nat, NEW table, NEW ids \in SUBSET (1 .. lastId),
         \A k \in ids : table[k] \in JobRowType
  PROVE  Mean(table, ids) \in 0 .. 100
<1> DEFINE upTo(k) == Cardinality(ids \cap 1 .. k)
           next(f, k) == IF k = 0 THEN 0 ELSE IF k \in ids THEN f[k - 1] + Share(table[k]) ELSE f[k - 1]
           sums(n) == {f \in [0 .. n -> Nat] : f = [k \in 0 .. n |-> next(f, k)]}
           sum == CHOOSE f : f = [k \in 0 .. lastId |-> next(f, k)]
<1>1. \A k \in Nat : IsFiniteSet(ids \cap 1 .. k) /\ upTo(k) \in Nat
  <2> SUFFICES ASSUME NEW k \in Nat PROVE IsFiniteSet(ids \cap 1 .. k) /\ upTo(k) \in Nat
    OBVIOUS
  <2>1. IsFiniteSet(1 .. k) /\ ids \cap 1 .. k \in SUBSET (1 .. k)
    BY FS_Interval
  <2> QED
    BY <2>1, FS_Subset, FS_CardinalityType
<1>2. upTo(0) = 0
  BY FS_EmptySet
<1>3. \A k \in 1 .. lastId : upTo(k) = IF k \in ids THEN upTo(k - 1) + 1 ELSE upTo(k - 1)
  <2> SUFFICES ASSUME NEW k \in 1 .. lastId
               PROVE  upTo(k) = IF k \in ids THEN upTo(k - 1) + 1 ELSE upTo(k - 1)
    OBVIOUS
  <2>1. ids \cap 1 .. k = IF k \in ids THEN (ids \cap 1 .. k - 1) \cup {k} ELSE ids \cap 1 .. k - 1
    OBVIOUS
  <2>2. k \notin ids \cap 1 .. k - 1 /\ IsFiniteSet(ids \cap 1 .. k - 1)
    BY <1>1
  <2> QED
    BY <2>1, <2>2, FS_AddElement
<1>4. \A k \in ids : Share(table[k]) \in 0 .. 100
  BY ShareIs
<1>n. \A k \in ids : Share(table[k]) \in Nat
  BY <1>4
<1> HIDE DEF upTo
<1>5. sums(lastId) # {}
  <2> DEFINE S == {n \in 0 .. lastId : sums(n) # {}}
  <2>1. 0 \in S
    <3> DEFINE zero == [k \in 0 .. 0 |-> 0]
    <3>1. zero \in [0 .. 0 -> Nat] /\ \A k \in 0 .. 0 : zero[k] = next(zero, k)
      OBVIOUS
    <3>2. zero = [k \in 0 .. 0 |-> next(zero, k)]
      BY <3>1
    <3>3. zero \in sums(0)
      BY <3>1, <3>2
    <3> HIDE DEF zero, sums
    <3> QED
      BY <3>3
  <2>2. ASSUME NEW n \in 0 .. lastId - 1, n \in S PROVE n + 1 \in S
    <3>1. PICK f \in sums(n) : TRUE
      BY <2>2
    <3> DEFINE g == [k \in 0 .. n + 1 |-> IF k = n + 1 THEN next(f, n + 1) ELSE f[k]]
    <3>2. next(f, n + 1) \in Nat
      <4>1. f[n] \in Nat /\ (n + 1) - 1 = n /\ n + 1 # 0
        BY <3>1
      <4>2. \A k \in ids : Share(table[k]) \in Nat
        BY <1>n
      <4> QED
        BY <4>1, <4>2
    <3>3. g \in [0 .. n + 1 -> Nat]
      BY <3>1, <3>2
    <3>4. ASSUME NEW k \in 0 .. n + 1 PROVE g[k] = next(g, k)
      <4>1. CASE k = n + 1
        BY <4>1
      <4>2. CASE k \in 0 .. n
        <5>1. k = 0 \/ k - 1 \in 0 .. n
          BY <4>2
        <5>2. f[k] = next(f, k)
          BY <3>1, <4>2
        <5>3. g[k] = f[k] /\ (k # 0 => g[k - 1] = f[k - 1])
          BY <4>2, <5>1
        <5> HIDE DEF g
        <5> QED
          BY <5>2, <5>3
      <4> QED
        BY <4>1, <4>2
    <3>5. g = [k \in 0 .. n + 1 |-> next(g, k)]
      BY <3>4
    <3>6. g \in sums(n + 1)
      BY <3>3, <3>5
    <3> HIDE DEF g, sums
    <3> QED
      BY <3>6
  <2> HIDE DEF S
  <2>3. 0 .. lastId \subseteq S
    BY <2>1, <2>2, UpTo
  <2>4. lastId \in S
    BY <2>3
  <2> HIDE DEF sums
  <2> QED
    BY <2>4 DEF S
<1>6. sum = [k \in 0 .. lastId |-> next(sum, k)]
  <2>1. \E f : f = [k \in 0 .. lastId |-> next(f, k)]
    BY <1>5
  <2> QED
    BY <2>1
<1>m. ids # {} => Mean(table, ids) = (2 * sum[lastId] + Cardinality(ids)) \div (2 * Cardinality(ids))
  BY DEF Mean
<1> HIDE DEF sum
<1>7. sum[lastId] \in 0 .. 100 * upTo(lastId)
  <2> DEFINE S == {k \in 0 .. lastId : sum[k] \in 0 .. 100 * upTo(k)}
  <2>1. 0 \in S
    BY <1>2, <1>6
  <2>2. ASSUME NEW k \in 0 .. lastId - 1, k \in S PROVE k + 1 \in S
    <3>1. k + 1 \in 1 .. lastId /\ k + 1 \in 0 .. lastId /\ (k + 1) - 1 = k /\ k \in Nat
      OBVIOUS
    <3>2. sum[k + 1] = next(sum, k + 1)
      BY <1>6, <3>1
    <3>3. upTo(k) \in Nat
      BY <1>1, <3>1
    <3>4. CASE k + 1 \in ids
      <4>1. upTo(k + 1) = upTo(k) + 1
        BY <1>3, <3>1, <3>4
      <4>2. sum[k + 1] = sum[k] + Share(table[k + 1])
        BY <3>1, <3>2, <3>4
      <4>3. sum[k] \in 0 .. 100 * upTo(k) /\ Share(table[k + 1]) \in 0 .. 100
        BY <1>4, <2>2, <3>4
      <4>4. \A a, b, u \in Nat : a <= 100 * u /\ b <= 100 => a + b <= 100 * (u + 1)
        OBVIOUS
      <4>5. sum[k + 1] \in 0 .. 100 * upTo(k + 1)
        BY <3>3, <4>1, <4>2, <4>3, <4>4
      <4> QED
        BY <3>1, <4>5
    <3>5. CASE k + 1 \notin ids
      <4>1. upTo(k + 1) = upTo(k)
        BY <1>3, <3>1, <3>5
      <4>2. sum[k + 1] = sum[k]
        BY <3>1, <3>2, <3>5
      <4> QED
        BY <2>2, <3>1, <4>1, <4>2
    <3> QED
      BY <3>4, <3>5
  <2> HIDE DEF S
  <2>3. 0 .. lastId \subseteq S
    BY <2>1, <2>2, UpTo
  <2> QED
    BY <2>3 DEF S
<1>8. ids \cap 1 .. lastId = ids
  OBVIOUS
<1>9. sum[lastId] \in 0 .. 100 * Cardinality(ids)
  BY <1>7, <1>8 DEF upTo
<1>10. CASE ids = {}
  BY <1>10 DEF Mean
<1>11. CASE ids # {}
  <2>1. Cardinality(ids) \in Nat \ {0}
    <3>1. IsFiniteSet(ids)
      BY <1>1, <1>8
    <3> QED
      BY <1>11, <3>1, FS_CardinalityType, FS_EmptySet
  <2>2. \A n \in Nat \ {0}, s \in Nat : s <= 100 * n => (2 * s + n) \div (2 * n) \in 0 .. 100
    OBVIOUS
  <2>3. sum[lastId] \in Nat /\ sum[lastId] <= 100 * Cardinality(ids)
    BY ONLY <1>9, <2>1
  <2>4. (2 * sum[lastId] + Cardinality(ids)) \div (2 * Cardinality(ids)) \in 0 .. 100
    BY ONLY <2>1, <2>2, <2>3
  <2> QED
    BY ONLY <1>11, <1>m, <2>4
<1> QED
  BY <1>10, <1>11
-----------------------------------------------------------------------------
(* Where a call or a worker is, or what it has been answered.                *)
Pcs == {"idle", "done", "update", "start", "status", "finalize", "advance", "complete", "work"}
Placed == \A t \in DOMAIN doing : doing[t].pc \in Pcs \/ doing[t] \in AnswerType

ProjectsTyped ==
  /\ jobRows = [k \in DOMAIN jobRows |-> jobRows[k]]
  /\ \A q \in queued : q \in [id : handed, type : CoreTypes]
  /\ Placed

LEMMA RowsTabled ==
  ASSUME jobRows = [k \in DOMAIN jobRows |-> jobRows[k]], [ProjectsNext]_projectVars
  PROVE  jobRows' = [k \in DOMAIN jobRows' |-> jobRows'[k]]
<1>1. ASSUME UNCHANGED jobRows PROVE jobRows' = [k \in DOMAIN jobRows' |-> jobRows'[k]]
  BY <1>1
<1> QED
  BY <1>1 DEF projectVars, ProjectsNext, CallStep, JobCallStep, HandStep, StageStep,
     UpdateRead, UpdateWrite, Remove, GenerateUrl, StartRefused, ResumesRun, CreatesRun, Cancel,
     StatusRead, StatusJobs, PostJob, PatchJob, DeleteJob, FinalizesInline, Advance, Complete,
     Take, StageCompletes, StageFails, Deduped, NoRows

LEMMA PlacedIf ==
  ASSUME ModeInv, Placed, NEW t, NEW state, Goes(t, state) \/ Overtake(t, state),
         state.pc \in Pcs \/ state \in AnswerType
  PROVE  Placed'
<1>1. CASE Goes(t, state)
  BY <1>1 DEF Goes, Placed
<1>2. CASE Overtake(t, state)
  <2> SUFFICES ASSUME NEW u \in DOMAIN doing, u # t, doing[u].pc = "update"
               PROVE  doing'[u].pc = "update"
    BY <1>2 DEF Overtake, Placed, Pcs
  <2>1. doing[u] \in Updates /\ doing'[u] = [doing[u] EXCEPT !.overtaken = TRUE]
    BY <1>2 DEF Overtake, ModeInv, CopyFits
  <2> QED
    BY <2>1 DEF Updates
<1> QED
  BY <1>1, <1>2

LEMMA DispatchPlaces ==
  ASSUME ModeInv, Placed, NEW t, NEW job, Dispatch(t, job)
  PROVE  Placed'
BY PlacedIf DEF Dispatch, After, Over, Unused, Pcs

LEMMA PlacedStep ==
  ASSUME ModeInv, RowTypes, Placed, [ProjectsNext]_projectVars
  PROVE  Placed'
<1>1. ASSUME NEW c \in Calls, CallStep(c) PROVE Placed'
  <2>1. CASE UpdateRead(c)
    BY <2>1, PlacedIf DEF UpdateRead, Pcs
  <2>2. CASE UpdateWrite(c) \/ Remove(c) \/ GenerateUrl(c) \/ StartRefused(c) \/ Cancel(c) \/ StatusRead(c)
    BY <2>2, PlacedIf DEF UpdateWrite, Remove, GenerateUrl, StartRefused, Cancel, StatusRead, Over, Pcs
  <2>3. CASE ResumesRun(c)
    BY <2>3, PlacedIf, DispatchPlaces DEF ResumesRun, Over, Pcs
  <2>4. CASE CreatesRun(c)
    BY <2>4, DispatchPlaces DEF CreatesRun
  <2>5. CASE StatusJobs(c)
    <3>1. /\ lastId \in Nat /\ DOMAIN jobRows \in SUBSET (1 .. lastId) /\ Core(jobRows) \in SUBSET (1 .. lastId)
          /\ \A k \in DOMAIN jobRows : jobRows[k] \in JobRowType
          /\ Core(jobRows) \subseteq DOMAIN jobRows
      BY DEF RowTypes, Core
    <3>2. JobApiProgress(jobRows) \in 0 .. 100 /\ ProjectApiProgress(jobRows) \in 0 .. 100
      BY <3>1, MeanIsPercent DEF JobApiProgress, ProjectApiProgress
    <3>3. \A progress \in 0 .. 100 : Answer(progress) \in AnswerType
      BY DEF Answer, AnswerType
    <3> QED
      BY <2>5, <3>2, <3>3, PlacedIf DEF StatusJobs
  <2> QED
    BY <1>1, <2>1, <2>2, <2>3, <2>4, <2>5 DEF CallStep
<1>2. ASSUME NEW c \in Calls, JobCallStep(c) PROVE Placed'
  BY <1>2, PlacedIf DEF JobCallStep, PostJob, PatchJob, DeleteJob, Over, Pcs
<1>3. ASSUME NEW t \in DOMAIN doing, HandStep(t) PROVE Placed'
  <2>1. CASE Advance(t)
    BY <2>1, PlacedIf, DispatchPlaces DEF Advance, After, Over, Unused, Pcs
  <2>2. CASE FinalizesInline(t) \/ Complete(t)
    BY <2>2, PlacedIf DEF FinalizesInline, Complete, After, Over, Unused, Pcs
  <2> QED
    BY <1>3, <2>1, <2>2 DEF HandStep
<1>4. ASSUME NEW w \in StageWorkers, StageStep(w) PROVE Placed'
  <2>1. ASSUME doing' = doing PROVE Placed'
    BY <2>1 DEF Placed
  <2> QED
    BY <1>4, <2>1, PlacedIf DEF StageStep, Take, StageCompletes, StageFails, Unused, Pcs
<1>5. ASSUME UNCHANGED projectVars PROVE Placed'
  BY <1>5 DEF projectVars, Placed
<1> QED
  BY <1>1, <1>2, <1>3, <1>4, <1>5 DEF ProjectsNext

(* What is queued is a stage, handed over by its id.                         *)
LEMMA QueuedStep ==
  ASSUME ModeInv, RowTypes, \A q \in queued : q \in [id : handed, type : CoreTypes], [ProjectsNext]_projectVars
  PROVE  \A q \in queued' : q \in [id : handed', type : CoreTypes]
<1>1. CASE Settled
  BY <1>1 DEF Settled, handVars
<1>2. CASE HandsPending
  <2>1. PICK t \in DOMAIN doing, k \in Core(jobRows') : Dispatch(t, [id |-> k, type |-> jobRows'[k].type])
    BY <1>2 DEF HandsPending, Hands
  <2>2. jobRows'[k].type \in CoreTypes
    BY DEF Core, IsCore
  <2>3. \/ handed' = handed /\ queued' = queued
        \/ handed' = handed \cup {k} /\ queued' \subseteq queued \cup {[id |-> k, type |-> jobRows'[k].type]}
    BY <2>1 DEF Dispatch, handVars
  <2> QED
    BY <2>2, <2>3
<1>3. ASSUME NEW w \in StageWorkers, Take(w) PROVE queued' \subseteq queued /\ handed' = handed
  BY <1>3 DEF Take
<1> QED
  BY <1>1, <1>2, <1>3, StepIs

(* Projects!ProjectsTypeOK holds throughout: in particular whoever asks for  *)
(* the progress of a project is told a percentage, by either endpoint.       *)
LEMMA ProjectsAlwaysTyped == ProjectsSpec => []ProjectsTypeOK
<1>1. ProjectsInit => ProjectsTyped
  BY DEF ProjectsInit, ProjectsTyped, Placed, Pcs, Unused, NoRows
<1>2. DoneInv /\ ProjectsTyped /\ [ProjectsNext]_projectVars => ProjectsTyped'
  BY RowsTabled, PlacedStep, QueuedStep DEF DoneInv, ProjectsTyped
<1>3. DoneInv /\ ProjectsTyped => ProjectsTypeOK
  <2> SUFFICES ASSUME DoneInv, ProjectsTyped PROVE ProjectsTypeOK
    OBVIOUS
  <2>1. projectRow \in ProjectType /\ drift \in BOOLEAN
    BY DEF DoneInv, ModeInv
  <2>2. /\ DOMAIN jobRows \subseteq 1 .. lastId /\ lastId \in Nat
        /\ \A k \in DOMAIN jobRows : jobRows[k] \in JobRowType
        /\ doneRun \in 0 .. runs /\ edited \in BOOLEAN
    BY DEF DoneInv, RowTypes
  <2>3. jobRows \in [DOMAIN jobRows -> JobRowType]
    BY <2>2, Zenon DEF ProjectsTyped
  <2>4. handed \subseteq 1 .. lastId
    BY DEF DoneInv, Duties
  <2>5. queued \subseteq [id : handed, type : CoreTypes]
    BY DEF ProjectsTyped
  <2> QED
    BY <2>1, <2>2, <2>3, <2>4, <2>5 DEF ProjectsTypeOK, ProjectsTyped, Placed, Pcs
<1> QED
  BY <1>1, <1>2, <1>3, DoneInvHolds, PTL DEF ProjectsSpec

-----------------------------------------------------------------------------
(***************************************************************************)
(* Two votes that say the same within the window overlapped, for any        *)
(* ballots, window and number of voters: of the rows a request could see    *)
(* when it looked, none that says the same is recent, and the clock only    *)
(* makes them older until the request inserts its own.                      *)
(***************************************************************************)

Prompts == {b.prompt : b \in Ballots}
VoteStyles == {b.style : b \in Ballots}

VoteRows == [score : Int, prompt : Prompts, style : VoteStyles, frame : Int,
             createdAt : Nat, embedded : BOOLEAN, seen : Nat]

Inserting == [at : {"insert"}, ballot : Ballots, seen : Nat]

VotesInv ==
  /\ moment \in Nat
  /\ votes \in Seq(VoteRows)
  /\ \A i \in DOMAIN votes : votes[i].createdAt <= moment
  /\ DOMAIN voter = Voters
  /\ \A v \in Voters : voter[v].at = "insert" =>
        /\ voter[v] \in Inserting /\ voter[v].seen <= Len(votes)
        /\ \A i \in DOMAIN votes :
              i <= voter[v].seen /\ SameVote(votes[i], voter[v].ballot) => votes[i].createdAt < moment - DedupeWindow
  /\ \A v \in Voters : voter[v].at = "enrich" => voter[v].row \in DOMAIN votes
  /\ DuplicateVotesOverlap

LEMMA VotesStep == VotesInv /\ [FeedbackNext]_feedbackVars => VotesInv'
<1> SUFFICES ASSUME VotesInv, [FeedbackNext]_feedbackVars PROVE VotesInv'
  OBVIOUS
<1>0. /\ DedupeWindow \in Nat
      /\ \A b \in Ballots : b.score \in Int /\ b.frame \in Int /\ b.prompt \in Prompts /\ b.style \in VoteStyles
      /\ votes \in Seq(VoteRows) /\ Len(votes) \in Nat /\ DOMAIN votes = 1..Len(votes)
      /\ \A i \in DOMAIN votes : votes[i] \in VoteRows
  BY FeedbackAssumption DEF IsBallot, NoFrame, VotesInv, Prompts, VoteStyles
<1>t. \A i \in DOMAIN votes : votes[i].createdAt \in Nat /\ votes[i].seen \in Nat
  BY <1>0 DEF VoteRows
<1>1. ASSUME NEW v \in Voters, LookUp(v) PROVE VotesInv'
  <2>1. PICK b \in Ballots :
          voter' = [voter EXCEPT ![v] = IF Duplicates(b) # {} THEN [at |-> "ignored"]
                                        ELSE [at |-> "insert", ballot |-> b, seen |-> Len(votes)]]
    BY <1>1 DEF LookUp
  <2>2. votes' = votes /\ moment' = moment
    BY <1>1 DEF LookUp
  <2>3. DOMAIN voter' = Voters /\ \A u \in Voters : u # v => voter'[u] = voter[u]
    BY <2>1 DEF VotesInv
  <2>4. ASSUME voter'[v].at = "insert"
        PROVE  /\ voter'[v] \in Inserting /\ voter'[v].seen = Len(votes) /\ voter'[v].ballot = b
               /\ \A i \in DOMAIN votes : SameVote(votes[i], b) => votes[i].createdAt < moment - DedupeWindow
    <3>1. Duplicates(b) = {} /\ voter'[v] = [at |-> "insert", ballot |-> b, seen |-> Len(votes)]
      BY <2>1, <2>4 DEF VotesInv
    <3> QED
      BY <1>0, <1>t, <3>1 DEF Duplicates, Recent, Inserting, VotesInv
  <2>5. DuplicateVotesOverlap'
    BY <2>2 DEF VotesInv, DuplicateVotesOverlap, SameVote
  <2>6. voter'[v].at # "enrich"
    BY <2>1 DEF VotesInv
  <2> QED
    BY <1>0, <2>2, <2>3, <2>4, <2>5, <2>6 DEF VotesInv, SameVote
<1>2. ASSUME NEW v \in Voters, Insert(v) PROVE VotesInv'
  <2> DEFINE b == voter[v].ballot
             seen == voter[v].seen
             n == Len(votes) + 1
  <2>1. /\ b \in Ballots /\ seen \in Nat /\ moment \in Nat /\ moment' = moment
        /\ votes' = Append(votes, Row(b, seen))
    BY <1>2 DEF Insert, VotesInv, Inserting
  <2>2. Row(b, seen) \in VoteRows
    BY <1>0, <2>1 DEF Row, VoteRows
  <2>3. /\ votes' \in Seq(VoteRows) /\ DOMAIN votes' = 1..n /\ votes'[n] = Row(b, seen)
        /\ \A i \in DOMAIN votes : votes'[i] = votes[i]
    BY <1>0, <2>1, <2>2
  <2>4. \A i \in DOMAIN votes' : votes'[i].createdAt <= moment'
    BY <1>0, <2>1, <2>3 DEF VotesInv, Row
  <2>5. ASSUME NEW i \in DOMAIN votes, i <= seen, SameVote(votes[i], b)
        PROVE  votes[i].createdAt < moment - DedupeWindow
    BY <1>2, <2>5 DEF Insert, VotesInv
  <2>6. DuplicateVotesOverlap'
    <3> SUFFICES ASSUME NEW i \in DOMAIN votes', NEW k \in DOMAIN votes', i < k, SameVote(votes'[i], votes'[k]),
                        votes'[k].createdAt - votes'[i].createdAt <= DedupeWindow
                 PROVE  votes'[k].seen < i
      BY DEF DuplicateVotesOverlap, SameVote
    <3>1. CASE k # n
      <4>1. i \in DOMAIN votes /\ k \in DOMAIN votes
        BY <1>0, <2>3, <3>1
      <4>2. votes'[i] = votes[i] /\ votes'[k] = votes[k]
        BY ONLY <2>3, <4>1
      <4> QED
        BY <4>1, <4>2 DEF VotesInv, DuplicateVotesOverlap
    <3>2. CASE k = n
      <4>1. /\ i \in DOMAIN votes /\ SameVote(votes[i], Row(b, seen))
            /\ moment - votes[i].createdAt <= DedupeWindow /\ votes'[k].seen = seen
        BY <1>0, <2>3, <3>2 DEF Row
      <4>2. SameVote(votes[i], b)
        BY <4>1 DEF SameVote, Row
      <4>3. votes[i].createdAt \in Nat /\ ~(votes[i].createdAt < moment - DedupeWindow)
        BY <1>0, <1>t, <2>1, <4>1
      <4> QED
        BY <1>0, <2>1, <2>5, <4>1, <4>2, <4>3
    <3> QED
      BY <3>1, <3>2
  <2>7. ASSUME NEW u \in Voters, voter'[u].at = "insert"
        PROVE  /\ voter'[u] \in Inserting /\ voter'[u].seen <= Len(votes')
               /\ \A i \in DOMAIN votes' :
                     i <= voter'[u].seen /\ SameVote(votes'[i], voter'[u].ballot)
                       => votes'[i].createdAt < moment' - DedupeWindow
    <3>1. u # v /\ voter'[u] = voter[u]
      BY <1>2, <2>7 DEF Insert, VotesInv
    <3>2. voter[u].seen <= Len(votes)
      BY <2>7, <3>1 DEF VotesInv
    <3> QED
      BY <1>0, <2>1, <2>3, <2>7, <3>1, <3>2 DEF VotesInv, Inserting
  <2>8. DOMAIN voter' = Voters
    BY <1>2 DEF Insert, VotesInv
  <2>9. \A u \in Voters : voter'[u].at = "enrich" => voter'[u].row \in DOMAIN votes'
    BY <1>0, <1>2, <2>3 DEF Insert, VotesInv
  <2> QED
    BY <2>1, <2>3, <2>4, <2>6, <2>7, <2>8, <2>9 DEF VotesInv, SameVote
<1>3. ASSUME NEW v \in Voters, Enrich(v) PROVE VotesInv'
  <2> DEFINE r == voter[v].row
  <2>1. PICK stored \in BOOLEAN : votes' = [votes EXCEPT ![r].embedded = stored]
    BY <1>3 DEF Enrich
  <2>2. r \in DOMAIN votes /\ moment' = moment
    BY <1>3 DEF Enrich, VotesInv
  <2>3. ASSUME NEW i \in DOMAIN votes
        PROVE  /\ votes'[i] \in VoteRows
               /\ votes'[i].score = votes[i].score /\ votes'[i].prompt = votes[i].prompt
               /\ votes'[i].style = votes[i].style /\ votes'[i].frame = votes[i].frame
               /\ votes'[i].createdAt = votes[i].createdAt /\ votes'[i].seen = votes[i].seen
    BY <1>0, <2>1, <2>2 DEF VoteRows
  <2>4. votes' \in Seq(VoteRows) /\ DOMAIN votes' = DOMAIN votes /\ Len(votes') = Len(votes)
    <3>1. votes' \in [1..Len(votes) -> VoteRows]
      BY <1>0, <2>1, <2>3
    <3> QED
      BY <1>0, <3>1
  <2>5. DuplicateVotesOverlap'
    BY <2>3, <2>4 DEF VotesInv, DuplicateVotesOverlap, SameVote
  <2>6. DOMAIN voter' = Voters /\ \A u \in Voters : voter'[u] = voter[u] \/ voter'[u].at = "recorded"
    BY <1>3 DEF Enrich, VotesInv
  <2> QED
    BY <2>2, <2>3, <2>4, <2>5, <2>6 DEF VotesInv, SameVote
<1>4. CASE Passes
  BY <1>0, <1>t, <1>4 DEF Passes, VotesInv, DuplicateVotesOverlap, SameVote
<1>5. CASE UNCHANGED feedbackVars
  BY <1>5 DEF feedbackVars, VotesInv, DuplicateVotesOverlap, SameVote
<1> QED
  BY <1>1, <1>2, <1>3, <1>4, <1>5 DEF FeedbackNext

LEMMA VotesInvHolds == FeedbackSpec => []VotesInv
<1>1. FeedbackInit => VotesInv
  BY DEF FeedbackInit, VotesInv, Ready, DuplicateVotesOverlap
<1> QED
  BY <1>1, VotesStep, PTL DEF FeedbackSpec

(* Only requests that overlap get past the look-up of addFeedback with a    *)
(* vote that is there already.                                              *)
THEOREM DuplicatesAlwaysOverlap == FeedbackSpec => []DuplicateVotesOverlap
<1>1. VotesInv => DuplicateVotesOverlap
  BY DEF VotesInv
<1> QED
  BY <1>1, VotesInvHolds, PTL

(* Advice is a matter of how many votes a style has: of any candidates at   *)
(* all, no more of them match than there are votes on the style.            *)
LEMMA AdviceFromVotes ==
  ASSUME votes \in Seq(VoteRows)
  PROVE  AdviceNeedsVotes
<1> SUFFICES ASSUME NEW style \in {votes[i].style : i \in DOMAIN votes}, NEW near \in Searches, NEW weak \in BOOLEAN
             PROVE  Advice(near, style, weak) = "none" <=> Cardinality(Counted(style)) < Enough
  BY DEF AdviceNeedsVotes
<1>1. Enough \in Nat \ {0} /\ SimilarityLimit \in Nat \ {0}
  BY FeedbackAssumption
<1>2. IsFiniteSet(Counted(style))
  <2>1. DOMAIN votes = 1..Len(votes) /\ Len(votes) \in Nat
    OBVIOUS
  <2>2. IsFiniteSet(DOMAIN votes)
    BY <2>1, FS_Interval
  <2> QED
    BY <2>2, FS_Subset DEF Counted
<1>3. ASSUME NEW S PROVE /\ Cardinality(S \cap Counted(style)) \in Nat
                         /\ Cardinality(S \cap Counted(style)) <= Cardinality(Counted(style))
  <2>1. S \cap Counted(style) \subseteq Counted(style)
    OBVIOUS
  <2> QED
    BY <1>2, <2>1, FS_Subset, FS_CardinalityType
<1>4. Cardinality(Counted(style)) \in Nat
  BY <1>2, FS_CardinalityType
<1>5. Similar(near, style) \in Nat /\ Similar(near, style) <= Cardinality(Counted(style))
  <2> DEFINE exact == Least(SimilarityLimit, Cardinality(Vectors \cap Counted(style)))
  <2>1. exact \in Nat /\ exact <= Cardinality(Counted(style))
    <3>1. /\ Cardinality(Vectors \cap Counted(style)) \in Nat
          /\ Cardinality(Vectors \cap Counted(style)) <= Cardinality(Counted(style))
      BY <1>3
    <3> QED
      BY <1>1, <1>4, <3>1 DEF Least
  <2>2. Matches(near, style) \in Nat /\ Matches(near, style) <= Cardinality(Counted(style))
    <3>1. /\ Cardinality(near \cap Counted(style)) \in Nat
          /\ Cardinality(near \cap Counted(style)) <= Cardinality(Counted(style))
      BY <1>3
    <3> QED
      BY <1>1, <1>4, <3>1 DEF Matches, Least
  <2>3. Similar(near, style) \in {exact, Matches(near, style)}
    BY DEF Similar
  <2> QED
    BY <2>1, <2>2, <2>3
<1> QED
  BY <1>1, <1>4, <1>5 DEF Advice, Aggregate

(* Whatever has been voted, advice on a style needs enough votes on it and   *)
(* nothing else.                                                             *)
THEOREM AdviceAlwaysNeedsVotes == FeedbackSpec => []AdviceNeedsVotes
<1>1. VotesInv => AdviceNeedsVotes
  BY AdviceFromVotes DEF VotesInv
<1> QED
  BY <1>1, VotesInvHolds, PTL

-----------------------------------------------------------------------------
(* The types of the votes and of the requests: a row has been looked up for *)
(* among the rows before it, and a request is where addFeedback can be.     *)
VotersAt == {"ready", "ignored", "insert", "enrich", "recorded"}

LookedBack ==
  /\ moment \in 0 .. MaxMoment
  /\ \A i \in DOMAIN votes : votes[i].seen <= i - 1
  /\ \A v \in Voters : voter[v].at \in VotersAt

LEMMA LookedBackStep == VotesInv /\ LookedBack /\ [FeedbackNext]_feedbackVars => LookedBack'
<1> SUFFICES ASSUME VotesInv, LookedBack, [FeedbackNext]_feedbackVars PROVE LookedBack'
  OBVIOUS
<1>0. /\ votes \in Seq(VoteRows) /\ Len(votes) \in Nat /\ DOMAIN votes = 1..Len(votes)
      /\ DOMAIN voter = Voters /\ MaxMoment \in Nat
  BY FeedbackAssumption DEF VotesInv
<1> USE DEF LookedBack, VotersAt
<1>1. ASSUME NEW v \in Voters, LookUp(v) PROVE LookedBack'
  BY <1>0, <1>1 DEF LookUp
<1>2. ASSUME NEW v \in Voters, Insert(v) PROVE LookedBack'
  <2>1. voter[v].seen \in Nat /\ voter[v].seen <= Len(votes)
    BY <1>2 DEF Insert, VotesInv, Inserting
  <2>2. /\ votes' = Append(votes, Row(voter[v].ballot, voter[v].seen))
        /\ Row(voter[v].ballot, voter[v].seen).seen = voter[v].seen
    BY <1>2 DEF Insert, Row
  <2>3. \A i \in DOMAIN votes' : votes'[i].seen <= i - 1
    BY <1>0, <2>1, <2>2
  <2>4. \A u \in Voters : voter'[u].at \in VotersAt
    BY <1>0, <1>2 DEF Insert
  <2> QED
    BY <1>2, <2>3, <2>4 DEF Insert
<1>3. ASSUME NEW v \in Voters, Enrich(v) PROVE LookedBack'
  <2>1. DOMAIN votes' = DOMAIN votes /\ \A i \in DOMAIN votes : votes'[i].seen = votes[i].seen
    <3>1. PICK stored \in BOOLEAN : votes' = [votes EXCEPT ![voter[v].row].embedded = stored]
      BY <1>3 DEF Enrich
    <3>2. \A i \in DOMAIN votes : votes[i] \in VoteRows
      BY <1>0
    <3> QED
      BY <3>1, <3>2 DEF VoteRows
  <2>2. \A u \in Voters : voter'[u].at \in VotersAt
    BY <1>0, <1>3 DEF Enrich
  <2> QED
    BY <1>3, <2>1, <2>2 DEF Enrich
<1>4. CASE Passes
  BY <1>0, <1>4 DEF Passes
<1>5. CASE UNCHANGED feedbackVars
  BY <1>5 DEF feedbackVars
<1> QED
  BY <1>1, <1>2, <1>3, <1>4, <1>5 DEF FeedbackNext

(* Feedback!FeedbackTypeOK holds throughout.                                *)
LEMMA FeedbackTyped == FeedbackSpec => []FeedbackTypeOK
<1>1. FeedbackInit => LookedBack
  BY FeedbackAssumption DEF FeedbackInit, LookedBack, VotersAt, Ready
<1>2. VotesInv /\ LookedBack => FeedbackTypeOK
  <2> SUFFICES ASSUME VotesInv, LookedBack PROVE FeedbackTypeOK
    OBVIOUS
  <2>1. \A i \in DOMAIN votes : i \in Nat \ {0} /\ votes[i] \in VoteRows /\ votes[i].createdAt <= moment
    BY DEF VotesInv
  <2>2. \A i \in DOMAIN votes : /\ votes[i].createdAt \in 0 .. moment /\ votes[i].embedded \in BOOLEAN
                                /\ votes[i].seen \in 0 .. i - 1
    BY <2>1 DEF VoteRows, VotesInv, LookedBack
  <2> QED
    BY <2>2 DEF LookedBack, VotersAt, FeedbackTypeOK
<1> QED
  BY <1>1, <1>2, LookedBackStep, VotesInvHolds, PTL DEF FeedbackSpec


-----------------------------------------------------------------------------
(***************************************************************************)
(* The page shows the stream of its own project, for any projects, any     *)
(* number of connections and messages.  A connection whose client is alive *)
(* is the one on the screen, its greeting comes before everything else and *)
(* is heard once, so the room is asked for once: no answer on its way can  *)
(* be overtaken by another.                                                *)
(***************************************************************************)

Says == {"welcome", "unauthorized", "bye", "granted", "refused", "event"}
Messages == [say : Says, project : Shown \cup {Nothing}, slot : Slots]
Lines == [project : Shown \cup {Nothing}, admitted : BOOLEAN, client : {"unused", "live", "gone"},
          server : {"none", "open", "closed", "refused"}, joined : BOOLEAN, lookup : BOOLEAN]
Screens == [project : Shown, conn : 0..MaxConnections, isConnected : BOOLEAN]

StreamTypes ==
  /\ line \in [Connections -> Lines]
  /\ up \in [Connections -> Seq({"join", "leave", "bye"})]
  /\ down \in [Connections -> Seq(Messages)]
  /\ screen \in Screens
  /\ stream \in [Slots -> Shown \cup {Nothing}]
  /\ active \in Nat

Said(c, word) == \E i \in DOMAIN down[c] : down[c][i].say = word
Waits(c) == up[c] # <<>> \/ line[c].lookup

(* A connection not opened has nothing on its way, and one that the gateway  *)
(* has not met yet neither.                                                  *)
Unheard(c) == line[c].client = "unused" => line[c] = Unopened /\ up[c] = <<>> /\ down[c] = <<>>
Early(c) == line[c].server = "none" => up[c] = <<>> /\ down[c] = <<>> /\ ~line[c].joined /\ ~line[c].lookup

(* One greeting, one request, one answer.                                    *)
AsksOnce(c) ==
  line[c].client = "live" =>
    /\ c = screen.conn /\ line[c].project = screen.project
    /\ up[c] = <<>> \/ (up[c] = <<"join">> /\ ~line[c].lookup)
    /\ \A i \in DOMAIN down[c] : down[c][i].say = "welcome" => i = 1 /\ ~Waits(c)
    /\ Said(c, "granted") \/ line[c].joined => ~Waits(c) /\ ~Said(c, "welcome")
    /\ Said(c, "granted") => line[c].joined \/ line[c].server = "closed"
    /\ \A i \in DOMAIN down[c] : down[c][i].say = "event" => down[c][i].project = line[c].project

ConnectionInv(c) == Unheard(c) /\ Early(c) /\ AsksOnce(c)

ConnectedInv ==
  screen.isConnected =>
    /\ screen.conn \in Connections /\ line[screen.conn].client = "live"
    /\ ~Waits(screen.conn) /\ ~Said(screen.conn, "welcome")
    /\ line[screen.conn].joined \/ line[screen.conn].server = "closed"

StreamInv ==
  /\ StreamTypes
  /\ \A c \in Connections : ConnectionInv(c)
  /\ ConnectedInv
  /\ \A s \in Slots : stream[s] \in {Nothing, screen.project}

(* What is sent comes after what has been sent.                              *)
LEMMA SendAppends ==
  ASSUME StreamTypes, NEW c \in Connections, NEW words \in Seq(Says), Send(c, words)
  PROVE  /\ down' \in [Connections -> Seq(Messages)]
         /\ \A d \in Connections : d # c \/ ~Hears(c) => down'[d] = down[d]
         /\ \A i \in DOMAIN down'[c] :
               \/ i \in DOMAIN down[c] /\ down'[c][i] = down[c][i]
               \/ \E k \in DOMAIN words : i = Len(down[c]) + k /\ down'[c][i].say = words[k]
<1> DEFINE sent == [i \in DOMAIN words |-> Word(words[i])]
<1>1. sent \in Seq(Messages) /\ DOMAIN sent = DOMAIN words /\ Len(sent) = Len(words)
  <2>1. \A i \in DOMAIN words : Word(words[i]) \in Messages
    BY StreamAssumption DEF Word, Messages, Slots
  <2> QED
    BY <2>1
<1>2. \A k \in DOMAIN words : sent[k].say = words[k]
  BY DEF Word
<1>3. down[c] \in Seq(Messages)
  BY DEF StreamTypes
<1> HIDE DEF sent
<1>4. CASE ~Hears(c)
  BY <1>4 DEF Send, StreamTypes
<1>5. CASE Hears(c)
  <2>1. down' = [down EXCEPT ![c] = down[c] \o sent]
    BY <1>5 DEF Send, sent
  <2>2. down[c] \o sent \in Seq(Messages) /\ Len(down[c] \o sent) = Len(down[c]) + Len(words)
    BY ONLY <1>1, <1>3
  <2>3. ASSUME NEW i \in DOMAIN (down[c] \o sent)
        PROVE  \/ i \in DOMAIN down[c] /\ (down[c] \o sent)[i] = down[c][i]
               \/ \E k \in DOMAIN words : i = Len(down[c]) + k /\ (down[c] \o sent)[i] = sent[k]
    <3>1. CASE i <= Len(down[c])
      BY <1>1, <1>3, <3>1
    <3>2. CASE ~(i <= Len(down[c]))
      <4>1. i - Len(down[c]) \in DOMAIN words /\ i = Len(down[c]) + (i - Len(down[c]))
        BY <1>1, <1>3, <2>2, <3>2
      <4>2. (down[c] \o sent)[i] = sent[i - Len(down[c])]
        BY <1>1, <1>3, <2>2, <3>2
      <4> QED
        BY <4>1, <4>2
    <3> QED
      BY <3>1, <3>2
  <2>4. down' \in [Connections -> Seq(Messages)] /\ down'[c] = down[c] \o sent
        /\ \A d \in Connections : d # c => down'[d] = down[d]
    BY <2>1, <2>2 DEF StreamTypes
  <2>5. ASSUME NEW i \in DOMAIN down'[c]
        PROVE  \/ i \in DOMAIN down[c] /\ down'[c][i] = down[c][i]
               \/ \E k \in DOMAIN words : i = Len(down[c]) + k /\ down'[c][i].say = words[k]
    <3>1. CASE i \in DOMAIN down[c] /\ down'[c][i] = down[c][i]
      BY <3>1
    <3>2. ASSUME NEW k \in DOMAIN words, i = Len(down[c]) + k, down'[c][i] = sent[k]
          PROVE  down'[c][i].say = words[k]
      BY <1>2, <3>2
    <3> QED
      BY <2>3, <2>4, <3>1, <3>2
  <2> QED
    BY <1>5, <2>4, <2>5
<1> QED
  BY <1>4, <1>5

LEMMA TailsFollow ==
  ASSUME NEW S, NEW q \in Seq(S), q # <<>>
  PROVE  /\ Tail(q) \in Seq(S) /\ Head(q) = q[1] /\ Head(q) \in S /\ 1 \in DOMAIN q
         /\ \A i \in DOMAIN Tail(q) : i + 1 \in DOMAIN q /\ Tail(q)[i] = q[i + 1] /\ i + 1 # 1
OBVIOUS

(* A connection that nothing happened to.                                    *)
LEMMA Untouched ==
  ASSUME NEW d \in Connections, ConnectionInv(d), line'[d] = line[d], up'[d] = up[d], down'[d] = down[d],
         line[d].client = "live" => screen'.conn = screen.conn /\ screen'.project = screen.project
  PROVE  ConnectionInv(d)'
BY DEF ConnectionInv, Unheard, Early, AsksOnce, Said, Waits

(* After the cleanup no client is alive.                                     *)
LEMMA CleanedUp ==
  ASSUME StreamInv, CleanUp, screen' \in Screens, ~screen'.isConnected,
         stream' \in [Slots -> Shown \cup {Nothing}], active' \in Nat,
         \A s \in Slots : stream'[s] \in {Nothing, screen'.project}
  PROVE  StreamInv'
<1>0. screen.conn = 0 \/ screen.conn \in Connections
  BY StreamAssumption DEF StreamInv, StreamTypes, Screens, Connections
<1>1. CASE screen.conn = 0
  <2>1. \A d \in Connections : line[d].client # "live" /\ line'[d] = line[d] /\ up'[d] = up[d] /\ down'[d] = down[d]
    BY <1>1 DEF CleanUp, StreamInv, ConnectionInv, AsksOnce, Connections
  <2>2. \A d \in Connections : ConnectionInv(d)'
    BY <2>1, Untouched DEF StreamInv
  <2> QED
    BY <1>1, <2>2 DEF CleanUp, StreamInv, StreamTypes, ConnectedInv
<1>2. ASSUME NEW c \in Connections, c = screen.conn PROVE StreamInv'
  <2>0. c # 0
    BY <1>2 DEF Connections
  <2>1. /\ line' = [line EXCEPT ![c].client = "gone"] /\ down' = [down EXCEPT ![c] = <<>>]
        /\ up' = IF line[c].server = "open" THEN [up EXCEPT ![c] = @ \o <<"leave", "bye">>] ELSE up
    BY <1>2, <2>0 DEF CleanUp
  <2>2. StreamTypes'
    <3>1. line' \in [Connections -> Lines]
      <4>1. line \in [Connections -> Lines] /\ line[c] \in Lines
        BY <1>2 DEF StreamInv, StreamTypes
      <4>2. [line[c] EXCEPT !.client = "gone"] \in Lines
        BY ONLY <4>1 DEF Lines
      <4>3. line' = [line EXCEPT ![c] = [line[c] EXCEPT !.client = "gone"]]
        BY <2>1
      <4> QED
        BY ONLY <1>2, <4>1, <4>2, <4>3
    <3>2. down' \in [Connections -> Seq(Messages)]
      BY <1>2, <2>1 DEF StreamInv, StreamTypes
    <3>3. up[c] \o <<"leave", "bye">> \in Seq({"join", "leave", "bye"})
      BY <1>2 DEF StreamInv, StreamTypes
    <3>4. up' \in [Connections -> Seq({"join", "leave", "bye"})]
      BY <1>2, <2>1, <3>3 DEF StreamInv, StreamTypes
    <3> QED
      BY <3>1, <3>2, <3>4 DEF StreamTypes
  <2>3. /\ line'[c].client = "gone" /\ line'[c].server = line[c].server /\ down'[c] = <<>>
        /\ line'[c].joined = line[c].joined /\ line'[c].lookup = line[c].lookup
        /\ line[c].server # "open" => up'[c] = up[c]
    BY <1>2, <2>1 DEF StreamInv, StreamTypes, Lines
  <2>4. ConnectionInv(c)'
    BY <1>2, <2>3 DEF StreamInv, ConnectionInv, Unheard, Early, AsksOnce
  <2>5. ASSUME NEW d \in Connections, d # c PROVE ConnectionInv(d)'
    <3>1. line'[d] = line[d] /\ up'[d] = up[d] /\ down'[d] = down[d] /\ ConnectionInv(d) /\ line[d].client # "live"
      BY <1>2, <2>1, <2>5 DEF StreamInv, StreamTypes, ConnectionInv, AsksOnce
    <3> QED
      BY <3>1, Untouched
  <2> QED
    BY <2>2, <2>4, <2>5 DEF StreamInv, ConnectedInv
<1> QED
  BY <1>0, <1>1, <1>2

(* A step of one connection, which leaves the page where it is.              *)
LEMMA OneConnectionMoves ==
  ASSUME StreamInv, StreamTypes', NEW c \in Connections, ConnectionInv(c)',
         \A d \in Connections : d # c => line'[d] = line[d] /\ up'[d] = up[d] /\ down'[d] = down[d],
         screen' = screen, screen.isConnected /\ screen.conn = c => ConnectedInv',
         \A s \in Slots : stream'[s] \in {Nothing, screen.project}
  PROVE  StreamInv'
<1>1. ASSUME NEW d \in Connections PROVE ConnectionInv(d)'
  BY <1>1, Untouched DEF StreamInv
<1>2. ConnectedInv'
  BY DEF StreamInv, ConnectedInv, Waits, Said
<1> QED
  BY <1>1, <1>2 DEF StreamInv

(* The lines that the steps write.                                           *)
LEMMA LineWrites ==
  ASSUME NEW l \in Lines, NEW q \in Shown, NEW b \in BOOLEAN, NEW w \in {"none", "open", "closed", "refused"}
  PROVE  /\ [l EXCEPT !.project = q, !.admitted = b, !.client = "live"] \in Lines
         /\ [l EXCEPT !.client = "gone"] \in Lines
         /\ [l EXCEPT !.server = w] \in Lines
         /\ [l EXCEPT !.server = "closed", !.joined = FALSE] \in Lines
         /\ [l EXCEPT !.lookup = b] \in Lines
         /\ [l EXCEPT !.joined = b] \in Lines
         /\ [l EXCEPT !.lookup = FALSE, !.joined = b] \in Lines
<1>1. [l EXCEPT !.project = q, !.admitted = b, !.client = "live"] \in Lines
  BY DEF Lines
<1>2. [l EXCEPT !.client = "gone"] \in Lines
  BY DEF Lines
<1>3. [l EXCEPT !.server = w] \in Lines
  BY DEF Lines
<1>4. [l EXCEPT !.server = "closed", !.joined = FALSE] \in Lines
  BY DEF Lines
<1>5. [l EXCEPT !.lookup = b] \in Lines /\ [l EXCEPT !.joined = b] \in Lines
  BY DEF Lines
<1>6. [l EXCEPT !.lookup = FALSE, !.joined = b] \in Lines
  BY DEF Lines
<1> QED
  BY <1>1, <1>2, <1>3, <1>4, <1>5, <1>6

LEMMA StreamStep == StreamInv /\ [EventsNext]_eventVars => StreamInv'
<1> SUFFICES ASSUME StreamInv, [EventsNext]_eventVars PROVE StreamInv'
  OBVIOUS
<1>0. /\ StreamTypes /\ \A c \in Connections : ConnectionInv(c)
      /\ 0 \notin Connections /\ Connections \subseteq 0..MaxConnections
      /\ Own \subseteq Shown /\ 0 \in Slots /\ 0 \in 0..MaxConnections
  BY StreamAssumption DEF StreamInv, Connections, Slots
<1>l. (\A c \in Connections : line[c] \in Lines) /\ screen \in Screens /\ screen.project \in Shown
  BY <1>0 DEF StreamTypes, Screens
<1>1. ASSUME Connect PROVE StreamInv'
  <2>1. PICK c \in Connections, admitted \in BOOLEAN :
          /\ NextSocket(c)
          /\ line' = Opened(line, c, screen.project, admitted)
          /\ screen' = [screen EXCEPT !.conn = c]
    BY <1>1 DEF Connect
  <2>2. screen.conn = 0 /\ up' = up /\ down' = down /\ stream' = stream /\ active' = active
    BY <1>1 DEF Connect
  <2>3. /\ screen' \in Screens /\ screen'.conn = c /\ screen'.project = screen.project
        /\ screen'.isConnected = screen.isConnected
    BY <1>0, <2>1 DEF StreamTypes, Screens
  <2>4. line[c] = Unopened /\ line[c].client = "unused" /\ up[c] = <<>> /\ down[c] = <<>>
    BY <1>0, <2>1 DEF NextSocket, Unopened, ConnectionInv, Unheard
  <2>5. /\ line' \in [Connections -> Lines] /\ line'[c].client = "live" /\ line'[c].project = screen.project
        /\ ~line'[c].joined /\ ~line'[c].lookup
        /\ \A d \in Connections : d # c => line'[d] = line[d]
    <3>1. [line[c] EXCEPT !.project = screen.project, !.admitted = admitted, !.client = "live"] \in Lines
      BY <1>l, LineWrites
    <3> QED
      BY <1>0, <2>1, <2>4, <3>1 DEF StreamTypes, Opened, Unopened, Lines
  <2>6. ASSUME NEW d \in Connections, d # c PROVE ConnectionInv(d)'
    <3>1. line[d].client # "live"
      BY <1>0, <2>2 DEF ConnectionInv, AsksOnce
    <3> QED
      BY <1>0, <2>2, <2>5, <2>6, <3>1, Untouched
  <2>7. ConnectionInv(c)'
    BY <2>2, <2>3, <2>4, <2>5 DEF ConnectionInv, Unheard, Early, AsksOnce, Waits, Said
  <2>8. ~screen.isConnected
    BY <1>0, <2>2 DEF StreamInv, ConnectedInv
  <2> QED
    BY <2>2, <2>3, <2>5, <2>6, <2>7, <2>8 DEF StreamInv, StreamTypes, ConnectedInv
<1>2. ASSUME StopWatching PROVE StreamInv'
  <2>1. screen' \in Screens /\ ~screen'.isConnected /\ screen'.project = screen.project
    BY <1>0, <1>l, <1>2 DEF StopWatching, Screens
  <2> QED
    BY <1>0, <1>2, <2>1, CleanedUp DEF StopWatching, StreamInv, StreamTypes
<1>3. ASSUME NEW p \in Shown, Show(p) PROVE StreamInv'
  <2>1. screen' \in Screens /\ ~screen'.isConnected
    BY <1>3, StreamAssumption DEF Show, Screens
  <2> QED
    BY <1>0, <1>3, <2>1, CleanedUp DEF Show, StreamInv, StreamTypes
<1>4. ASSUME NEW c \in Connections, Hear(c) PROVE StreamInv'
  <2> DEFINE word == Head(down[c]).say
  <2>1. /\ line[c].client = "live" /\ c = screen.conn /\ down[c] # <<>> /\ down[c] \in Seq(Messages) /\ word # "event"
        /\ down' = [down EXCEPT ![c] = Tail(down[c])]
        /\ screen' = [screen EXCEPT !.isConnected = word = "granted"]
        /\ up' = IF word = "welcome" /\ line[c].server = "open" THEN [up EXCEPT ![c] = Append(@, "join")] ELSE up
        /\ line' = IF word = "bye" THEN [line EXCEPT ![c].client = "gone"] ELSE line
        /\ stream' = stream /\ active' = active
    BY <1>0, <1>4 DEF Hear, Hears, StreamTypes, ConnectionInv, AsksOnce
  <2>2. /\ Tail(down[c]) \in Seq(Messages) /\ 1 \in DOMAIN down[c] /\ down[c][1].say = word
        /\ \A i \in DOMAIN Tail(down[c]) : i + 1 \in DOMAIN down[c] /\ Tail(down[c])[i] = down[c][i + 1] /\ i + 1 # 1
    BY <2>1, TailsFollow
  <2>3. /\ down' \in [Connections -> Seq(Messages)] /\ down'[c] = Tail(down[c])
        /\ \A d \in Connections : d # c => down'[d] = down[d]
    BY <1>0, <2>1, <2>2 DEF StreamTypes
  <2>4. /\ screen' \in Screens /\ screen'.conn = screen.conn /\ screen'.project = screen.project
        /\ screen'.isConnected => word = "granted"
    BY <1>0, <2>1 DEF StreamTypes, Screens
  <2>5. Said(c, word)
    BY <2>2 DEF Said
  <2>6. \A w : Said(c, w)' => Said(c, w)
    BY <2>2, <2>3 DEF Said
  <2>7. ~Said(c, "welcome")'
    BY <1>0, <2>1, <2>2, <2>3 DEF Said, ConnectionInv, AsksOnce
  <2>8. CASE word = "bye"
    <3>1. line' \in [Connections -> Lines] /\ line'[c].client = "gone" /\ line'[c].server = line[c].server
          /\ \A d \in Connections : d # c => line'[d] = line[d]
      <4>1. line' = [line EXCEPT ![c] = [line[c] EXCEPT !.client = "gone"]]
        BY <2>1, <2>8
      <4>2. [line[c] EXCEPT !.client = "gone"] \in Lines
        BY <1>l, LineWrites
      <4>3. [line[c] EXCEPT !.client = "gone"].client = "gone" /\ [line[c] EXCEPT !.client = "gone"].server = line[c].server
        BY <1>l DEF Lines
      <4> QED
        BY <1>0, <4>1, <4>2, <4>3 DEF StreamTypes
    <3>2. ConnectionInv(c)'
      BY <1>0, <2>1, <2>8, <3>1 DEF ConnectionInv, Unheard, Early, AsksOnce
    <3>3. \A d \in Connections : ConnectionInv(d)'
      BY <1>0, <2>1, <2>3, <2>4, <2>8, <3>1, <3>2, Untouched
    <3> QED
      BY <1>0, <2>1, <2>3, <2>4, <2>8, <3>1, <3>3 DEF StreamInv, StreamTypes, ConnectedInv
  <2>9. CASE word = "welcome"
    <3>1. up[c] = <<>> /\ ~line[c].lookup /\ ~line[c].joined /\ ~Said(c, "granted")
      BY <1>0, <2>1, <2>2, <2>5, <2>9 DEF ConnectionInv, AsksOnce, Waits
    <3>2. /\ up' \in [Connections -> Seq({"join", "leave", "bye"})]
          /\ up'[c] = <<>> \/ (up'[c] = <<"join">> /\ line[c].server = "open")
          /\ \A d \in Connections : d # c => up'[d] = up[d]
      <4>1. Append(up[c], "join") = <<"join">> /\ Append(up[c], "join") \in Seq({"join", "leave", "bye"})
        BY <3>1
      <4> QED
        BY <1>0, <2>1, <2>9, <3>1, <4>1 DEF StreamTypes
    <3>3. line' = line
      BY <2>1, <2>9
    <3>4. ConnectionInv(c)'
      <4>1. Unheard(c)' /\ Early(c)'
        BY <1>0, <2>1, <3>3 DEF ConnectionInv, Unheard, Early
      <4>2. c = screen.conn /\ line[c].project = screen.project
        BY <1>0, <2>1 DEF ConnectionInv, AsksOnce
      <4>3. ~Said(c, "granted")'
        BY <2>6, <3>1
      <4>4. ASSUME NEW i \in DOMAIN down'[c]
            PROVE  down'[c][i].say # "welcome" /\ (down'[c][i].say = "event" => down'[c][i].project = line[c].project)
        <5>1. i + 1 \in DOMAIN down[c] /\ down'[c][i] = down[c][i + 1]
          BY ONLY <2>2, <2>3, <4>4
        <5>2. \A k \in DOMAIN down[c] : down[c][k].say = "event" => down[c][k].project = line[c].project
          BY <1>0, <2>1 DEF ConnectionInv, AsksOnce
        <5>3. down'[c][i].say # "welcome"
          BY ONLY <2>7, <4>4 DEF Said
        <5> QED
          BY ONLY <5>1, <5>2, <5>3
      <4>5. AsksOnce(c)'
        BY ONLY <2>4, <2>7, <3>1, <3>2, <3>3, <4>2, <4>3, <4>4 DEF AsksOnce
      <4> QED
        BY <4>1, <4>5 DEF ConnectionInv
    <3>5. \A d \in Connections : ConnectionInv(d)'
      BY <1>0, <2>3, <2>4, <3>2, <3>3, <3>4, Untouched
    <3> QED
      BY <1>0, <2>1, <2>3, <2>4, <2>9, <3>2, <3>3, <3>5 DEF StreamInv, StreamTypes, ConnectedInv
  <2>10. CASE word \notin {"bye", "welcome"}
    <3>1. up' = up /\ line' = line
      BY <2>1, <2>10
    <3>2. ConnectionInv(c)'
      <4>1. Unheard(c)' /\ Early(c)'
        BY <1>0, <2>1, <3>1 DEF ConnectionInv, Unheard, Early
      <4>2. AsksOnce(c)'
        <5>1. AsksOnce(c)
          BY <1>0 DEF ConnectionInv
        <5>2. \A i \in DOMAIN down'[c] : i + 1 \in DOMAIN down[c] /\ down'[c][i] = down[c][i + 1]
          BY ONLY <2>2, <2>3
        <5>3. \A i \in DOMAIN down'[c] :
                 /\ down'[c][i].say # "welcome"
                 /\ down'[c][i].say = "event" => down'[c][i].project = line[c].project
          BY ONLY <2>1, <2>7, <5>1, <5>2 DEF AsksOnce, Said
        <5> QED
          BY ONLY <2>1, <2>4, <2>6, <2>7, <3>1, <5>1, <5>3 DEF AsksOnce, Waits
      <4> QED
        BY <4>1, <4>2 DEF ConnectionInv
    <3>3. \A d \in Connections : ConnectionInv(d)'
      BY <1>0, <2>3, <2>4, <3>1, <3>2, Untouched
    <3>4. ConnectedInv'
      BY <1>0, <2>1, <2>4, <2>5, <2>7, <3>1 DEF ConnectedInv, ConnectionInv, AsksOnce, Waits
    <3> QED
      BY <1>0, <2>1, <2>3, <2>4, <3>1, <3>3, <3>4 DEF StreamInv, StreamTypes
  <2> QED
    BY <2>8, <2>9, <2>10
<1>5. ASSUME NEW c \in Connections, HearEvent(c) PROVE StreamInv'
  <2> DEFINE event == Head(down[c])
  <2>1. /\ line[c].client = "live" /\ down[c] # <<>> /\ down[c] \in Seq(Messages) /\ event.say = "event"
        /\ down' = [down EXCEPT ![c] = Tail(down[c])]
        /\ stream' = [stream EXCEPT ![event.slot] = IF event.slot = 0 \/ @ = Nothing THEN event.project ELSE @]
        /\ line' = line /\ up' = up /\ screen' = screen /\ active' = active
    BY <1>0, <1>5 DEF HearEvent, Hears, StreamTypes
  <2>2. /\ Tail(down[c]) \in Seq(Messages) /\ 1 \in DOMAIN down[c] /\ down[c][1] = event /\ event \in Messages
        /\ \A i \in DOMAIN Tail(down[c]) : i + 1 \in DOMAIN down[c] /\ Tail(down[c])[i] = down[c][i + 1] /\ i + 1 # 1
    BY <2>1, TailsFollow
  <2>3. /\ down' \in [Connections -> Seq(Messages)] /\ down'[c] = Tail(down[c])
        /\ \A d \in Connections : d # c => down'[d] = down[d]
    BY <1>0, <2>1, <2>2 DEF StreamTypes
  <2>4. event.project = screen.project /\ event.slot \in Slots
    BY <1>0, <2>1, <2>2 DEF ConnectionInv, AsksOnce, Messages
  <2>5. /\ stream' \in [Slots -> Shown \cup {Nothing}]
        /\ \A s \in Slots : stream'[s] \in {Nothing, screen.project}
    BY <1>0, <2>1, <2>4 DEF StreamInv, StreamTypes, Screens
  <2>6. StreamTypes'
    BY <1>0, <2>1, <2>3, <2>5 DEF StreamTypes
  <2>7. \A w : Said(c, w)' => Said(c, w)
    BY <2>2, <2>3 DEF Said
  <2>8. ConnectionInv(c)'
    BY <1>0, <2>1, <2>2, <2>3, <2>7 DEF ConnectionInv, Unheard, Early, AsksOnce, Waits
  <2>9. screen.isConnected /\ screen.conn = c => ConnectedInv'
    BY <2>1, <2>7 DEF StreamInv, ConnectedInv, Waits
  <2> QED
    BY <2>1, <2>3, <2>5, <2>6, <2>8, <2>9, OneConnectionMoves
<1>6. ASSUME NEW c \in Connections, ClientLoses(c) PROVE StreamInv'
  <2>1. PICK n \in Connections :
          /\ NextSocket(n)
          /\ line' = Opened([line EXCEPT ![c].client = "gone"], n, line[c].project, line[c].admitted)
          /\ screen' = [screen EXCEPT !.conn = n, !.isConnected = FALSE]
    BY <1>6 DEF ClientLoses
  <2>2. /\ line[c].client = "live" /\ c = screen.conn
        /\ up' = [up EXCEPT ![c] = <<>>] /\ down' = [down EXCEPT ![c] = <<>>]
        /\ stream' = stream /\ active' = active
    BY <1>6 DEF ClientLoses
  <2>3. /\ line[n] = Unopened /\ line[n].client = "unused" /\ up[n] = <<>> /\ down[n] = <<>> /\ n # c
    BY <1>0, <2>1, <2>2 DEF NextSocket, Unopened, ConnectionInv, Unheard
  <2>4. /\ screen' \in Screens /\ screen'.conn = n /\ screen'.project = screen.project /\ ~screen'.isConnected
    BY <1>0, <1>l, <2>1 DEF Screens
  <2>5. line[c].project = screen.project /\ line[c].admitted \in BOOLEAN
    <3>1. line[c].project = screen.project
      BY <1>0, <2>2 DEF ConnectionInv, AsksOnce
    <3>2. line[c].admitted \in BOOLEAN
      BY <1>l DEF Lines
    <3> QED
      BY <3>1, <3>2
  <2>6. line' = [line EXCEPT ![c] = [line[c] EXCEPT !.client = "gone"],
                             ![n] = [line[n] EXCEPT !.project = screen.project, !.admitted = line[c].admitted,
                                                    !.client = "live"]]
    BY <1>0, <2>1, <2>3, <2>5 DEF Opened, StreamTypes
  <2>7. /\ line' \in [Connections -> Lines]
        /\ line'[c] = [line[c] EXCEPT !.client = "gone"]
        /\ line'[n] = [line[n] EXCEPT !.project = screen.project, !.admitted = line[c].admitted, !.client = "live"]
        /\ \A d \in Connections : d \notin {c, n} => line'[d] = line[d]
    <3>1. /\ [line[c] EXCEPT !.client = "gone"] \in Lines
          /\ [line[n] EXCEPT !.project = screen.project, !.admitted = line[c].admitted, !.client = "live"] \in Lines
      BY <1>l, <2>5, LineWrites
    <3> QED
      BY <1>0, <2>3, <2>6, <3>1 DEF StreamTypes
  <2>8. /\ up' \in [Connections -> Seq({"join", "leave", "bye"})] /\ down' \in [Connections -> Seq(Messages)]
        /\ up'[c] = <<>> /\ down'[c] = <<>>
        /\ \A d \in Connections : d # c => up'[d] = up[d] /\ down'[d] = down[d]
    BY <1>0, <2>2 DEF StreamTypes
  <2>9. /\ line'[c].client = "gone" /\ line'[c].server = line[c].server
        /\ line'[c].joined = line[c].joined /\ line'[c].lookup = line[c].lookup
    <3>1. line[c] \in Lines /\ line'[c] = [line[c] EXCEPT !.client = "gone"]
      BY <1>l, <2>7
    <3> QED
      BY ONLY <3>1 DEF Lines
  <2>10. /\ line'[n].client = "live" /\ line'[n].project = screen.project
         /\ ~line'[n].joined /\ ~line'[n].lookup
    BY <2>3, <2>7 DEF Unopened
  <2>11. ConnectionInv(c)'
    BY <1>0, <2>8, <2>9 DEF ConnectionInv, Unheard, Early, AsksOnce
  <2>12. ConnectionInv(n)'
    BY <2>3, <2>4, <2>8, <2>10 DEF ConnectionInv, Unheard, Early, AsksOnce, Waits, Said
  <2>13. ASSUME NEW d \in Connections, d \notin {c, n} PROVE ConnectionInv(d)'
    <3>1. line[d].client # "live"
      BY <1>0, <2>2, <2>13 DEF ConnectionInv, AsksOnce
    <3> QED
      BY <1>0, <2>7, <2>8, <2>13, <3>1, Untouched
  <2> QED
    BY <1>0, <2>2, <2>4, <2>7, <2>8, <2>11, <2>12, <2>13 DEF StreamInv, StreamTypes, ConnectedInv
<1>7. ASSUME NEW c \in Connections, HandleConnection(c) PROVE StreamInv'
  <2>1. /\ line[c].client # "unused" /\ line[c].server = "none" /\ up' = up /\ screen' = screen /\ stream' = stream
        /\ up[c] = <<>> /\ down[c] = <<>> /\ ~line[c].joined /\ ~line[c].lookup
    BY <1>0, <1>7 DEF HandleConnection, ConnectionInv, Early
  <2>2. PICK server \in {"open", "refused"}, words \in {<<"welcome">>, <<"welcome", "unauthorized", "bye">>} :
          line' = [line EXCEPT ![c] = [line[c] EXCEPT !.server = server]] /\ Send(c, words)
    BY <1>7 DEF HandleConnection
  <2>3. words \in Seq(Says) /\ \A k \in DOMAIN words : words[k] # "event" /\ words[k] # "granted" /\ (words[k] = "welcome" => k = 1)
    <3>1. CASE words = <<"welcome">>
      BY <3>1 DEF Says
    <3>2. CASE words = <<"welcome", "unauthorized", "bye">>
      BY <3>2 DEF Says
    <3> QED
      BY <2>2, <3>1, <3>2
  <2>4. /\ down' \in [Connections -> Seq(Messages)]
        /\ \A d \in Connections : d # c \/ ~Hears(c) => down'[d] = down[d]
        /\ \A i \in DOMAIN down'[c] : \E k \in DOMAIN words : i = Len(down[c]) + k /\ down'[c][i].say = words[k]
    <3>1. DOMAIN down[c] = {}
      BY <2>1
    <3>2. /\ down' \in [Connections -> Seq(Messages)]
          /\ \A d \in Connections : d # c \/ ~Hears(c) => down'[d] = down[d]
          /\ \A i \in DOMAIN down'[c] :
                \/ i \in DOMAIN down[c] /\ down'[c][i] = down[c][i]
                \/ \E k \in DOMAIN words : i = Len(down[c]) + k /\ down'[c][i].say = words[k]
      BY <1>0, <2>2, <2>3, SendAppends
    <3> QED
      BY <3>1, <3>2
  <2>5. /\ line' \in [Connections -> Lines] /\ line'[c].client = line[c].client /\ line'[c].project = line[c].project
        /\ line'[c].server = server /\ line'[c].joined = line[c].joined /\ line'[c].lookup = line[c].lookup
        /\ \A d \in Connections : d # c => line'[d] = line[d]
    <3>1. [line[c] EXCEPT !.server = server] \in Lines
      BY <1>l, <2>2, LineWrites
    <3>2. /\ line' \in [Connections -> Lines] /\ line'[c] = [line[c] EXCEPT !.server = server] /\ line[c] \in Lines
          /\ \A d \in Connections : d # c => line'[d] = line[d]
      BY <1>0, <1>l, <2>2, <3>1 DEF StreamTypes
    <3> QED
      BY ONLY <3>2 DEF Lines
  <2>6. \A i \in DOMAIN down'[c] : /\ down'[c][i].say # "event" /\ down'[c][i].say # "granted"
                                   /\ down'[c][i].say = "welcome" => i = 1
    BY <2>1, <2>3, <2>4
  <2>7. ConnectionInv(c)'
    BY <1>0, <2>1, <2>2, <2>5, <2>6 DEF ConnectionInv, Unheard, Early, AsksOnce, Waits, Said
  <2>8. active' \in Nat
    BY <1>0, <1>7 DEF HandleConnection, ConnectionClosed, StreamTypes
  <2>9. ~(screen.isConnected /\ screen.conn = c)
    BY <2>1 DEF StreamInv, ConnectedInv
  <2> QED
    BY <1>0, <2>1, <2>4, <2>5, <2>7, <2>8, <2>9, OneConnectionMoves DEF StreamInv, StreamTypes
<1>8. ASSUME NEW c \in Connections, HandleDisconnect(c) PROVE StreamInv'
  <2>1. /\ line[c].server = "open" /\ down' = down /\ screen' = screen /\ stream' = stream
        /\ up' = [up EXCEPT ![c] = <<>>]
        /\ line' = [line EXCEPT ![c] = [line[c] EXCEPT !.server = "closed", !.joined = FALSE]]
    BY <1>0, <1>8 DEF HandleDisconnect, StreamTypes
  <2>2. [line[c] EXCEPT !.server = "closed", !.joined = FALSE] \in Lines
    BY <1>l, LineWrites
  <2>3. /\ line' \in [Connections -> Lines] /\ line'[c].client = line[c].client /\ line'[c].project = line[c].project
        /\ line'[c].server = "closed" /\ ~line'[c].joined /\ line'[c].lookup = line[c].lookup
        /\ \A d \in Connections : d # c => line'[d] = line[d]
    <3>1. /\ line' \in [Connections -> Lines] /\ line[c] \in Lines
          /\ line'[c] = [line[c] EXCEPT !.server = "closed", !.joined = FALSE]
          /\ \A d \in Connections : d # c => line'[d] = line[d]
      BY <1>0, <1>l, <2>1, <2>2 DEF StreamTypes
    <3> QED
      BY ONLY <3>1 DEF Lines
  <2>4. /\ up' \in [Connections -> Seq({"join", "leave", "bye"})] /\ up'[c] = <<>>
        /\ \A d \in Connections : d # c => up'[d] = up[d]
    BY <1>0, <2>1 DEF StreamTypes
  <2>5. active' \in Nat
    BY <1>0, <1>8 DEF HandleDisconnect, ConnectionClosed, StreamTypes
  <2>6. ConnectionInv(c)'
    BY <1>0, <2>1, <2>3, <2>4 DEF ConnectionInv, Unheard, Early, AsksOnce, Waits, Said, Unopened
  <2>7. screen.isConnected /\ screen.conn = c => ConnectedInv'
    BY <2>1, <2>3, <2>4 DEF StreamInv, ConnectedInv, Waits, Said
  <2> QED
    BY <1>0, <2>1, <2>3, <2>4, <2>5, <2>6, <2>7, OneConnectionMoves DEF StreamInv, StreamTypes
<1>9. ASSUME NEW c \in Connections, HandleJoinProject(c) PROVE StreamInv'
  <2>1. /\ line[c].server = "open" /\ up[c] # <<>> /\ Head(up[c]) = "join" /\ up' = [up EXCEPT ![c] = Tail(up[c])]
        /\ screen' = screen /\ stream' = stream /\ active' = active
    BY <1>0, <1>9 DEF HandleJoinProject, StreamTypes
  <2>2. /\ up' \in [Connections -> Seq({"join", "leave", "bye"})] /\ up'[c] = Tail(up[c])
        /\ \A d \in Connections : d # c => up'[d] = up[d]
    <3>1. up[c] \in Seq({"join", "leave", "bye"})
      BY <1>0 DEF StreamTypes
    <3>2. Tail(up[c]) \in Seq({"join", "leave", "bye"})
      BY <2>1, <3>1, TailsFollow
    <3> QED
      BY <1>0, <2>1, <3>2 DEF StreamTypes
  <2>3. line[c].client # "unused"
    BY <1>0, <2>1 DEF ConnectionInv, Unheard
  <2>4. line[c].client = "live" =>
          /\ up'[c] = <<>> /\ ~line[c].lookup /\ ~line[c].joined /\ ~Said(c, "granted") /\ ~Said(c, "welcome")
          /\ c = screen.conn /\ line[c].project = screen.project
          /\ \A i \in DOMAIN down[c] : down[c][i].say = "event" => down[c][i].project = line[c].project
    <3> SUFFICES ASSUME line[c].client = "live"
                 PROVE  /\ up'[c] = <<>> /\ ~line[c].lookup /\ ~line[c].joined /\ ~Said(c, "granted") /\ ~Said(c, "welcome")
                        /\ c = screen.conn /\ line[c].project = screen.project
                        /\ \A i \in DOMAIN down[c] : down[c][i].say = "event" => down[c][i].project = line[c].project
      OBVIOUS
    <3>1. up[c] = <<"join">> /\ ~line[c].lookup
      BY <1>0, <2>1 DEF ConnectionInv, AsksOnce
    <3>2. Waits(c)
      BY <2>1 DEF Waits
    <3> QED
      BY <1>0, <2>2, <3>1, <3>2 DEF ConnectionInv, AsksOnce, Said
  <2>5. ~(screen.isConnected /\ screen.conn = c)
    BY <2>1 DEF StreamInv, ConnectedInv, Waits
  <2>6. CASE line[c].project \in Malformed
    <3>1. Send(c, <<"refused">>) /\ line' = line
      BY <1>9, <2>6 DEF HandleJoinProject
    <3>2. /\ down' \in [Connections -> Seq(Messages)]
          /\ \A d \in Connections : d # c => down'[d] = down[d]
          /\ \A i \in DOMAIN down'[c] :
                \/ i \in DOMAIN down[c] /\ down'[c][i] = down[c][i]
                \/ down'[c][i].say = "refused"
      <4> DEFINE words == <<"refused">>
      <4>1. words \in Seq(Says) /\ \A k \in DOMAIN words : words[k] = "refused"
        BY DEF Says
      <4> HIDE DEF words
      <4>2. Send(c, words)
        BY <3>1 DEF words
      <4> QED
        BY <1>0, <4>1, <4>2, SendAppends
    <3>3. ConnectionInv(c)'
      <4>1. Unheard(c)' /\ Early(c)'
        BY <1>0, <2>1, <2>3, <2>4, <3>1, <3>2 DEF ConnectionInv, Unheard, Early
      <4>2. AsksOnce(c)'
        BY <1>0, <2>1, <2>3, <2>4, <3>1, <3>2 DEF ConnectionInv, AsksOnce, Waits, Said
      <4> QED
        BY <4>1, <4>2 DEF ConnectionInv
    <3> QED
      BY <1>0, <2>1, <2>2, <2>5, <3>1, <3>2, <3>3, OneConnectionMoves DEF StreamInv, StreamTypes
  <2>7. CASE line[c].project \notin Malformed
    <3>1. line' = [line EXCEPT ![c] = [line[c] EXCEPT !.lookup = TRUE]] /\ down' = down
      BY <1>9, <2>7 DEF HandleJoinProject
    <3>2. [line[c] EXCEPT !.lookup = TRUE] \in Lines
      BY <1>l, LineWrites
    <3>3. /\ line' \in [Connections -> Lines] /\ line[c] \in Lines
          /\ line'[c] = [line[c] EXCEPT !.lookup = TRUE]
          /\ \A d \in Connections : d # c => line'[d] = line[d]
      BY <1>0, <1>l, <3>1, <3>2 DEF StreamTypes
    <3>4. /\ line'[c].client = line[c].client /\ line'[c].server = line[c].server /\ line'[c].lookup
          /\ line'[c].project = line[c].project /\ line'[c].joined = line[c].joined
      BY ONLY <3>3 DEF Lines
    <3>5. ConnectionInv(c)'
      BY <1>0, <2>1, <2>3, <2>4, <3>1, <3>4 DEF ConnectionInv, Unheard, Early, AsksOnce, Waits, Said
    <3> QED
      BY <1>0, <2>1, <2>2, <2>5, <3>1, <3>3, <3>5, OneConnectionMoves DEF StreamInv, StreamTypes
  <2> QED
    BY <2>6, <2>7
<1>10. ASSUME NEW c \in Connections, NEW found \in BOOLEAN, JoinAnswered(c, found) PROVE StreamInv'
  <2> DEFINE enters == found /\ line[c].server = "open"
  <2>1. /\ line[c].lookup /\ up' = up /\ screen' = screen /\ stream' = stream /\ active' = active
        /\ line' = [line EXCEPT ![c] = [line[c] EXCEPT !.lookup = FALSE, !.joined = enters]]
    BY <1>0, <1>10 DEF JoinAnswered, StreamTypes
  <2>2. [line[c] EXCEPT !.lookup = FALSE, !.joined = enters] \in Lines
    <3>1. enters \in BOOLEAN
      OBVIOUS
    <3> HIDE DEF enters
    <3> QED
      BY <1>l, <3>1, LineWrites
  <2>3. /\ line' \in [Connections -> Lines]
        /\ \A d \in Connections : d # c => line'[d] = line[d]
        /\ line[c] \in Lines /\ line'[c] = [line[c] EXCEPT !.lookup = FALSE, !.joined = enters]
    BY <1>0, <1>l, <2>1, <2>2 DEF StreamTypes
  <2>4. /\ line'[c].client = line[c].client /\ line'[c].server = line[c].server /\ ~line'[c].lookup
        /\ line'[c].project = line[c].project /\ (line'[c].joined <=> enters)
    BY ONLY <2>3 DEF Lines
  <2>5. line[c].client # "unused" /\ line[c].server # "none"
    BY <1>0, <2>1 DEF ConnectionInv, Unheard, Unopened, Early
  <2>6. line[c].client = "live" =>
          /\ up[c] = <<>> /\ ~line[c].joined /\ ~Said(c, "granted") /\ ~Said(c, "welcome")
          /\ c = screen.conn /\ line[c].project = screen.project
          /\ \A i \in DOMAIN down[c] : down[c][i].say = "event" => down[c][i].project = line[c].project
    BY <1>0, <2>1 DEF ConnectionInv, AsksOnce, Waits, Said
  <2>7. ~(screen.isConnected /\ screen.conn = c)
    BY <2>1 DEF StreamInv, ConnectedInv, Waits
  <2>8. CASE line[c].server = "open"
    <3>1. PICK words \in {<<"granted">>, <<"refused">>} : Send(c, words) /\ (words = <<"granted">> => found)
      BY <1>10, <2>8 DEF JoinAnswered
    <3>2. words \in Seq(Says) /\ \A k \in DOMAIN words : words[k] = "refused" \/ (words[k] = "granted" /\ found)
      <4>1. CASE words = <<"granted">>
        BY <3>1, <4>1 DEF Says
      <4>2. CASE words = <<"refused">>
        BY <4>2 DEF Says
      <4> QED
        BY <3>1, <4>1, <4>2
    <3>3. /\ down' \in [Connections -> Seq(Messages)]
          /\ \A d \in Connections : d # c => down'[d] = down[d]
          /\ \A i \in DOMAIN down'[c] :
                \/ i \in DOMAIN down[c] /\ down'[c][i] = down[c][i]
                \/ down'[c][i].say = "refused"
                \/ down'[c][i].say = "granted" /\ found
      <4>1. /\ down' \in [Connections -> Seq(Messages)]
            /\ \A d \in Connections : d # c \/ ~Hears(c) => down'[d] = down[d]
            /\ \A i \in DOMAIN down'[c] :
                  \/ i \in DOMAIN down[c] /\ down'[c][i] = down[c][i]
                  \/ \E k \in DOMAIN words : i = Len(down[c]) + k /\ down'[c][i].say = words[k]
        BY <1>0, <3>1, <3>2, SendAppends
      <4> QED
        BY <3>2, <4>1
    <3>4. ConnectionInv(c)'
      <4>1. Unheard(c)' /\ Early(c)'
        BY <2>4, <2>5 DEF Unheard, Early
      <4>2. ASSUME line[c].client = "live"
            PROVE  /\ ~Waits(c)' /\ ~Said(c, "welcome")' /\ (Said(c, "granted")' => found)
                   /\ \A i \in DOMAIN down'[c] : down'[c][i].say = "event" => down'[c][i].project = line[c].project
        <5>1. up[c] = <<>> /\ ~line'[c].lookup
          BY <2>4, <2>6, <4>2
        <5>2. ~Waits(c)'
          BY <2>1, <5>1 DEF Waits
        <5> QED
          BY <2>6, <3>3, <4>2, <5>2 DEF Said
      <4>3. AsksOnce(c)'
        BY <2>1, <2>4, <2>6, <2>8, <4>2 DEF AsksOnce, Said
      <4> QED
        BY <4>1, <4>3 DEF ConnectionInv
    <3> QED
      BY <1>0, <2>1, <2>3, <2>7, <3>3, <3>4, OneConnectionMoves DEF StreamInv, StreamTypes
  <2>9. CASE line[c].server # "open"
    <3>1. down' = down
      BY <1>10, <2>9 DEF JoinAnswered
    <3>2. ConnectionInv(c)'
      BY <1>0, <2>1, <2>4, <2>5, <2>6, <2>9, <3>1 DEF ConnectionInv, Unheard, Early, AsksOnce, Waits, Said
    <3> QED
      BY <1>0, <2>1, <2>3, <2>7, <3>1, <3>2, OneConnectionMoves DEF StreamInv, StreamTypes
  <2> QED
    BY <2>8, <2>9
<1>11. ASSUME NEW c \in Connections, JoinThrows(c) PROVE StreamInv'
  <2>1. /\ line[c].lookup /\ up' = up /\ down' = down /\ screen' = screen /\ stream' = stream /\ active' = active
        /\ line' = [line EXCEPT ![c] = [line[c] EXCEPT !.lookup = FALSE]]
    BY <1>0, <1>11 DEF JoinThrows, StreamTypes
  <2>2. [line[c] EXCEPT !.lookup = FALSE] \in Lines
    BY <1>l, LineWrites
  <2>3. /\ line' \in [Connections -> Lines]
        /\ \A d \in Connections : d # c => line'[d] = line[d]
        /\ line[c] \in Lines /\ line'[c] = [line[c] EXCEPT !.lookup = FALSE]
    BY <1>0, <1>l, <2>1, <2>2 DEF StreamTypes
  <2>4. /\ line'[c].client = line[c].client /\ line'[c].server = line[c].server /\ ~line'[c].lookup
        /\ line'[c].project = line[c].project /\ line'[c].joined = line[c].joined
    BY ONLY <2>3 DEF Lines
  <2>5. ConnectionInv(c)'
    BY <1>0, <2>1, <2>4 DEF ConnectionInv, Unheard, Unopened, Early, AsksOnce, Waits, Said
  <2>6. ~(screen.isConnected /\ screen.conn = c)
    BY <2>1 DEF StreamInv, ConnectedInv, Waits
  <2> QED
    BY <1>0, <2>1, <2>3, <2>5, <2>6, OneConnectionMoves DEF StreamInv, StreamTypes
<1>12. ASSUME NEW c \in Connections, HandleLeaveProject(c) PROVE StreamInv'
  <2>1. /\ line[c].server = "open" /\ up[c] # <<>> /\ Head(up[c]) = "leave" /\ up' = [up EXCEPT ![c] = Tail(up[c])]
        /\ down' = down /\ screen' = screen /\ stream' = stream /\ active' = active
        /\ line' = [line EXCEPT ![c] = [line[c] EXCEPT !.joined = FALSE]]
    BY <1>0, <1>12 DEF HandleLeaveProject, StreamTypes
  <2>2. [line[c] EXCEPT !.joined = FALSE] \in Lines
    BY <1>l, LineWrites
  <2>3. /\ line' \in [Connections -> Lines]
        /\ \A d \in Connections : d # c => line'[d] = line[d]
        /\ line[c] \in Lines /\ line'[c] = [line[c] EXCEPT !.joined = FALSE]
    BY <1>0, <1>l, <2>1, <2>2 DEF StreamTypes
  <2>4. line'[c].client = line[c].client /\ line'[c].server = line[c].server
    BY ONLY <2>3 DEF Lines
  <2>5. /\ up' \in [Connections -> Seq({"join", "leave", "bye"})]
        /\ \A d \in Connections : d # c => up'[d] = up[d]
    <3>1. up[c] \in Seq({"join", "leave", "bye"})
      BY <1>0 DEF StreamTypes
    <3>2. Tail(up[c]) \in Seq({"join", "leave", "bye"})
      BY <2>1, <3>1, TailsFollow
    <3> QED
      BY <1>0, <2>1, <3>2 DEF StreamTypes
  <2>6. line[c].client = "gone"
    <3>1. Head(<<"join">>) # "leave"
      OBVIOUS
    <3> QED
      BY <1>0, <1>l, <2>1, <3>1 DEF ConnectionInv, AsksOnce, Unheard, Lines
  <2>7. ConnectionInv(c)'
    BY <2>1, <2>4, <2>6 DEF ConnectionInv, Unheard, Early, AsksOnce
  <2>8. ~(screen.isConnected /\ screen.conn = c)
    BY <2>6 DEF StreamInv, ConnectedInv
  <2> QED
    BY <1>0, <2>1, <2>3, <2>5, <2>7, <2>8, OneConnectionMoves DEF StreamInv, StreamTypes
<1>13. ASSUME NEW p \in Own, ProcessorEmits(p) \/ HandlePipelineMessage(p) PROVE StreamInv'
  <2>1. PICK s \in Slots :
          down' = [c \in Connections |->
              IF line[c].joined /\ line[c].project = p /\ Hears(c) THEN Append(down[c], Event(p, s)) ELSE down[c]]
    <3>1. EmitTo(p, Slots) \/ EmitTo(p, Slots \ {0}) \/ EmitTo(p, {0})
      BY <1>13 DEF ProcessorEmits, HandlePipelineMessage
    <3> QED
      BY <1>0, <3>1 DEF EmitTo
  <2>2. line' = line /\ up' = up /\ screen' = screen /\ stream' = stream /\ active' = active
    BY <1>13 DEF ProcessorEmits, HandlePipelineMessage
  <2>3. Event(p, s) \in Messages /\ Event(p, s).say = "event" /\ Event(p, s).project = p
    BY <1>0 DEF Event, Messages, Says
  <2>4. ASSUME NEW c \in Connections
        PROVE  /\ down'[c] \in Seq(Messages)
               /\ ~(line[c].joined /\ Hears(c)) => down'[c] = down[c]
               /\ \A i \in DOMAIN down'[c] :
                     \/ i \in DOMAIN down[c] /\ down'[c][i] = down[c][i]
                     \/ down'[c][i].say = "event" /\ down'[c][i].project = line[c].project
    <3>1. down[c] \in Seq(Messages)
      BY <1>0 DEF StreamTypes
    <3>2. CASE down'[c] = down[c]
      BY <3>1, <3>2
    <3>3. CASE line[c].joined /\ line[c].project = p /\ Hears(c) /\ down'[c] = Append(down[c], Event(p, s))
      <4> DEFINE e == Event(p, s)
      <4> HIDE DEF e
      <4>1. /\ Append(down[c], e) \in Seq(Messages)
            /\ \A i \in DOMAIN Append(down[c], e) :
                  \/ i \in DOMAIN down[c] /\ Append(down[c], e)[i] = down[c][i]
                  \/ Append(down[c], e)[i] = e
        BY <2>3, <3>1 DEF e
      <4> QED
        BY <2>3, <3>3, <4>1 DEF e
    <3> QED
      BY <2>1, <3>2, <3>3
  <2>5. down' \in [Connections -> Seq(Messages)]
    BY <2>1, <2>4
  <2>6. ASSUME NEW c \in Connections PROVE ConnectionInv(c)'
    <3>1. \A w : w # "event" /\ Said(c, w)' => Said(c, w)
      BY <2>4 DEF Said
    <3>2. (line[c].client = "unused" => down'[c] = down[c]) /\ (line[c].server = "none" => down'[c] = down[c])
      BY <1>0, <2>4 DEF Hears, ConnectionInv, Early
    <3>3. Unheard(c)' /\ Early(c)'
      BY <1>0, <2>2, <3>2 DEF ConnectionInv, Unheard, Early
    <3>4. ASSUME line[c].client = "live"
          PROVE  /\ \A i \in DOMAIN down'[c] : down'[c][i].say = "welcome" => i = 1 /\ ~Waits(c)
                 /\ \A i \in DOMAIN down'[c] : down'[c][i].say = "event" => down'[c][i].project = line[c].project
      BY <1>0, <2>4, <3>4 DEF ConnectionInv, AsksOnce
    <3>5. AsksOnce(c) /\ Waits(c)' = Waits(c)
      BY <1>0, <2>2 DEF ConnectionInv, Waits
    <3>6. AsksOnce(c)'
      BY <2>2, <3>1, <3>4, <3>5 DEF AsksOnce
    <3> QED
      BY <3>3, <3>6 DEF ConnectionInv
  <2>7. \A c \in Connections : Said(c, "welcome")' => Said(c, "welcome")
    BY <2>4 DEF Said
  <2> QED
    BY <1>0, <2>2, <2>5, <2>6, <2>7 DEF StreamInv, StreamTypes, ConnectedInv, Waits
<1>14. ASSUME RedisReconnecting \/ RedisReady \/ DisconnectRedis \/ UNCHANGED eventVars PROVE StreamInv'
  <2>1. line' = line /\ up' = up /\ down' = down /\ screen' = screen /\ stream' = stream /\ active' = active
    BY <1>14 DEF RedisReconnecting, RedisReady, DisconnectRedis, eventVars
  <2>2. \A c \in Connections : ConnectionInv(c)'
    BY <1>0, <2>1, Untouched
  <2> QED
    BY <2>1, <2>2 DEF StreamInv, StreamTypes, ConnectedInv, Waits, Said
<1> QED
  BY <1>1, <1>2, <1>3, <1>4, <1>5, <1>6, <1>7, <1>8, <1>9, <1>10, <1>11, <1>12, <1>13, <1>14 DEF EventsNext

LEMMA StreamInvHolds == EventsSpec => []StreamInv
<1>1. EventsInit => StreamInv
  <2> SUFFICES ASSUME EventsInit PROVE StreamInv
    OBVIOUS
  <2>1. Unopened \in Lines /\ Unopened.client = "unused" /\ Unopened.server = "none"
        /\ ~Unopened.joined /\ ~Unopened.lookup
    BY DEF Unopened, Lines
  <2>2. PICK p \in Shown : screen = [project |-> p, conn |-> 0, isConnected |-> FALSE]
    BY DEF EventsInit
  <2>3. screen \in Screens /\ ~screen.isConnected
    BY <2>2, StreamAssumption DEF Screens
  <2>4. \A c \in Connections : line[c] = Unopened /\ up[c] = <<>> /\ down[c] = <<>>
    BY DEF EventsInit
  <2>5. \A c \in Connections : ConnectionInv(c)
    BY <2>1, <2>4 DEF ConnectionInv, Unheard, Early, AsksOnce
  <2>6. StreamTypes
    BY <2>1, <2>3 DEF EventsInit, StreamTypes
  <2> QED
    BY <2>3, <2>5, <2>6 DEF StreamInv, ConnectedInv, EventsInit
<1> QED
  BY <1>1, StreamStep, PTL DEF EventsSpec

(* The page says it is connected only while it is in the room of the project *)
(* it shows, and never shows an event of a project it has left.              *)
THEOREM StreamAlwaysTheProjects == EventsSpec => []StreamIsTheProjects
<1>1. StreamInv => StreamIsTheProjects
  <2> SUFFICES ASSUME StreamInv PROVE StreamIsTheProjects
    OBVIOUS
  <2>1. 0 \notin Connections
    BY DEF Connections
  <2> QED
    BY <2>1 DEF StreamInv, ConnectedInv, ConnectionInv, AsksOnce, StreamIsTheProjects
<1> QED
  BY <1>1, StreamInvHolds, PTL

-----------------------------------------------------------------------------
(* A step that opens and closes nothing at the gateway keeps the gauge.      *)
LEMMA GaugeUntouched ==
  ASSUME GaugeNeverOvercounts, active' = active,
         \A d \in Connections : line'[d].server = line[d].server
  PROVE  GaugeNeverOvercounts'
<1>1. Open' = Open
  BY DEF Open
<1> QED
  BY <1>1 DEF GaugeNeverOvercounts

LEMMA GaugeStep ==
  ASSUME StreamTypes, GaugeNeverOvercounts, [EventsNext]_eventVars
  PROVE  GaugeNeverOvercounts'
<1>0. /\ line \in [Connections -> Lines] /\ active \in Nat /\ MaxConnections \in Nat
      /\ \A d \in Connections : line[d] \in Lines
  BY StreamAssumption DEF StreamTypes
<1>f. IsFiniteSet(Open) /\ Cardinality(Open) \in Nat
  <2>1. IsFiniteSet(Connections)
    BY <1>0, FS_Interval DEF Connections
  <2> QED
    BY <2>1, FS_Subset, FS_CardinalityType DEF Open
<1>1. ASSUME NEW c \in Connections, HandleConnection(c) PROVE GaugeNeverOvercounts'
  <2>0. line[c].server = "none"
    BY <1>1 DEF HandleConnection
  <2>1. CASE line[c].admitted
    <3>1. line' = [line EXCEPT ![c] = [line[c] EXCEPT !.server = "open"]] /\ active' = active + 1
      BY <1>1, <2>1 DEF HandleConnection
    <3>2. line'[c].server = "open" /\ \A d \in Connections : d # c => line'[d] = line[d]
      BY <1>0, <3>1 DEF Lines
    <3>3. Open' = Open \cup {c} /\ c \notin Open
      BY <2>0, <3>2 DEF Open
    <3>4. Cardinality(Open') = Cardinality(Open) + 1
      BY <1>f, <3>3, FS_AddElement
    <3>5. \A d \in Connections : line[d].server = "refused" => line'[d].server = "refused"
      BY <2>0, <3>2
    <3> QED
      BY <1>0, <1>f, <3>1, <3>4, <3>5 DEF GaugeNeverOvercounts
  <2>2. CASE ~line[c].admitted
    <3>1. /\ line' = [line EXCEPT ![c] = [line[c] EXCEPT !.server = "refused"]]
          /\ active' \in {active, ConnectionClosed}
      BY <1>1, <2>2 DEF HandleConnection
    <3>2. line'[c].server = "refused" /\ \A d \in Connections : d # c => line'[d] = line[d]
      BY <1>0, <3>1 DEF Lines
    <3>3. Open' = Open
      BY <2>0, <3>2 DEF Open
    <3>4. active' <= active /\ active' \in Nat
      BY <1>0, <3>1 DEF ConnectionClosed
    <3> QED
      BY <1>0, <1>f, <3>2, <3>3, <3>4 DEF GaugeNeverOvercounts
  <2> QED
    BY <2>1, <2>2
<1>2. ASSUME NEW c \in Connections, HandleDisconnect(c) PROVE GaugeNeverOvercounts'
  <2>1. /\ line[c].server = "open" /\ active' = ConnectionClosed
        /\ line' = [line EXCEPT ![c] = [line[c] EXCEPT !.server = "closed", !.joined = FALSE]]
    BY <1>0, <1>2 DEF HandleDisconnect
  <2>2. line'[c].server = "closed" /\ \A d \in Connections : d # c => line'[d] = line[d]
    BY <1>0, <2>1 DEF Lines
  <2>3. Open' = Open \ {c} /\ c \in Open
    BY <2>1, <2>2 DEF Open
  <2>4. Cardinality(Open') = Cardinality(Open) - 1 /\ Cardinality(Open') \in Nat
    BY <1>f, <2>3, FS_RemoveElement, FS_CardinalityType
  <2>5. \A d \in Connections : line[d].server = "refused" => line'[d].server = "refused"
    BY <2>1, <2>2
  <2> QED
    BY <1>0, <1>f, <2>1, <2>4, <2>5 DEF GaugeNeverOvercounts, ConnectionClosed
<1>3. ASSUME NEW c \in Connections, NEW b \in BOOLEAN,
             \/ UNCHANGED line
             \/ line' = [line EXCEPT ![c] = [line[c] EXCEPT !.client = "gone"]]
             \/ line' = [line EXCEPT ![c] = [line[c] EXCEPT !.lookup = b]]
             \/ line' = [line EXCEPT ![c] = [line[c] EXCEPT !.joined = b]]
             \/ line' = [line EXCEPT ![c] = [line[c] EXCEPT !.lookup = FALSE, !.joined = b]],
             active' = active
      PROVE  GaugeNeverOvercounts'
  <2>1. ASSUME NEW d \in Connections PROVE line'[d].server = line[d].server
    <3>1. line \in [Connections -> Lines] /\ line[c] \in Lines
      BY <1>0, <1>3
    <3>2. CASE d # c
      BY ONLY <1>3, <2>1, <3>1, <3>2
    <3>3. CASE d = c
      <4>1. line'[c] \in {line[c], [line[c] EXCEPT !.client = "gone"], [line[c] EXCEPT !.lookup = b],
                          [line[c] EXCEPT !.joined = b], [line[c] EXCEPT !.lookup = FALSE, !.joined = b]}
        BY ONLY <1>3, <3>1
      <4>2. \A l \in Lines : /\ [l EXCEPT !.client = "gone"].server = l.server
                             /\ [l EXCEPT !.lookup = b].server = l.server
                             /\ [l EXCEPT !.joined = b].server = l.server
                             /\ [l EXCEPT !.lookup = FALSE, !.joined = b].server = l.server
        BY ONLY DEF Lines
      <4> QED
        BY ONLY <3>1, <3>3, <4>1, <4>2
    <3> QED
      BY <3>2, <3>3
  <2> QED
    BY <2>1, <1>3, GaugeUntouched
<1>4. ASSUME Connect PROVE GaugeNeverOvercounts'
  <2>1. PICK c \in Connections, admitted \in BOOLEAN :
          NextSocket(c) /\ line' = Opened(line, c, screen.project, admitted)
    BY <1>4 DEF Connect
  <2>2. \A d \in Connections : line'[d].server = line[d].server
    BY <1>0, <2>1 DEF Opened, Lines
  <2> QED
    BY <2>2, <1>4, GaugeUntouched DEF Connect
<1>5. ASSUME NEW c \in Connections, ClientLoses(c) PROVE GaugeNeverOvercounts'
  <2>1. PICK d \in Connections :
          line' = Opened([line EXCEPT ![c].client = "gone"], d, line[c].project, line[c].admitted)
    BY <1>5 DEF ClientLoses
  <2>2. \A e \in Connections : line'[e].server = line[e].server
    BY <1>0, <2>1 DEF Opened, Lines
  <2> QED
    BY <2>2, <1>5, GaugeUntouched DEF ClientLoses
<1>6. ASSUME CleanUp, active' = active PROVE GaugeNeverOvercounts'
  <2>1. \A d \in Connections : line'[d].server = line[d].server
    BY <1>0, <1>6 DEF CleanUp, Lines
  <2> QED
    BY <2>1, <1>6, GaugeUntouched
<1>7. CASE StopWatching \/ \E p \in Shown : Show(p)
  BY <1>6, <1>7 DEF StopWatching, Show
<1>8. ASSUME NEW c \in Connections, Hear(c) \/ HearEvent(c) \/ JoinThrows(c) \/ HandleLeaveProject(c)
      PROVE  GaugeNeverOvercounts'
  <2>1. CASE Hear(c)
    BY <2>1, <1>3 DEF Hear
  <2>2. CASE HearEvent(c)
    BY <2>2, <1>3 DEF HearEvent
  <2>3. CASE JoinThrows(c)
    BY <2>3, <1>3 DEF JoinThrows
  <2>4. CASE HandleLeaveProject(c)
    BY <2>4, <1>3 DEF HandleLeaveProject
  <2> QED
    BY <1>8, <2>1, <2>2, <2>3, <2>4
<1>9. ASSUME NEW c \in Connections, HandleJoinProject(c) PROVE GaugeNeverOvercounts'
  BY <1>3, <1>9 DEF HandleJoinProject
<1>10. ASSUME NEW c \in Connections, NEW found \in BOOLEAN, JoinAnswered(c, found) PROVE GaugeNeverOvercounts'
  <2>1. PICK b \in BOOLEAN : b = (found /\ line[c].server = "open")
    OBVIOUS
  <2>2. line' = [line EXCEPT ![c] = [line[c] EXCEPT !.lookup = FALSE, !.joined = b]] /\ active' = active
    BY <1>10, <2>1 DEF JoinAnswered
  <2> QED
    BY ONLY <1>3, <2>2
<1>11. CASE \/ RedisReconnecting \/ RedisReady \/ DisconnectRedis
            \/ \E p \in Own : ProcessorEmits(p) \/ HandlePipelineMessage(p)
            \/ UNCHANGED eventVars
  <2>1. line' = line /\ active' = active
    BY <1>11 DEF RedisReconnecting, RedisReady, DisconnectRedis, ProcessorEmits,
                 HandlePipelineMessage, eventVars
  <2> QED
    BY <2>1, GaugeUntouched
<1> QED
  BY <1>1, <1>2, <1>4, <1>5, <1>7, <1>8, <1>9, <1>10, <1>11 DEF EventsNext

(* The gauge never counts a connection that is not open, for any number of   *)
(* them: it may fall behind when a refused socket is taken off a count it    *)
(* was never added to, and stays behind, but it never overtakes.             *)
THEOREM GaugeAlwaysBelow == EventsSpec => []GaugeNeverOvercounts
<1>1. EventsInit => GaugeNeverOvercounts
  <2> SUFFICES ASSUME EventsInit PROVE GaugeNeverOvercounts
    OBVIOUS
  <2>1. Open = {}
    BY DEF EventsInit, Open, Unopened
  <2> QED
    BY <2>1, FS_EmptySet DEF EventsInit, GaugeNeverOvercounts
<1>2. StreamInv => StreamTypes
  BY DEF StreamInv
<1> QED
  BY <1>1, <1>2, GaugeStep, StreamInvHolds, PTL DEF EventsSpec


-----------------------------------------------------------------------------
(* What the gateway and the events say to a page.                           *)
SaidWell ==
  /\ \A c \in Connections : down[c] \in Seq(ToPage)
  /\ \A c \in Connections : line[c].lookup => line[c].server \in {"open", "closed"}
  /\ redis \in {"subscribed", "reconnecting", "off"}

(* A message is an answer of the gateway.                                   *)
LEMMA SendsAnswers ==
  ASSUME StreamTypes, NEW c \in Connections, down[c] \in Seq(ToPage),
         NEW words \in Seq({"welcome", "unauthorized", "bye", "granted", "refused"}), Send(c, words)
  PROVE  down'[c] \in Seq(ToPage) /\ \A d \in Connections : d # c => down'[d] = down[d]
<1> DEFINE sent == [i \in DOMAIN words |-> Word(words[i])]
<1>1. sent \in Seq(ToPage)
  BY DEF ToPage
<1>2. down' = IF Hears(c) THEN [down EXCEPT ![c] = down[c] \o sent] ELSE down
  BY DEF Send
<1> HIDE DEF sent
<1>3. down[c] \o sent \in Seq(ToPage)
  BY <1>1
<1> QED
  BY <1>2, <1>3 DEF StreamTypes

LEMMA SaidWellStep == StreamInv /\ SaidWell /\ [EventsNext]_eventVars => SaidWell'
<1> SUFFICES ASSUME StreamInv, SaidWell, [EventsNext]_eventVars PROVE SaidWell'
  OBVIOUS
<1> DEFINE Sound(d) == line[d].lookup => line[d].server \in {"open", "closed"}
<1>0. StreamTypes
  BY DEF StreamInv
<1>d. /\ \A d \in Connections : down[d] \in Seq(ToPage) /\ Sound(d)
      /\ DOMAIN down = Connections
  BY <1>0 DEF SaidWell, StreamTypes
<1>s. <<>> \in Seq(ToPage) /\ \A s \in Seq(ToPage) : s # <<>> => Tail(s) \in Seq(ToPage)
  OBVIOUS
<1>l. /\ line \in [Connections -> Lines] /\ DOMAIN line = Connections
      /\ \A d \in Connections : DOMAIN line[d] = {"project", "admitted", "client", "server", "joined", "lookup"}
  BY <1>0 DEF StreamTypes, Lines
<1>w. LET said == Seq({"welcome", "unauthorized", "bye", "granted", "refused"}) IN
      /\ <<"welcome">> \in said
      /\ <<"granted">> \in said
      /\ <<"refused">> \in said
      /\ <<"welcome", "unauthorized", "bye">> \in said
  OBVIOUS
<1>q. ASSUME \A d \in Connections : down'[d] \in Seq(ToPage), \A d \in Connections : Sound(d)',
             redis' \in {redis, "subscribed", "reconnecting", "off"}
      PROVE  SaidWell'
  BY <1>q DEF SaidWell
<1>1. CASE Connect
  <2>1. PICK c \in Connections, admitted \in BOOLEAN :
          line' = Opened(line, c, screen.project, admitted) /\ down' = down /\ redis' = redis
    BY <1>1 DEF Connect
  <2>2. \A d \in Connections : line'[d].lookup = line[d].lookup /\ line'[d].server = line[d].server
    BY <1>l, <2>1 DEF Opened
  <2> QED
    BY <1>d, <1>q, <2>1, <2>2
<1>2. ASSUME CleanUp, redis' = redis PROVE SaidWell'
  <2>1. CASE screen.conn = 0
    BY <1>2, <1>d, <1>q, <2>1 DEF CleanUp
  <2>2. CASE screen.conn # 0
    <3>1. screen.conn \in Connections
      BY <1>0, <2>2, StreamAssumption DEF StreamTypes, Screens, Connections
    <3>2. line' = [line EXCEPT ![screen.conn].client = "gone"] /\ down' = [down EXCEPT ![screen.conn] = <<>>]
      BY <1>2, <2>2 DEF CleanUp
    <3>3. \A d \in Connections : line'[d].lookup = line[d].lookup /\ line'[d].server = line[d].server
      BY <1>l, <3>1, <3>2
    <3>4. \A d \in Connections : down'[d] \in Seq(ToPage)
      BY <1>d, <1>s, <3>1, <3>2
    <3> QED
      BY <1>d, <1>q, <1>2, <3>3, <3>4
  <2> QED
    BY <2>1, <2>2
<1>3. CASE StopWatching \/ \E p \in Shown : Show(p)
  BY <1>2, <1>3 DEF StopWatching, Show
<1>4. ASSUME NEW c \in Connections, Hear(c) \/ HearEvent(c) PROVE SaidWell'
  <2>1. down' = [down EXCEPT ![c] = Tail(down[c])] /\ down[c] # <<>> /\ redis' = redis
    BY <1>4 DEF Hear, HearEvent
  <2>2. \A d \in Connections : line'[d].lookup = line[d].lookup /\ line'[d].server = line[d].server
    BY <1>l, <1>4 DEF Hear, HearEvent
  <2>3. \A d \in Connections : down'[d] \in Seq(ToPage)
    BY <1>d, <1>s, <2>1
  <2> QED
    BY <1>d, <1>q, <2>1, <2>2, <2>3
<1>5. ASSUME NEW c \in Connections, ClientLoses(c) PROVE SaidWell'
  <2>1. PICK d \in Connections :
          line' = Opened([line EXCEPT ![c].client = "gone"], d, line[c].project, line[c].admitted)
    BY <1>5 DEF ClientLoses
  <2>2. \A e \in Connections : line'[e].lookup = line[e].lookup /\ line'[e].server = line[e].server
    BY <1>l, <2>1 DEF Opened
  <2>3. down' = [down EXCEPT ![c] = <<>>] /\ redis' = redis
    BY <1>5 DEF ClientLoses
  <2>4. \A e \in Connections : down'[e] \in Seq(ToPage)
    BY <1>d, <1>s, <2>3
  <2> QED
    BY <1>d, <1>q, <2>2, <2>3, <2>4
<1>6. ASSUME NEW c \in Connections, down' = down \/ \E word \in {"welcome", "granted", "refused"} : Send(c, <<word>>)
             \/ Send(c, <<"welcome", "unauthorized", "bye">>)
      PROVE  \A d \in Connections : down'[d] \in Seq(ToPage)
  <2>1. CASE down' = down
    BY <1>d, <2>1
  <2>2. CASE Send(c, <<"welcome">>)
    BY <1>0, <1>d, <1>w, <2>2, SendsAnswers
  <2>3. CASE Send(c, <<"granted">>)
    BY <1>0, <1>d, <1>w, <2>3, SendsAnswers
  <2>4. CASE Send(c, <<"refused">>)
    BY <1>0, <1>d, <1>w, <2>4, SendsAnswers
  <2>5. CASE Send(c, <<"welcome", "unauthorized", "bye">>)
    BY <1>0, <1>d, <1>w, <2>5, SendsAnswers
  <2> QED
    BY <1>6, <2>1, <2>2, <2>3, <2>4, <2>5
<1>7. ASSUME NEW c \in Connections, HandleConnection(c) PROVE SaidWell'
  <2>1. \A d \in Connections : down'[d] \in Seq(ToPage)
    BY <1>6, <1>7 DEF HandleConnection
  <2>2. \A d \in Connections : Sound(d)'
    <3>1. line[c].server = "none"
      BY <1>7 DEF HandleConnection
    <3>2. ~line[c].lookup
      BY <1>d, <1>l, <3>1 DEF Lines
    <3>3. \A d \in Connections : line'[d].lookup = line[d].lookup /\ (d # c => line'[d].server = line[d].server)
      BY <1>l, <1>7 DEF HandleConnection
    <3> QED
      BY <1>d, <3>2, <3>3
  <2> QED
    BY <1>q, <1>7, <2>1, <2>2 DEF HandleConnection
<1>8. ASSUME NEW c \in Connections, HandleDisconnect(c) PROVE SaidWell'
  <2>1. \A d \in Connections : Sound(d)'
    BY <1>d, <1>l, <1>8 DEF HandleDisconnect
  <2> QED
    BY <1>d, <1>q, <1>8, <2>1 DEF HandleDisconnect
<1>9. ASSUME NEW c \in Connections, HandleJoinProject(c) PROVE SaidWell'
  <2>1. \A d \in Connections : down'[d] \in Seq(ToPage)
    BY <1>6, <1>9 DEF HandleJoinProject
  <2>2. \A d \in Connections : Sound(d)'
    <3>1. line[c].server = "open" /\ (line' = line \/ line' = [line EXCEPT ![c].lookup = TRUE])
      BY <1>9 DEF HandleJoinProject
    <3>2. \A d \in Connections : line'[d].server = line[d].server /\ (d # c => line'[d].lookup = line[d].lookup)
      BY <1>l, <3>1
    <3> QED
      BY <1>d, <3>1, <3>2
  <2> QED
    BY <1>q, <1>9, <2>1, <2>2 DEF HandleJoinProject
<1>10. ASSUME NEW c \in Connections, (\E found \in BOOLEAN : JoinAnswered(c, found)) \/ JoinThrows(c)
       PROVE SaidWell'
  <2>1. \A d \in Connections : down'[d] \in Seq(ToPage)
    BY <1>6, <1>10 DEF JoinAnswered, JoinThrows
  <2>2. \A d \in Connections : Sound(d)'
    <3>1. /\ ~line'[c].lookup
          /\ \A d \in Connections : d # c => line'[d] = line[d]
      <4>1. CASE JoinThrows(c)
        BY ONLY <1>l, <1>10, <4>1 DEF JoinThrows
      <4>2. ASSUME NEW found \in BOOLEAN, JoinAnswered(c, found)
            PROVE  ~line'[c].lookup /\ \A d \in Connections : d # c => line'[d] = line[d]
        BY ONLY <1>l, <1>10, <4>2 DEF JoinAnswered
      <4> QED
        BY <1>10, <4>1, <4>2
    <3> QED
      BY ONLY <1>d, <3>1
  <2> QED
    BY <1>q, <1>10, <2>1, <2>2 DEF JoinAnswered, JoinThrows
<1>11. ASSUME NEW c \in Connections, HandleLeaveProject(c) PROVE SaidWell'
  <2>1. \A d \in Connections : Sound(d)'
    BY <1>d, <1>l, <1>11 DEF HandleLeaveProject
  <2> QED
    BY <1>d, <1>q, <1>11, <2>1 DEF HandleLeaveProject
<1>12. CASE RedisReconnecting \/ RedisReady \/ DisconnectRedis
  BY <1>d, <1>q, <1>12 DEF RedisReconnecting, RedisReady, DisconnectRedis, ReleaseClient
<1>13. ASSUME NEW p \in Own, ProcessorEmits(p) \/ HandlePipelineMessage(p) PROVE SaidWell'
  <2>1. PICK s \in Slots :
          down' = [c \in Connections |->
              IF line[c].joined /\ line[c].project = p /\ Hears(c)
              THEN Append(down[c], Event(p, s)) ELSE down[c]]
    <3>1. 0 \in Slots
      BY StreamAssumption DEF Slots
    <3> QED
      BY <1>13, <3>1 DEF ProcessorEmits, HandlePipelineMessage, EmitTo
  <2>2. Event(p, s) \in ToPage
    BY StreamAssumption DEF ToPage
  <2>3. \A c \in Connections : Append(down[c], Event(p, s)) \in Seq(ToPage)
    BY <1>d, <2>2
  <2>4. \A c \in Connections : down'[c] \in Seq(ToPage)
    BY <1>d, <2>1, <2>3
  <2>5. line' = line /\ redis' = redis
    BY <1>13 DEF ProcessorEmits, HandlePipelineMessage
  <2> QED
    BY <1>d, <1>q, <2>4, <2>5
<1>14. CASE UNCHANGED eventVars
  BY <1>d, <1>q, <1>14 DEF eventVars
<1> QED
  BY <1>1, <1>3, <1>4, <1>5, <1>7, <1>8, <1>9, <1>10, <1>11, <1>12, <1>13, <1>14 DEF EventsNext

(* Events!EventsTypeOK holds throughout; the gauge stays within its type    *)
(* because it never overcounts.                                             *)
LEMMA EventsTyped == EventsSpec => []EventsTypeOK
<1>1. EventsInit => SaidWell
  <2>1. <<>> \in Seq(ToPage)
    OBVIOUS
  <2> QED
    BY <2>1 DEF EventsInit, SaidWell, Unopened, ConnectRedis
<1>2. StreamInv /\ SaidWell /\ GaugeNeverOvercounts => EventsTypeOK
  <2> SUFFICES ASSUME StreamInv, SaidWell, GaugeNeverOvercounts PROVE EventsTypeOK
    OBVIOUS
  <2>1. active \in 0 .. MaxConnections
    <3>1. IsFiniteSet(Connections) /\ Cardinality(Connections) = MaxConnections
      BY FS_Interval, StreamAssumption DEF Connections
    <3>2. Cardinality(Open) <= Cardinality(Connections) /\ Cardinality(Open) \in Nat
      BY <3>1, FS_Subset, FS_CardinalityType DEF Open
    <3> QED
      BY <3>1, <3>2, StreamAssumption DEF GaugeNeverOvercounts, StreamInv, StreamTypes
  <2>5. /\ line \in [Connections -> [project : Shown \cup {Nothing}, admitted : BOOLEAN,
                                    client : {"unused", "live", "gone"},
                                    server : {"none", "open", "closed", "refused"},
                                    joined : BOOLEAN, lookup : BOOLEAN]]
        /\ screen \in [project : Shown, conn : 0..MaxConnections, isConnected : BOOLEAN]
        /\ stream \in [Slots -> Shown \cup {Nothing}]
    BY Zenon DEF StreamInv, StreamTypes, Lines, Screens
  <2>6. redis \in {"subscribed", "reconnecting", "off"}
    BY DEF SaidWell
  <2>7. \A c \in Connections :
          /\ up[c] \in Seq({"join", "leave", "bye"})
          /\ down[c] \in Seq(ToPage)
          /\ line[c].lookup => line[c].server \in {"open", "closed"}
    BY DEF SaidWell, StreamInv, StreamTypes
  <2> QED
    BY <2>1, <2>5, <2>6, <2>7, Zenon DEF EventsTypeOK
<1> QED
  BY <1>1, <1>2, SaidWellStep, StreamInvHolds, GaugeAlwaysBelow, PTL DEF EventsSpec

-----------------------------------------------------------------------------
(* The quotas hold for any users, any number of requests at once and any   *)
(* limits and days.  The invariants count the requests on their way: one   *)
(* that has a place below the user's limit and is about to be counted      *)
(* globally has used up a place already, and a counter past its limit owes *)
(* every further step to a request that was checked before.                *)

(* A change of one request changes a set of requests by that one at most.  *)
LEMMA OneRequestMoves ==
  ASSUME NEW S \in SUBSET Requests, NEW T \in SUBSET Requests, NEW r \in Requests,
         \A q \in Requests : q # r => (q \in S <=> q \in T)
  PROVE  /\ Cardinality(S) \in Nat /\ Cardinality(T) \in Nat
         /\ r \in S \/ r \notin T => Cardinality(T) <= Cardinality(S)
         /\ r \in S /\ r \notin T => Cardinality(T) = Cardinality(S) - 1
         /\ r \notin S /\ r \in T => Cardinality(T) = Cardinality(S) + 1
<1>1. IsFiniteSet(S) /\ IsFiniteSet(T)
  BY RequestsAssumption, FS_Subset
<1>2. Cardinality(S) \in Nat /\ Cardinality(T) \in Nat
  BY <1>1, FS_CardinalityType
<1>3. ASSUME r \in S, r \notin T PROVE Cardinality(T) = Cardinality(S) - 1
  <2>1. T = S \ {r}
    BY <1>3
  <2> QED
    BY <1>1, <1>3, <2>1, FS_RemoveElement
<1>4. ASSUME r \notin S, r \in T PROVE Cardinality(T) = Cardinality(S) + 1
  <2>1. T = S \cup {r}
    BY <1>4
  <2> QED
    BY <1>1, <1>4, <2>1, FS_AddElement
<1>5. (r \in S <=> r \in T) => S = T
  OBVIOUS
<1> QED
  BY <1>2, <1>3, <1>4, <1>5

(* A set of requests is no larger than all of them, and smaller when one is *)
(* left out.                                                                *)
LEMMA SomeRequests ==
  ASSUME NEW S \in SUBSET Requests
  PROVE  /\ Cardinality(S) \in Nat /\ Cardinality(Requests) \in Nat
         /\ Cardinality(S) <= Cardinality(Requests)
         /\ \A r \in Requests : r \notin S => Cardinality(S) + 1 <= Cardinality(Requests)
<1>1. IsFiniteSet(S) /\ Cardinality(S) <= Cardinality(Requests)
  BY RequestsAssumption, FS_Subset
<1>2. ASSUME NEW r \in Requests, r \notin S
      PROVE  Cardinality(S) + 1 <= Cardinality(Requests)
  <2>1. Cardinality(S \cup {r}) = Cardinality(S) + 1
    BY <1>1, <1>2, FS_AddElement
  <2>2. Cardinality(S \cup {r}) <= Cardinality(Requests)
    BY RequestsAssumption, FS_Subset
  <2> QED
    BY <2>1, <2>2
<1> QED
  BY <1>1, <1>2, RequestsAssumption, FS_CardinalityType

-----------------------------------------------------------------------------
LEMMA QuotaTypeStarts == QuotaInit => QuotaTypeOK
BY UsersAssumption, DayAssumption DEF QuotaInit, QuotaTypeOK, NoRequest, Steps, Days

LEMMA QuotaTypeStep == QuotaTypeOK /\ [QuotaNext]_quotaVars => QuotaTypeOK'
<1> SUFFICES ASSUME QuotaTypeOK, [QuotaNext]_quotaVars PROVE QuotaTypeOK'
  OBVIOUS
<1> USE DEF QuotaTypeOK
<1>0. NoRequest \in [at : Steps, user : Users, day : Days, n : Nat]
  BY UsersAssumption, DayAssumption DEF NoRequest, Steps, Days
<1>1. ASSUME NEW r \in Requests, NEW u \in Users, CheckUser(r, u) PROVE QuotaTypeOK'
  BY <1>0, <1>1 DEF CheckUser, Steps
<1>2. ASSUME NEW r \in Requests, CheckGlobal(r) PROVE QuotaTypeOK'
  BY <1>0, <1>2 DEF CheckGlobal, Steps
<1>3. ASSUME NEW r \in Requests, IncrementUser(r) PROVE QuotaTypeOK'
  BY <1>3 DEF IncrementUser, Steps
<1>4. ASSUME NEW r \in Requests, IncrementGlobal(r) PROVE QuotaTypeOK'
  <2>1. /\ request' = [request EXCEPT ![r] = NoRequest]
        /\ globalCount' = [globalCount EXCEPT ![day] = @ + 1]
        /\ day' = day /\ userCount' = userCount
    BY <1>4 DEF IncrementGlobal
  <2>2. /\ userAccepted' \in [Users -> [Days -> Nat]]
        /\ globalAccepted' \in [Days -> Nat]
    <3>1. CASE UNCHANGED <<userAccepted, globalAccepted>>
      BY <3>1
    <3>2. CASE ~UNCHANGED <<userAccepted, globalAccepted>>
      <4>1. /\ userAccepted' = [userAccepted EXCEPT ![request[r].user][request[r].day] = @ + 1]
            /\ globalAccepted' = [globalAccepted EXCEPT ![day] = @ + 1]
        BY <1>4, <3>2 DEF IncrementGlobal
      <4> QED
        BY <4>1
    <3> QED
      BY <3>1, <3>2
  <2>3. request' \in [Requests -> [at : Steps, user : Users, day : Days, n : Nat]]
    BY <1>0, <2>1
  <2>4. globalCount' \in [Days -> Nat] /\ userCount' \in [Users -> [Days -> Nat]] /\ day' \in Days
    BY <2>1
  <2> QED
    BY <2>2, <2>3, <2>4
<1>5. ASSUME NEW r \in Requests, Fails(r) PROVE QuotaTypeOK'
  BY <1>0, <1>5 DEF Fails
<1>6. CASE Midnight
  BY <1>6, DayAssumption DEF Midnight, Days
<1>7. CASE UNCHANGED quotaVars
  BY <1>7 DEF quotaVars
<1> QED
  BY <1>1, <1>2, <1>3, <1>4, <1>5, <1>6, <1>7 DEF QuotaNext

-----------------------------------------------------------------------------
(* Requests counted for user u on day d within the user's limit, that wait  *)
(* for the global count.                                                    *)
CountedPlaces(u, d) ==
  {r \in Requests : /\ request[r].at = "countGlobal" /\ request[r].n <= UserLimit
                    /\ request[r].user = u /\ request[r].day = d}

PlacesOf(u, d) ==
  /\ userAccepted[u][d] + Cardinality(CountedPlaces(u, d)) <= userCount[u][d]
  /\ userAccepted[u][d] + Cardinality(CountedPlaces(u, d)) <= UserLimit

PlacesOfAll(d) == globalAccepted[d] <= globalCount[d] /\ globalAccepted[d] <= GlobalLimit

PlacesInv ==
  /\ QuotaTypeOK
  /\ \A u \in Users, d \in Days : PlacesOf(u, d)
  /\ \A d \in Days : PlacesOfAll(d)

LEMMA PlacesStart == QuotaInit => PlacesInv
<1> SUFFICES ASSUME QuotaInit PROVE PlacesInv
  OBVIOUS
<1>1. ASSUME NEW u \in Users, NEW d \in Days PROVE PlacesOf(u, d)
  <2>1. CountedPlaces(u, d) = {}
    BY <1>1 DEF QuotaInit, CountedPlaces, NoRequest
  <2> QED
    BY <1>1, <2>1, FS_EmptySet, QuotaAssumption DEF QuotaInit, PlacesOf
<1> QED
  BY <1>1, QuotaTypeStarts, QuotaAssumption DEF QuotaInit, PlacesInv, PlacesOfAll

LEMMA PlacesStep == PlacesInv /\ [QuotaNext]_quotaVars => PlacesInv'
<1> SUFFICES ASSUME PlacesInv, [QuotaNext]_quotaVars PROVE PlacesInv'
  OBVIOUS
<1>t. QuotaTypeOK /\ QuotaTypeOK'
  BY QuotaTypeStep DEF PlacesInv
<1>g. ASSUME NEW d \in Days PROVE PlacesOfAll(d)'
  <2>1. PlacesOfAll(d)
    BY DEF PlacesInv
  <2>2. ASSUME NEW r \in Requests, IncrementGlobal(r) PROVE PlacesOfAll(d)'
    <3>1. globalCount' = [globalCount EXCEPT ![day] = @ + 1]
      BY <2>2 DEF IncrementGlobal
    <3>2. \/ globalAccepted' = globalAccepted
          \/ /\ globalAccepted' = [globalAccepted EXCEPT ![day] = @ + 1]
             /\ globalCount[day] + 1 <= GlobalLimit
      BY <2>2 DEF IncrementGlobal, WithinLimits
    <3>3. day \in Days /\ globalCount \in [Days -> Nat] /\ globalAccepted \in [Days -> Nat]
      BY <1>t DEF QuotaTypeOK
    <3>4. \A e \in Days : PlacesOfAll(e)
      BY DEF PlacesInv
    <3> QED
      BY <3>1, <3>2, <3>3, <3>4, QuotaAssumption DEF PlacesOfAll
  <2>3. ASSUME UNCHANGED <<globalCount, globalAccepted>> PROVE PlacesOfAll(d)'
    BY <2>1, <2>3 DEF PlacesOfAll
  <2> QED
    BY <2>2, <2>3 DEF QuotaNext, quotaVars, CheckUser, CheckGlobal, IncrementUser, Fails, Midnight
<1>u. ASSUME NEW u \in Users, NEW d \in Days PROVE PlacesOf(u, d)'
  <2>0. PlacesOf(u, d) /\ UserLimit \in Nat
    BY QuotaAssumption DEF PlacesInv
  <2>s. CountedPlaces(u, d) \in SUBSET Requests /\ CountedPlaces(u, d)' \in SUBSET Requests
    BY DEF CountedPlaces
  <2>1. ASSUME NEW r \in Requests, NEW v \in Users, CheckUser(r, v) PROVE PlacesOf(u, d)'
    <3>1. CountedPlaces(u, d)' = CountedPlaces(u, d)
      BY <1>t, <2>1 DEF CountedPlaces, CheckUser, QuotaTypeOK, NoRequest
    <3> QED
      BY <2>0, <2>1, <3>1 DEF PlacesOf, CheckUser
  <2>2. ASSUME NEW r \in Requests, CheckGlobal(r) PROVE PlacesOf(u, d)'
    <3>1. CountedPlaces(u, d)' = CountedPlaces(u, d)
      BY <1>t, <2>2 DEF CountedPlaces, CheckGlobal, QuotaTypeOK, NoRequest
    <3> QED
      BY <2>0, <2>2, <3>1 DEF PlacesOf, CheckGlobal
  <2>3. ASSUME NEW r \in Requests, IncrementUser(r) PROVE PlacesOf(u, d)'
    <3>1. \A q \in Requests : q # r => (q \in CountedPlaces(u, d) <=> q \in CountedPlaces(u, d)')
      BY <1>t, <2>3 DEF CountedPlaces, IncrementUser, QuotaTypeOK
    <3>2. r \notin CountedPlaces(u, d)
      BY <2>3 DEF CountedPlaces, IncrementUser
    <3>3. /\ Cardinality(CountedPlaces(u, d)) \in Nat
          /\ r \notin CountedPlaces(u, d)' => Cardinality(CountedPlaces(u, d)') <= Cardinality(CountedPlaces(u, d))
          /\ r \in CountedPlaces(u, d)' => Cardinality(CountedPlaces(u, d)') = Cardinality(CountedPlaces(u, d)) + 1
          /\ Cardinality(CountedPlaces(u, d)') \in Nat
      BY <2>s, <3>1, <3>2, OneRequestMoves
    <3>4. r \in CountedPlaces(u, d)' => /\ request[r].user = u /\ day = d
                                  /\ userCount[u][d] + 1 <= UserLimit
      BY <1>t, <2>3 DEF CountedPlaces, IncrementUser, QuotaTypeOK
    <3>5. /\ userAccepted' = userAccepted
          /\ userCount'[u][d] = IF request[r].user = u /\ day = d
                                THEN userCount[u][d] + 1 ELSE userCount[u][d]
      BY <1>t, <2>3 DEF IncrementUser, QuotaTypeOK
    <3>6. userCount[u][d] \in Nat /\ userAccepted[u][d] \in Nat
      BY <1>t DEF QuotaTypeOK
    <3>7. CASE r \in CountedPlaces(u, d)'
      BY <2>0, <3>3, <3>4, <3>5, <3>6, <3>7 DEF PlacesOf
    <3>8. CASE r \notin CountedPlaces(u, d)'
      BY <2>0, <3>3, <3>5, <3>6, <3>8 DEF PlacesOf
    <3> QED
      BY <3>7, <3>8
  <2>4. ASSUME NEW r \in Requests, request' = [request EXCEPT ![r] = NoRequest]
        PROVE  /\ Cardinality(CountedPlaces(u, d)) \in Nat /\ Cardinality(CountedPlaces(u, d)') \in Nat
               /\ Cardinality(CountedPlaces(u, d)') <= Cardinality(CountedPlaces(u, d))
               /\ r \in CountedPlaces(u, d) =>
                     Cardinality(CountedPlaces(u, d)') = Cardinality(CountedPlaces(u, d)) - 1
    <3>1. /\ \A q \in Requests : q # r => (q \in CountedPlaces(u, d) <=> q \in CountedPlaces(u, d)')
          /\ r \notin CountedPlaces(u, d)'
      BY <1>t, <2>4 DEF CountedPlaces, QuotaTypeOK, NoRequest
    <3> QED
      BY <2>s, <3>1, OneRequestMoves
  <2>5. ASSUME NEW r \in Requests, IncrementGlobal(r) PROVE PlacesOf(u, d)'
    <3>1. request' = [request EXCEPT ![r] = NoRequest] /\ userCount' = userCount
      BY <2>5 DEF IncrementGlobal
    <3>2. \/ userAccepted' = userAccepted
          \/ /\ userAccepted' = [userAccepted EXCEPT ![request[r].user][request[r].day] = @ + 1]
             /\ request[r].n <= UserLimit
      BY <2>5 DEF IncrementGlobal, WithinLimits
    <3>3. userCount[u][d] \in Nat /\ userAccepted[u][d] \in Nat
      BY <1>t DEF QuotaTypeOK
    <3>4. \/ r \in CountedPlaces(u, d) /\ userAccepted'[u][d] = userAccepted[u][d] + 1
          \/ userAccepted'[u][d] = userAccepted[u][d]
      <4>1. userAccepted \in [Users -> [Days -> Nat]] /\ request[r].at = "countGlobal"
        BY <1>t, <2>5 DEF QuotaTypeOK, IncrementGlobal
      <4>2. CASE request[r].user = u /\ request[r].day = d
        BY <3>2, <4>1, <4>2 DEF CountedPlaces
      <4>3. CASE ~(request[r].user = u /\ request[r].day = d)
        BY <3>2, <4>1, <4>3
      <4> QED
        BY <4>2, <4>3
    <3>5. /\ Cardinality(CountedPlaces(u, d)) \in Nat /\ Cardinality(CountedPlaces(u, d)') \in Nat
          /\ Cardinality(CountedPlaces(u, d)') <= Cardinality(CountedPlaces(u, d))
          /\ r \in CountedPlaces(u, d) => Cardinality(CountedPlaces(u, d)') = Cardinality(CountedPlaces(u, d)) - 1
      BY <2>4, <3>1
    <3> QED
      BY <2>0, <3>1, <3>3, <3>4, <3>5 DEF PlacesOf
  <2>6. ASSUME NEW r \in Requests, Fails(r) PROVE PlacesOf(u, d)'
    <3>1. userCount[u][d] \in Nat /\ userAccepted[u][d] \in Nat
      BY <1>t DEF QuotaTypeOK
    <3>2. /\ Cardinality(CountedPlaces(u, d)) \in Nat /\ Cardinality(CountedPlaces(u, d)') \in Nat
          /\ Cardinality(CountedPlaces(u, d)') <= Cardinality(CountedPlaces(u, d))
      BY <2>4, <2>6 DEF Fails
    <3> QED
      BY <2>0, <2>6, <3>1, <3>2 DEF PlacesOf, Fails
  <2>7. ASSUME Midnight \/ UNCHANGED quotaVars PROVE PlacesOf(u, d)'
    BY <2>0, <2>7 DEF PlacesOf, CountedPlaces, Midnight, quotaVars
  <2> QED
    BY <2>1, <2>2, <2>3, <2>5, <2>6, <2>7 DEF QuotaNext
<1> QED
  BY <1>t, <1>g, <1>u DEF PlacesInv

(* However many requests check and count at once, on whatever days, no user *)
(* gets more than the user's limit and all of them no more than the global  *)
(* limit.                                                                    *)
THEOREM QuotasAlwaysHold == QuotaSpec => []QuotasHold
<1>1. PlacesInv => QuotasHold
  <2> SUFFICES ASSUME PlacesInv, NEW d \in Days, NEW u \in Users
               PROVE  userAccepted[u][d] <= UserLimit /\ globalAccepted[d] <= GlobalLimit
    BY DEF QuotasHold, PlacesInv, PlacesOfAll
  <2>1. PlacesOf(u, d) /\ PlacesOfAll(d) /\ userAccepted[u][d] \in Nat
    BY DEF PlacesInv, QuotaTypeOK
  <2>2. CountedPlaces(u, d) \in SUBSET Requests
    BY DEF CountedPlaces
  <2>3. Cardinality(CountedPlaces(u, d)) \in Nat
    BY <2>2, SomeRequests
  <2> QED
    BY <2>1, <2>3, QuotaAssumption DEF PlacesOf, PlacesOfAll
<1> QED
  BY <1>1, PlacesStart, PlacesStep, PTL DEF QuotaSpec
-----------------------------------------------------------------------------
(* Requests of user u, and of all users, that have been checked and are not *)
(* counted yet.                                                             *)
ToCountFor(u) ==
  {r \in Requests : request[r].at \in {"checkGlobal", "countUser"} /\ request[r].user = u}

ToCountForAll == {r \in Requests : request[r].at \in {"countUser", "countGlobal"}}

UserOwes(u) ==
  /\ userCount[u][day] + Cardinality(ToCountFor(u)) < UserLimit + Cardinality(Requests)
  /\ \A d \in Days : userCount[u][d] < UserLimit + Cardinality(Requests)
  /\ \A d \in Days : d > day => userCount[u][d] = 0

AllOwe ==
  /\ globalCount[day] + Cardinality(ToCountForAll) < GlobalLimit + Cardinality(Requests)
  /\ \A d \in Days : globalCount[d] < GlobalLimit + Cardinality(Requests)
  /\ \A d \in Days : d > day => globalCount[d] = 0

OverrunInv == QuotaTypeOK /\ (\A u \in Users : UserOwes(u)) /\ AllOwe

LEMMA OverrunStarts == QuotaInit => OverrunInv
<1> SUFFICES ASSUME QuotaInit PROVE OverrunInv
  OBVIOUS
<1>1. Cardinality(Requests) \in Nat /\ 0 \in Days /\ Cardinality({}) = 0
  BY SomeRequests, DayAssumption, FS_EmptySet DEF Days
<1>2. ToCountForAll = {} /\ \A u \in Users : ToCountFor(u) = {}
  BY DEF QuotaInit, ToCountForAll, ToCountFor, NoRequest
<1> QED
  BY <1>1, <1>2, QuotaTypeStarts, QuotaAssumption DEF QuotaInit, OverrunInv, UserOwes, AllOwe

LEMMA OverrunStep == OverrunInv /\ [QuotaNext]_quotaVars => OverrunInv'
<1> SUFFICES ASSUME OverrunInv, [QuotaNext]_quotaVars PROVE OverrunInv'
  OBVIOUS
<1>t. QuotaTypeOK /\ QuotaTypeOK'
  BY QuotaTypeStep DEF OverrunInv
<1>n. /\ UserLimit \in Nat \ {0} /\ GlobalLimit \in Nat \ {0}
      /\ Cardinality(Requests) \in Nat /\ day \in Days /\ Days \subseteq Nat
  BY <1>t, QuotaAssumption, SomeRequests DEF QuotaTypeOK, Days
<1>a. AllOwe'
  <2>0. AllOwe
    BY DEF OverrunInv
  <2>s. ToCountForAll \in SUBSET Requests /\ ToCountForAll' \in SUBSET Requests
    BY DEF ToCountForAll
  <2>c. Cardinality(ToCountForAll) \in Nat /\ Cardinality(ToCountForAll') \in Nat
    BY <2>s, SomeRequests
  <2>g. globalCount \in [Days -> Nat]
    BY <1>t DEF QuotaTypeOK
  <2>1. ASSUME UNCHANGED <<globalCount, day>>,
               Cardinality(ToCountForAll') <= Cardinality(ToCountForAll)
        PROVE  AllOwe'
    BY <1>n, <2>0, <2>1, <2>c, <2>g DEF AllOwe
  <2>2. ASSUME NEW r \in Requests, NEW u \in Users, CheckUser(r, u) PROVE AllOwe'
    <3>1. /\ \A q \in Requests : q # r => (q \in ToCountForAll <=> q \in ToCountForAll')
          /\ r \notin ToCountForAll'
      BY <1>t, <2>2 DEF CheckUser, ToCountForAll, QuotaTypeOK, NoRequest
    <3>2. Cardinality(ToCountForAll') <= Cardinality(ToCountForAll)
      BY <2>s, <3>1, OneRequestMoves
    <3> QED
      BY <2>1, <2>2, <3>2 DEF CheckUser
  <2>3. ASSUME NEW r \in Requests, CheckGlobal(r) PROVE AllOwe'
    <3>1. /\ \A q \in Requests : q # r => (q \in ToCountForAll <=> q \in ToCountForAll')
          /\ r \notin ToCountForAll
          /\ r \in ToCountForAll' => globalCount[day] < GlobalLimit
          /\ globalCount' = globalCount /\ day' = day
      BY <1>t, <2>3 DEF CheckGlobal, ToCountForAll, QuotaTypeOK, NoRequest
    <3>2. CASE r \notin ToCountForAll'
      <4>1. Cardinality(ToCountForAll') <= Cardinality(ToCountForAll)
        BY <2>s, <3>1, <3>2, OneRequestMoves
      <4> QED
        BY <2>1, <3>1, <4>1
    <3>3. CASE r \in ToCountForAll'
      <4>1. Cardinality(ToCountForAll') <= Cardinality(Requests)
        BY <2>s, SomeRequests
      <4> QED
        BY <1>n, <2>0, <2>c, <2>g, <3>1, <3>3, <4>1 DEF AllOwe
    <3> QED
      BY <3>2, <3>3
  <2>4. ASSUME NEW r \in Requests, IncrementUser(r) PROVE AllOwe'
    <3>1. ToCountForAll' = ToCountForAll
      BY <1>t, <2>4 DEF IncrementUser, ToCountForAll, QuotaTypeOK
    <3> QED
      BY <2>1, <2>4, <2>c, <3>1 DEF IncrementUser
  <2>5. ASSUME NEW r \in Requests, IncrementGlobal(r) PROVE AllOwe'
    <3>1. /\ \A q \in Requests : q # r => (q \in ToCountForAll <=> q \in ToCountForAll')
          /\ r \in ToCountForAll /\ r \notin ToCountForAll'
          /\ globalCount' = [globalCount EXCEPT ![day] = @ + 1] /\ day' = day
      BY <1>t, <2>5 DEF IncrementGlobal, ToCountForAll, QuotaTypeOK, NoRequest
    <3>2. Cardinality(ToCountForAll') = Cardinality(ToCountForAll) - 1
      BY <2>s, <3>1, OneRequestMoves
    <3> QED
      BY <1>n, <2>0, <2>c, <2>g, <3>1, <3>2 DEF AllOwe
  <2>6. ASSUME NEW r \in Requests, Fails(r) PROVE AllOwe'
    <3>1. /\ \A q \in Requests : q # r => (q \in ToCountForAll <=> q \in ToCountForAll')
          /\ r \notin ToCountForAll'
      BY <1>t, <2>6 DEF Fails, ToCountForAll, QuotaTypeOK, NoRequest
    <3>2. Cardinality(ToCountForAll') <= Cardinality(ToCountForAll)
      BY <2>s, <3>1, OneRequestMoves
    <3> QED
      BY <2>1, <2>6, <3>2 DEF Fails
  <2>7. ASSUME Midnight PROVE AllOwe'
    <3>1. Cardinality(ToCountForAll') <= Cardinality(Requests)
      BY <2>s, SomeRequests
    <3>2. day' = day + 1 /\ day' \in Days /\ globalCount' = globalCount
      BY <1>t, <2>7 DEF Midnight, QuotaTypeOK
    <3>3. day' > day /\ \A d \in Days : d > day' => d > day
      BY <1>n, <3>2
    <3>4. globalCount[day'] = 0
      BY <2>0, <3>2, <3>3 DEF AllOwe
    <3>5. globalCount'[day'] + Cardinality(ToCountForAll') < GlobalLimit + Cardinality(Requests)
      BY <1>n, <2>c, <3>1, <3>2, <3>4
    <3> QED
      BY <2>0, <3>2, <3>3, <3>5 DEF AllOwe
  <2>8. ASSUME UNCHANGED quotaVars PROVE AllOwe'
    BY <2>0, <2>8 DEF AllOwe, ToCountForAll, quotaVars
  <2> QED
    BY <2>2, <2>3, <2>4, <2>5, <2>6, <2>7, <2>8 DEF QuotaNext
<1>u. ASSUME NEW u \in Users PROVE UserOwes(u)'
  <2>0. UserOwes(u)
    BY DEF OverrunInv
  <2>s. ToCountFor(u) \in SUBSET Requests /\ ToCountFor(u)' \in SUBSET Requests
    BY DEF ToCountFor
  <2>c. Cardinality(ToCountFor(u)) \in Nat /\ Cardinality(ToCountFor(u)') \in Nat
    BY <2>s, SomeRequests
  <2>g. userCount[u] \in [Days -> Nat]
    BY <1>t DEF QuotaTypeOK
  <2>1. ASSUME userCount'[u] = userCount[u], day' = day,
               Cardinality(ToCountFor(u)') <= Cardinality(ToCountFor(u))
        PROVE  UserOwes(u)'
    BY <1>n, <2>0, <2>1, <2>c, <2>g DEF UserOwes
  <2>2. ASSUME NEW r \in Requests, NEW v \in Users, CheckUser(r, v) PROVE UserOwes(u)'
    <3>1. /\ \A q \in Requests : q # r => (q \in ToCountFor(u) <=> q \in ToCountFor(u)')
          /\ r \notin ToCountFor(u)
          /\ r \in ToCountFor(u)' => userCount[u][day] < UserLimit
          /\ userCount' = userCount /\ day' = day
      BY <1>t, <2>2 DEF CheckUser, ToCountFor, QuotaTypeOK, NoRequest
    <3>2. CASE r \notin ToCountFor(u)'
      <4>1. Cardinality(ToCountFor(u)') <= Cardinality(ToCountFor(u))
        BY <2>s, <3>1, <3>2, OneRequestMoves
      <4> QED
        BY <2>1, <3>1, <4>1
    <3>3. CASE r \in ToCountFor(u)'
      <4>1. Cardinality(ToCountFor(u)') <= Cardinality(Requests)
        BY <2>s, SomeRequests
      <4> QED
        BY <1>n, <2>0, <2>c, <2>g, <3>1, <3>3, <4>1 DEF UserOwes
    <3> QED
      BY <3>2, <3>3
  <2>3. ASSUME NEW r \in Requests, CheckGlobal(r) \/ IncrementGlobal(r) \/ Fails(r)
        PROVE  UserOwes(u)'
    <3>1. /\ \A q \in Requests : q # r => (q \in ToCountFor(u) <=> q \in ToCountFor(u)')
          /\ r \in ToCountFor(u)' => r \in ToCountFor(u)
      BY <1>t, <2>3 DEF CheckGlobal, IncrementGlobal, Fails, ToCountFor, QuotaTypeOK, NoRequest
    <3>2. Cardinality(ToCountFor(u)') <= Cardinality(ToCountFor(u))
      BY <2>s, <3>1, OneRequestMoves
    <3> QED
      BY <2>1, <2>3, <3>2 DEF CheckGlobal, IncrementGlobal, Fails
  <2>4. ASSUME NEW r \in Requests, IncrementUser(r) PROVE UserOwes(u)'
    <3>1. /\ \A q \in Requests : q # r => (q \in ToCountFor(u) <=> q \in ToCountFor(u)')
          /\ r \notin ToCountFor(u)'
          /\ request[r].user = u => r \in ToCountFor(u)
          /\ day' = day
      BY <1>t, <2>4 DEF IncrementUser, ToCountFor, QuotaTypeOK
    <3>2. /\ request[r].user # u => userCount'[u] = userCount[u]
          /\ request[r].user = u => userCount'[u] = [userCount[u] EXCEPT ![day] = @ + 1]
      BY <1>t, <2>4 DEF IncrementUser, QuotaTypeOK
    <3>3. CASE request[r].user # u
      <4>1. Cardinality(ToCountFor(u)') <= Cardinality(ToCountFor(u))
        BY <2>s, <3>1, OneRequestMoves
      <4> QED
        BY <2>1, <3>1, <3>2, <3>3, <4>1
    <3>4. CASE request[r].user = u
      <4>1. Cardinality(ToCountFor(u)') = Cardinality(ToCountFor(u)) - 1
        BY <2>s, <3>1, <3>4, OneRequestMoves
      <4> QED
        BY <1>n, <2>0, <2>c, <2>g, <3>1, <3>2, <3>4, <4>1 DEF UserOwes
    <3> QED
      BY <3>3, <3>4
  <2>5. ASSUME Midnight PROVE UserOwes(u)'
    <3>1. Cardinality(ToCountFor(u)') <= Cardinality(Requests)
      BY <2>s, SomeRequests
    <3>2. day' = day + 1 /\ day' \in Days /\ userCount' = userCount
      BY <1>t, <2>5 DEF Midnight, QuotaTypeOK
    <3>3. day' > day /\ \A d \in Days : d > day' => d > day
      BY <1>n, <3>2
    <3>4. userCount[u][day'] = 0
      BY <2>0, <3>2, <3>3 DEF UserOwes
    <3>5. userCount'[u][day'] + Cardinality(ToCountFor(u)') < UserLimit + Cardinality(Requests)
      BY <1>n, <2>c, <3>1, <3>2, <3>4
    <3> QED
      BY <2>0, <3>2, <3>3, <3>5 DEF UserOwes
  <2>6. ASSUME UNCHANGED quotaVars PROVE UserOwes(u)'
    BY <2>0, <2>6 DEF UserOwes, ToCountFor, quotaVars
  <2> QED
    BY <2>2, <2>3, <2>4, <2>5, <2>6 DEF QuotaNext
<1> QED
  BY <1>t, <1>a, <1>u DEF OverrunInv

(* Requests that are refused after they were counted run a counter past its *)
(* limit by fewer than the requests that may be under way at once.          *)
THEOREM OverrunAlwaysBounded == QuotaSpec => []OverrunIsBounded
<1>1. OverrunInv => OverrunIsBounded
  <2> SUFFICES ASSUME OverrunInv, NEW d \in Days
               PROVE  /\ \A u \in Users : userCount[u][d] < UserLimit + Cardinality(Requests)
                      /\ globalCount[d] < GlobalLimit + Cardinality(Requests)
    BY DEF OverrunIsBounded
  <2>1. AllOwe /\ \A u \in Users : UserOwes(u)
    BY DEF OverrunInv
  <2> QED
    BY <2>1 DEF UserOwes, AllOwe
<1> QED
  BY <1>1, OverrunStarts, OverrunStep, PTL DEF QuotaSpec

-----------------------------------------------------------------------------
(***************************************************************************)
(* A session is revoked only on purpose, and a revocation lasts, for any   *)
(* number of tabs, sessions and seconds.  As long as the refreshes of a    *)
(* session come one at a time and none of its tokens is lost, the token a  *)
(* request carries is the one whose hash the session keeps.                *)
(***************************************************************************)

KeptRow(s) == session[s].row = "kept"

(* A session not created yet is known to nobody, and a new one only to the  *)
(* request that made it.                                                    *)
UnusedUnheld ==
  \A s \in Sessions : session[s] = NoRow =>
    cookie.session # s /\ \A t \in Tabs : exchange[t].session # s
NewSessionUnseen ==
  \A t \in Tabs : exchange[t].at = "loggedIn" =>
    /\ cookie.session # exchange[t].session
    /\ \A q \in Tabs : q # t => exchange[q].session # exchange[t].session
    /\ KeptRow(exchange[t].session) => exchange[t].signed = session[exchange[t].session].signed

(* A request has a session from its beginning to its end.                   *)
RestsEmpty == \A t \in Tabs : exchange[t].at = "rest" => exchange[t] = AtRest
HasSession ==
  /\ \A t \in Tabs : exchange[t].at # "rest" => exchange[t].session \in Sessions
  /\ cookie # NoCookie => cookie.session \in Sessions

RefreshesAlone ==
  \A t, q \in Tabs : t # q /\ Refreshing(t) /\ Refreshing(q) /\ exchange[t].session = exchange[q].session
    => exchange[t].session \in raced

(* The tokens on their way, and the one in the cookie while none is on its  *)
(* way, are the ones their sessions expect.                                 *)
TokenMatches ==
  \A t \in Tabs : exchange[t].at \in {"find", "refreshed"} /\ exchange[t].session \notin raced /\ KeptRow(exchange[t].session)
    => exchange[t].signed = session[exchange[t].session].signed
CookieMatches ==
  /\ cookie.session \in Sessions \ raced /\ KeptRow(cookie.session)
  /\ \A t \in Tabs : exchange[t].at = "refreshed" => exchange[t].session # cookie.session
  => cookie.signed = session[cookie.session].signed

(* So a refresh finds the wrong token, or its session revoked since it      *)
(* looked, only after what the two properties except.                       *)
RevokesRaced == \A t \in Tabs : exchange[t].at = "revoke" => exchange[t].session \in raced
RotatesCrossed ==
  \A t \in Tabs : exchange[t].at = "rotate" /\ session[exchange[t].session].revoked
    => exchange[t].session \in crossed \cup raced

AuthInv ==
  /\ AuthTypeOK
  /\ UnusedUnheld /\ NewSessionUnseen
  /\ RestsEmpty /\ HasSession /\ RefreshesAlone
  /\ TokenMatches /\ CookieMatches
  /\ RevokesRaced /\ RotatesCrossed
  /\ SignedOutOnPurpose

(* Every request, the clock and the clean-up keep it.                       *)
LEMMA AuthStep == AuthInv /\ [AuthNext]_authVars => AuthInv'
<1> SUFFICES ASSUME AuthInv, [AuthNext]_authVars PROVE AuthInv'
  OBVIOUS
<1>0. /\ MaxLogins \in Nat /\ Sessions \subseteq Nat \ {0} /\ 0 \in 0..MaxLogins /\ 0..MaxLogins = {0} \cup Sessions
      /\ 0 \in 0..MaxSecond /\ MaxSecond \in Nat
  BY LoginsAssumption, SecondsAssumption DEF Sessions
<1> USE <1>0 DEF AuthInv, AuthTypeOK, SessionRows, Exchanges, rows, history
<1>n. NewSession.row = "kept" /\ NewSession.signed = second /\ ~NewSession.revoked /\ NewSession # NoRow
  BY DEF NewSession, NoRow
<1>m. {NewSession, Pruned} \subseteq SessionRows
  BY DEF NewSession, NoRow, Pruned
<1>u. session \in [Sessions -> SessionRows]
  OBVIOUS
<1>h. loggedOut \subseteq Sessions /\ raced \subseteq Sessions /\ crossed \subseteq Sessions
  OBVIOUS
<1>1. ASSUME NEW t \in Tabs, Login(t) PROVE AuthInv'
  <2>1. AuthTypeOK'
    <3>1. session' \in [Sessions -> SessionRows]
      BY <1>1, <1>m DEF Login
    <3>2. exchange' \in [Tabs -> Exchanges]
      BY <1>1 DEF Login, UnusedUnheld, Holding, Token, AtRest
    <3>3. /\ over' \subseteq Sessions
          /\ cookie' \in [session : 0..MaxLogins, signed : 0..MaxSecond]
          /\ second' \in 0..MaxSecond
      BY <1>1 DEF Login
    <3>4. loggedOut' \subseteq Sessions /\ raced' \subseteq Sessions /\ crossed' \subseteq Sessions
      BY <1>1, <1>h DEF Login, HasSession
    <3> QED
      BY <3>1, <3>2, <3>3, <3>4
  <2>2. UnusedUnheld'
    BY <1>1, <1>n DEF UnusedUnheld, Login, Holding, Token, AtRest
  <2>3. RestsEmpty'
    BY <1>1, <1>n DEF RestsEmpty, Login, UnusedUnheld, Holding, Token, AtRest
  <2>4. HasSession'
    BY <1>1, <1>n DEF HasSession, Login, UnusedUnheld, Holding, Token, AtRest, RestsEmpty, NoCookie
  <2>5. NewSessionUnseen'
    BY <1>1, <1>n DEF NewSessionUnseen, Login, UnusedUnheld, Holding, Token, AtRest, KeptRow, HasSession
  <2>6. RefreshesAlone'
    BY <1>1, <1>n DEF RefreshesAlone, Login, UnusedUnheld, Holding, Token, AtRest, Refreshing,
       NewSessionUnseen
  <2>7. TokenMatches'
    BY <1>1, <1>n DEF TokenMatches, Login, UnusedUnheld, Holding, Token, AtRest, KeptRow,
       CookieMatches, RefreshesAlone, Refreshing, NewSessionUnseen, HasSession
  <2>8. CookieMatches'
    BY <1>1, <1>n DEF CookieMatches, Login, UnusedUnheld, Holding, Token, AtRest, KeptRow,
       TokenMatches, RefreshesAlone, Refreshing, NewSessionUnseen, HasSession
  <2>9. RevokesRaced'
    BY <1>1, <1>n DEF RevokesRaced, Login, UnusedUnheld, Holding, Token, AtRest, TokenMatches,
       KeptRow, HasSession
  <2>10. RotatesCrossed'
    BY <1>1, <1>n DEF RotatesCrossed, Login, UnusedUnheld, Holding, Token, AtRest, RevokesRaced, HasSession
  <2>11. SignedOutOnPurpose'
    BY <1>1, <1>n DEF SignedOutOnPurpose, Login, UnusedUnheld, Holding, Token, AtRest, RevokesRaced
  <2> QED
    BY <2>1, <2>2, <2>3, <2>4, <2>5, <2>6, <2>7, <2>8, <2>9, <2>10, <2>11
<1>2. ASSUME NEW t \in Tabs, Refresh(t) PROVE AuthInv'
  <2>1. AuthTypeOK'
    <3>1. session' \in [Sessions -> SessionRows]
      BY <1>2 DEF Refresh
    <3>2. exchange' \in [Tabs -> Exchanges]
      BY <1>2 DEF Refresh, Sent, Holding, AtRest
    <3>3. /\ over' \subseteq Sessions
          /\ cookie' \in [session : 0..MaxLogins, signed : 0..MaxSecond]
          /\ second' \in 0..MaxSecond
      BY <1>2 DEF Refresh
    <3>4. loggedOut' \subseteq Sessions /\ raced' \subseteq Sessions /\ crossed' \subseteq Sessions
      BY <1>2, <1>h DEF Refresh, HasSession
    <3> QED
      BY <3>1, <3>2, <3>3, <3>4
  <2>2. UnusedUnheld'
    BY <1>2 DEF UnusedUnheld, Refresh, Sent, Holding, AtRest, NoRow
  <2>3. RestsEmpty'
    BY <1>2 DEF RestsEmpty, Refresh, Sent, Holding, AtRest
  <2>4. HasSession'
    BY <1>2 DEF HasSession, Refresh, Sent, Holding, AtRest, RestsEmpty, NoCookie
  <2>5. NewSessionUnseen'
    BY <1>2 DEF NewSessionUnseen, Refresh, Sent, Holding, AtRest, UnusedUnheld, KeptRow, HasSession
  <2>6. RefreshesAlone'
    BY <1>2 DEF RefreshesAlone, Refresh, Sent, Holding, AtRest, Refreshing, NewSessionUnseen
  <2>7. TokenMatches'
    BY <1>2 DEF TokenMatches, Refresh, Sent, Holding, AtRest, KeptRow, CookieMatches,
       RefreshesAlone, Refreshing, NewSessionUnseen, HasSession
  <2>8. CookieMatches'
    BY <1>2 DEF CookieMatches, Refresh, Sent, Holding, AtRest, KeptRow, TokenMatches,
       RefreshesAlone, Refreshing, NewSessionUnseen, HasSession
  <2>9. RevokesRaced'
    BY <1>2 DEF RevokesRaced, Refresh, Sent, Holding, AtRest, TokenMatches, KeptRow, HasSession
  <2>10. RotatesCrossed'
    BY <1>2 DEF RotatesCrossed, Refresh, Sent, Holding, AtRest, RevokesRaced, HasSession
  <2>11. SignedOutOnPurpose'
    BY <1>2 DEF SignedOutOnPurpose, Refresh, Sent, Holding, AtRest, RevokesRaced
  <2> QED
    BY <2>1, <2>2, <2>3, <2>4, <2>5, <2>6, <2>7, <2>8, <2>9, <2>10, <2>11
<1>3. ASSUME NEW t \in Tabs, FindSession(t) PROVE AuthInv'
  <2>1. AuthTypeOK'
    <3>1. session' \in [Sessions -> SessionRows]
      BY <1>3 DEF FindSession
    <3>2. exchange' \in [Tabs -> Exchanges]
      BY <1>3 DEF FindSession, Usable, Holding, Token, AtRest
    <3>3. /\ over' \subseteq Sessions
          /\ cookie' \in [session : 0..MaxLogins, signed : 0..MaxSecond]
          /\ second' \in 0..MaxSecond
      BY <1>3 DEF FindSession
    <3>4. loggedOut' \subseteq Sessions /\ raced' \subseteq Sessions /\ crossed' \subseteq Sessions
      BY <1>3, <1>h DEF FindSession, HasSession
    <3> QED
      BY <3>1, <3>2, <3>3, <3>4
  <2>2. UnusedUnheld'
    BY <1>3 DEF UnusedUnheld, FindSession, Usable, Holding, Token, AtRest, NoRow
  <2>3. RestsEmpty'
    BY <1>3 DEF RestsEmpty, FindSession, Usable, Holding, Token, AtRest
  <2>4. HasSession'
    BY <1>3 DEF HasSession, FindSession, Usable, Holding, Token, AtRest, RestsEmpty, NoCookie
  <2>5. NewSessionUnseen'
    BY <1>3 DEF NewSessionUnseen, FindSession, Usable, Holding, Token, AtRest, UnusedUnheld, KeptRow, HasSession
  <2>6. RefreshesAlone'
    BY <1>3 DEF RefreshesAlone, FindSession, Usable, Holding, Token, AtRest, Refreshing, NewSessionUnseen
  <2>7. TokenMatches'
    BY <1>3 DEF TokenMatches, FindSession, Usable, Holding, Token, AtRest, KeptRow, CookieMatches,
       RefreshesAlone, Refreshing, NewSessionUnseen, HasSession
  <2>8. CookieMatches'
    BY <1>3 DEF CookieMatches, FindSession, Usable, Holding, Token, AtRest, KeptRow, TokenMatches,
       RefreshesAlone, Refreshing, NewSessionUnseen, HasSession
  <2>9. RevokesRaced'
    BY <1>3 DEF RevokesRaced, FindSession, Usable, Holding, Token, AtRest, TokenMatches, KeptRow, HasSession
  <2>10. RotatesCrossed'
    BY <1>3 DEF RotatesCrossed, FindSession, Usable, Holding, Token, AtRest, RevokesRaced, HasSession
  <2>11. SignedOutOnPurpose'
    BY <1>3 DEF SignedOutOnPurpose, FindSession, Usable, Holding, Token, AtRest, RevokesRaced
  <2> QED
    BY <2>1, <2>2, <2>3, <2>4, <2>5, <2>6, <2>7, <2>8, <2>9, <2>10, <2>11
<1>4. ASSUME NEW t \in Tabs, Rotate(t) PROVE AuthInv'
  <2>1. AuthTypeOK'
    <3>0. exchange[t].session \in Sessions /\ exchange[t].signed \in 0..MaxSecond
      BY <1>4 DEF Rotate, HasSession
    <3>1. session' \in [Sessions -> SessionRows]
      BY ONLY <1>4, <1>u, <3>0 DEF Rotate
    <3>2. exchange' \in [Tabs -> Exchanges]
      BY <1>4 DEF Rotate, Moves
    <3>3. /\ over' \subseteq Sessions
          /\ cookie' \in [session : 0..MaxLogins, signed : 0..MaxSecond]
          /\ second' \in 0..MaxSecond
      BY <1>4 DEF Rotate
    <3>4. loggedOut' \subseteq Sessions /\ raced' \subseteq Sessions /\ crossed' \subseteq Sessions
      BY <1>4, <1>h DEF Rotate, HasSession
    <3> QED
      BY <3>1, <3>2, <3>3, <3>4
  <2>2. UnusedUnheld'
    BY <1>4 DEF UnusedUnheld, Rotate, Moves, NoRow
  <2>3. RestsEmpty'
    BY <1>4 DEF RestsEmpty, Rotate, Moves, AtRest
  <2>4. HasSession'
    BY <1>4 DEF HasSession, Rotate, Moves, RestsEmpty, AtRest, NoCookie
  <2>5. NewSessionUnseen'
    BY <1>4 DEF NewSessionUnseen, Rotate, Moves, UnusedUnheld, KeptRow, HasSession
  <2>6. RefreshesAlone'
    BY <1>4 DEF RefreshesAlone, Rotate, Moves, Refreshing, NewSessionUnseen
  <2>7. TokenMatches'
    BY <1>4 DEF TokenMatches, Rotate, Moves, KeptRow, CookieMatches, RefreshesAlone, Refreshing,
       NewSessionUnseen, HasSession
  <2>8. CookieMatches'
    BY <1>4 DEF CookieMatches, Rotate, Moves, KeptRow, TokenMatches, RefreshesAlone, Refreshing,
       NewSessionUnseen, HasSession
  <2>9. RevokesRaced'
    BY <1>4 DEF RevokesRaced, Rotate, Moves, TokenMatches, KeptRow, HasSession
  <2>10. RotatesCrossed'
    BY <1>4 DEF RotatesCrossed, Rotate, Moves, RevokesRaced, HasSession
  <2>11. SignedOutOnPurpose'
    BY <1>4 DEF SignedOutOnPurpose, Rotate, Moves, RevokesRaced
  <2> QED
    BY <2>1, <2>2, <2>3, <2>4, <2>5, <2>6, <2>7, <2>8, <2>9, <2>10, <2>11
<1>5. ASSUME NEW t \in Tabs, RevokeMismatched(t) PROVE AuthInv'
  <2>1. AuthTypeOK'
    <3>0. exchange[t].session \in Sessions /\ exchange[t].signed \in 0..MaxSecond
      BY <1>5 DEF RevokeMismatched, HasSession
    <3>1. session' \in [Sessions -> SessionRows]
      BY ONLY <1>5, <1>u, <3>0 DEF RevokeMismatched
    <3>2. exchange' \in [Tabs -> Exchanges]
      BY <1>5 DEF RevokeMismatched, Rests, AtRest
    <3>3. /\ over' \subseteq Sessions
          /\ cookie' \in [session : 0..MaxLogins, signed : 0..MaxSecond]
          /\ second' \in 0..MaxSecond
      BY <1>5 DEF RevokeMismatched
    <3>4. loggedOut' \subseteq Sessions /\ raced' \subseteq Sessions /\ crossed' \subseteq Sessions
      BY <1>5, <1>h DEF RevokeMismatched, HasSession
    <3> QED
      BY <3>1, <3>2, <3>3, <3>4
  <2>2. UnusedUnheld'
    BY <1>5 DEF UnusedUnheld, RevokeMismatched, Rests, AtRest, NoRow
  <2>3. RestsEmpty'
    BY <1>5 DEF RestsEmpty, RevokeMismatched, Rests, AtRest
  <2>4. HasSession'
    BY <1>5 DEF HasSession, RevokeMismatched, Rests, AtRest, RestsEmpty, NoCookie
  <2>5. NewSessionUnseen'
    BY <1>5 DEF NewSessionUnseen, RevokeMismatched, Rests, AtRest, UnusedUnheld, KeptRow, HasSession
  <2>6. RefreshesAlone'
    BY <1>5 DEF RefreshesAlone, RevokeMismatched, Rests, AtRest, Refreshing, NewSessionUnseen
  <2>7. TokenMatches'
    BY <1>5 DEF TokenMatches, RevokeMismatched, Rests, AtRest, KeptRow, CookieMatches,
       RefreshesAlone, Refreshing, NewSessionUnseen, HasSession
  <2>8. CookieMatches'
    BY <1>5 DEF CookieMatches, RevokeMismatched, Rests, AtRest, KeptRow, TokenMatches,
       RefreshesAlone, Refreshing, NewSessionUnseen, HasSession
  <2>9. RevokesRaced'
    BY <1>5 DEF RevokesRaced, RevokeMismatched, Rests, AtRest, TokenMatches, KeptRow, HasSession
  <2>10. RotatesCrossed'
    BY <1>5 DEF RotatesCrossed, RevokeMismatched, Rests, AtRest, RevokesRaced, HasSession
  <2>11. SignedOutOnPurpose'
    BY <1>5 DEF SignedOutOnPurpose, RevokeMismatched, Rests, AtRest, RevokesRaced
  <2> QED
    BY <2>1, <2>2, <2>3, <2>4, <2>5, <2>6, <2>7, <2>8, <2>9, <2>10, <2>11
<1>6. ASSUME NEW t \in Tabs, Logout(t) PROVE AuthInv'
  <2>1. AuthTypeOK'
    <3>1. session' \in [Sessions -> SessionRows]
      BY <1>6 DEF Logout
    <3>2. exchange' \in [Tabs -> Exchanges]
      BY <1>6 DEF Logout, Sent, Holding, AtRest, NoCookie
    <3>3. /\ over' \subseteq Sessions
          /\ cookie' \in [session : 0..MaxLogins, signed : 0..MaxSecond]
          /\ second' \in 0..MaxSecond
      BY <1>6 DEF Logout
    <3>4. loggedOut' \subseteq Sessions /\ raced' \subseteq Sessions /\ crossed' \subseteq Sessions
      BY <1>6, <1>h DEF Logout, HasSession
    <3> QED
      BY <3>1, <3>2, <3>3, <3>4
  <2>2. UnusedUnheld'
    BY <1>6 DEF UnusedUnheld, Logout, Sent, Holding, AtRest, NoCookie, NoRow
  <2>3. RestsEmpty'
    BY <1>6 DEF RestsEmpty, Logout, Sent, Holding, AtRest, NoCookie
  <2>4. HasSession'
    BY <1>6 DEF HasSession, Logout, Sent, Holding, AtRest, NoCookie, RestsEmpty
  <2>5. NewSessionUnseen'
    BY <1>6 DEF NewSessionUnseen, Logout, Sent, Holding, AtRest, NoCookie, UnusedUnheld, KeptRow, HasSession
  <2>6. RefreshesAlone'
    BY <1>6 DEF RefreshesAlone, Logout, Sent, Holding, AtRest, NoCookie, Refreshing, NewSessionUnseen
  <2>7. TokenMatches'
    BY <1>6 DEF TokenMatches, Logout, Sent, Holding, AtRest, NoCookie, KeptRow, CookieMatches,
       RefreshesAlone, Refreshing, NewSessionUnseen, HasSession
  <2>8. CookieMatches'
    BY <1>6 DEF CookieMatches, Logout, Sent, Holding, AtRest, NoCookie, KeptRow, TokenMatches,
       RefreshesAlone, Refreshing, NewSessionUnseen, HasSession
  <2>9. RevokesRaced'
    BY <1>6 DEF RevokesRaced, Logout, Sent, Holding, AtRest, NoCookie, TokenMatches, KeptRow, HasSession
  <2>10. RotatesCrossed'
    BY <1>6 DEF RotatesCrossed, Logout, Sent, Holding, AtRest, NoCookie, RevokesRaced, HasSession
  <2>11. SignedOutOnPurpose'
    BY <1>6 DEF SignedOutOnPurpose, Logout, Sent, Holding, AtRest, NoCookie, RevokesRaced
  <2> QED
    BY <2>1, <2>2, <2>3, <2>4, <2>5, <2>6, <2>7, <2>8, <2>9, <2>10, <2>11
<1>7. ASSUME NEW t \in Tabs, EndSession(t) PROVE AuthInv'
  <2>1. AuthTypeOK'
    <3>0. exchange[t].session \in Sessions /\ exchange[t].signed \in 0..MaxSecond
      BY <1>7 DEF EndSession, HasSession
    <3>1. session' \in [Sessions -> SessionRows]
      <4>1. CASE Usable(exchange[t].session)
        <5>1. session' = [session EXCEPT ![exchange[t].session] = [session[exchange[t].session] EXCEPT !.revoked = TRUE]]
          BY ONLY <1>7, <4>1 DEF EndSession
        <5>2. [session[exchange[t].session] EXCEPT !.revoked = TRUE] \in SessionRows
          BY ONLY <1>u, <3>0
        <5> QED
          BY ONLY <1>u, <3>0, <5>1, <5>2
      <4>2. CASE ~Usable(exchange[t].session)
        BY ONLY <1>7, <1>u, <4>2 DEF EndSession
      <4> QED
        BY <4>1, <4>2
    <3>2. exchange' \in [Tabs -> Exchanges]
      BY <1>7 DEF EndSession, Moves, Usable
    <3>3. /\ over' \subseteq Sessions
          /\ cookie' \in [session : 0..MaxLogins, signed : 0..MaxSecond]
          /\ second' \in 0..MaxSecond
      BY <1>7 DEF EndSession
    <3>4. loggedOut' \subseteq Sessions /\ raced' \subseteq Sessions /\ crossed' \subseteq Sessions
      BY <1>7, <1>h DEF EndSession, HasSession, Usable
    <3> QED
      BY <3>1, <3>2, <3>3, <3>4
  <2>2. UnusedUnheld'
    BY <1>7 DEF UnusedUnheld, EndSession, Moves, Usable, NoRow
  <2>3. RestsEmpty'
    BY <1>7 DEF RestsEmpty, EndSession, Moves, Usable, AtRest
  <2>4. HasSession'
    BY <1>7 DEF HasSession, EndSession, Moves, Usable, RestsEmpty, AtRest, NoCookie
  <2>5. NewSessionUnseen'
    BY <1>7 DEF NewSessionUnseen, EndSession, Moves, Usable, UnusedUnheld, KeptRow, HasSession
  <2>6. RefreshesAlone'
    BY <1>7 DEF RefreshesAlone, EndSession, Moves, Usable, Refreshing, NewSessionUnseen
  <2>7. TokenMatches'
    BY <1>7 DEF TokenMatches, EndSession, Moves, Usable, KeptRow, CookieMatches, RefreshesAlone,
       Refreshing, NewSessionUnseen, HasSession
  <2>8. CookieMatches'
    <3>1. /\ cookie' = cookie /\ raced' = raced
          /\ \A s \in Sessions : session'[s].row = session[s].row /\ session'[s].signed = session[s].signed
          /\ \A q \in Tabs : q # t => exchange'[q] = exchange[q]
          /\ exchange[t].at = "logout"
      BY <1>7 DEF EndSession, Moves, Usable, HasSession
    <3> QED
      BY <3>1 DEF CookieMatches, KeptRow
  <2>9. RevokesRaced'
    BY <1>7 DEF RevokesRaced, EndSession, Moves, Usable, TokenMatches, KeptRow, HasSession
  <2>10. RotatesCrossed'
    BY <1>7 DEF RotatesCrossed, EndSession, Moves, Usable, RevokesRaced, HasSession
  <2>11. SignedOutOnPurpose'
    BY <1>7 DEF SignedOutOnPurpose, EndSession, Moves, Usable, RevokesRaced
  <2> QED
    BY <2>1, <2>2, <2>3, <2>4, <2>5, <2>6, <2>7, <2>8, <2>9, <2>10, <2>11
<1>8. ASSUME NEW t \in Tabs, Reply(t) PROVE AuthInv'
  <2>1. AuthTypeOK'
    <3>1. session' \in [Sessions -> SessionRows]
      BY <1>8 DEF Reply
    <3>2. exchange' \in [Tabs -> Exchanges]
      BY <1>8 DEF Reply, Rests, AtRest, NoCookie
    <3>3. /\ over' \subseteq Sessions
          /\ cookie' \in [session : 0..MaxLogins, signed : 0..MaxSecond]
          /\ second' \in 0..MaxSecond
      BY <1>8 DEF Reply, NoCookie
    <3>4. loggedOut' \subseteq Sessions /\ raced' \subseteq Sessions /\ crossed' \subseteq Sessions
      BY <1>8, <1>h DEF Reply, HasSession
    <3> QED
      BY <3>1, <3>2, <3>3, <3>4
  <2>2. UnusedUnheld'
    BY <1>8 DEF UnusedUnheld, Reply, Rests, AtRest, NoCookie, NoRow
  <2>3. RestsEmpty'
    BY <1>8 DEF RestsEmpty, Reply, Rests, AtRest, NoCookie
  <2>4. HasSession'
    BY <1>8 DEF HasSession, Reply, Rests, AtRest, NoCookie, RestsEmpty
  <2>5. NewSessionUnseen'
    BY <1>8 DEF NewSessionUnseen, Reply, Rests, AtRest, NoCookie, UnusedUnheld, KeptRow, HasSession
  <2>6. RefreshesAlone'
    BY <1>8 DEF RefreshesAlone, Reply, Rests, AtRest, NoCookie, Refreshing, NewSessionUnseen
  <2>7. TokenMatches'
    BY <1>8 DEF TokenMatches, Reply, Rests, AtRest, NoCookie, KeptRow, CookieMatches,
       RefreshesAlone, Refreshing, NewSessionUnseen, HasSession
  <2>8. CookieMatches'
    BY <1>8 DEF CookieMatches, Reply, Rests, AtRest, NoCookie, KeptRow, TokenMatches,
       RefreshesAlone, Refreshing, NewSessionUnseen, HasSession
  <2>9. RevokesRaced'
    BY <1>8 DEF RevokesRaced, Reply, Rests, AtRest, NoCookie, TokenMatches, KeptRow, HasSession
  <2>10. RotatesCrossed'
    BY <1>8 DEF RotatesCrossed, Reply, Rests, AtRest, NoCookie, RevokesRaced, HasSession
  <2>11. SignedOutOnPurpose'
    BY <1>8 DEF SignedOutOnPurpose, Reply, Rests, AtRest, NoCookie, RevokesRaced
  <2> QED
    BY <2>1, <2>2, <2>3, <2>4, <2>5, <2>6, <2>7, <2>8, <2>9, <2>10, <2>11
<1>9. ASSUME NEW t \in Tabs, RequestFails(t) PROVE AuthInv'
  <2>1. AuthTypeOK'
    <3>1. session' \in [Sessions -> SessionRows]
      BY <1>9 DEF RequestFails
    <3>2. exchange' \in [Tabs -> Exchanges]
      BY <1>9 DEF RequestFails, Rests, AtRest
    <3>3. /\ over' \subseteq Sessions
          /\ cookie' \in [session : 0..MaxLogins, signed : 0..MaxSecond]
          /\ second' \in 0..MaxSecond
      BY <1>9 DEF RequestFails
    <3>4. loggedOut' \subseteq Sessions /\ raced' \subseteq Sessions /\ crossed' \subseteq Sessions
      BY <1>9, <1>h DEF RequestFails, HasSession
    <3> QED
      BY <3>1, <3>2, <3>3, <3>4
  <2>2. UnusedUnheld'
    BY <1>9 DEF UnusedUnheld, RequestFails, Rests, AtRest, NoRow
  <2>3. RestsEmpty'
    BY <1>9 DEF RestsEmpty, RequestFails, Rests, AtRest
  <2>4. HasSession'
    BY <1>9 DEF HasSession, RequestFails, Rests, AtRest, RestsEmpty, NoCookie
  <2>5. NewSessionUnseen'
    BY <1>9 DEF NewSessionUnseen, RequestFails, Rests, AtRest, UnusedUnheld, KeptRow, HasSession
  <2>6. RefreshesAlone'
    BY <1>9 DEF RefreshesAlone, RequestFails, Rests, AtRest, Refreshing, NewSessionUnseen
  <2>7. TokenMatches'
    BY <1>9 DEF TokenMatches, RequestFails, Rests, AtRest, KeptRow, CookieMatches, RefreshesAlone,
       Refreshing, NewSessionUnseen, HasSession
  <2>8. CookieMatches'
    BY <1>9 DEF CookieMatches, RequestFails, Rests, AtRest, KeptRow, TokenMatches, RefreshesAlone,
       Refreshing, NewSessionUnseen, HasSession
  <2>9. RevokesRaced'
    BY <1>9 DEF RevokesRaced, RequestFails, Rests, AtRest, TokenMatches, KeptRow, HasSession
  <2>10. RotatesCrossed'
    BY <1>9 DEF RotatesCrossed, RequestFails, Rests, AtRest, RevokesRaced, HasSession
  <2>11. SignedOutOnPurpose'
    BY <1>9 DEF SignedOutOnPurpose, RequestFails, Rests, AtRest, RevokesRaced
  <2> QED
    BY <2>1, <2>2, <2>3, <2>4, <2>5, <2>6, <2>7, <2>8, <2>9, <2>10, <2>11
<1>10. ASSUME NEW s \in Sessions, SessionExpires(s) PROVE AuthInv'
  <2>1. AuthTypeOK'
    BY <1>10, <1>h DEF SessionExpires
  <2>2. /\ UnusedUnheld' /\ NewSessionUnseen' /\ RestsEmpty' /\ HasSession' /\ RefreshesAlone'
        /\ RevokesRaced' /\ SignedOutOnPurpose'
    BY <1>10 DEF SessionExpires, UnusedUnheld, NewSessionUnseen, KeptRow, RestsEmpty, HasSession,
       RefreshesAlone, Refreshing,
       RevokesRaced, SignedOutOnPurpose
  <2>3. TokenMatches' /\ CookieMatches' /\ RotatesCrossed'
    BY <1>10 DEF SessionExpires, TokenMatches, CookieMatches, RotatesCrossed, KeptRow, HasSession
  <2> QED
    BY <2>1, <2>2, <2>3
<1>11. ASSUME PruneStaleSessions PROVE AuthInv'
  <2>1. AuthTypeOK'
    <3>1. session' \in [Sessions -> SessionRows]
      BY ONLY <1>11, <1>u, <1>m DEF PruneStaleSessions
    <3> QED
      BY <1>11, <1>h, <3>1 DEF PruneStaleSessions
  <2>2. /\ UnusedUnheld' /\ NewSessionUnseen' /\ RestsEmpty' /\ HasSession' /\ RefreshesAlone'
        /\ RevokesRaced' /\ SignedOutOnPurpose'
    BY <1>11 DEF PruneStaleSessions, Pruned, NoRow, UnusedUnheld, NewSessionUnseen, KeptRow,
       RestsEmpty, HasSession, RefreshesAlone, Refreshing,
       RevokesRaced, SignedOutOnPurpose
  <2>3. TokenMatches' /\ CookieMatches' /\ RotatesCrossed'
    BY <1>11 DEF PruneStaleSessions, Pruned, NoRow, TokenMatches, CookieMatches,
       RotatesCrossed, KeptRow, HasSession
  <2> QED
    BY <2>1, <2>2, <2>3
<1>12. ASSUME AuthTick PROVE AuthInv'
  <2>1. AuthTypeOK'
    BY <1>12, <1>h DEF AuthTick
  <2>2. /\ UnusedUnheld' /\ NewSessionUnseen' /\ RestsEmpty' /\ HasSession' /\ RefreshesAlone'
        /\ RevokesRaced' /\ SignedOutOnPurpose'
    BY <1>12 DEF AuthTick, UnusedUnheld, NewSessionUnseen, KeptRow, RestsEmpty, HasSession,
       RefreshesAlone, Refreshing,
       RevokesRaced, SignedOutOnPurpose
  <2>3. TokenMatches' /\ CookieMatches' /\ RotatesCrossed'
    BY <1>12 DEF AuthTick, TokenMatches, CookieMatches, RotatesCrossed, KeptRow, HasSession
  <2> QED
    BY <2>1, <2>2, <2>3
<1>13. ASSUME UNCHANGED authVars PROVE AuthInv'
  BY <1>13 DEF authVars, UnusedUnheld, RestsEmpty, HasSession, NewSessionUnseen,
     RefreshesAlone, TokenMatches, CookieMatches, RevokesRaced, RotatesCrossed,
     SignedOutOnPurpose, KeptRow, Refreshing
<1> QED
  BY <1>1, <1>2, <1>3, <1>4, <1>5, <1>6, <1>7, <1>8, <1>9, <1>10, <1>11, <1>12, <1>13 DEF AuthNext

(* The inductive invariant holds from the first state on.                   *)
LEMMA AuthInvHolds == AuthSpec => []AuthInv
<1>1. AuthInit => AuthInv
  BY LoginsAssumption, SecondsAssumption
     DEF AuthInit, AuthInv, AuthTypeOK, SessionRows, Exchanges, Sessions, NoRow, NoCookie,
        AtRest, UnusedUnheld, RestsEmpty, HasSession, NewSessionUnseen, RefreshesAlone,
        TokenMatches, CookieMatches, RevokesRaced, RotatesCrossed, SignedOutOnPurpose,
        Refreshing
<1> QED
  BY <1>1, AuthStep, PTL DEF AuthSpec

(* However the tabs interleave, a session that is revoked was signed out of, *)
(* or two refreshes of it were under way at once, or a token of it was lost. *)
THEOREM NeverSignedOutByRotation == AuthSpec => []SignedOutOnPurpose
<1>1. AuthInv => SignedOutOnPurpose
  BY DEF AuthInv
<1> QED
  BY <1>1, AuthInvHolds, PTL

(* A revocation is taken back only by a refresh that a logout crossed or     *)
(* another refresh raced.                                                    *)
THEOREM RevocationsAlwaysLast == AuthSpec => RevocationsLast
<1>1. AuthInv /\ [AuthNext]_authVars =>
        [\A s \in Sessions : session[s].revoked /\ session'[s].row = "kept" /\ ~session'[s].revoked
            => s \in crossed \cup raced]_authVars
  <2> SUFFICES ASSUME AuthInv, AuthNext, NEW s \in Sessions,
                      session[s].revoked, session'[s].row = "kept", ~session'[s].revoked
               PROVE  s \in crossed \cup raced
    OBVIOUS
  <2> USE DEF AuthInv, AuthTypeOK, SessionRows, Exchanges
  <2>1. ASSUME NEW t \in Tabs, Rotate(t) PROVE s \in crossed \cup raced
    BY <2>1 DEF Rotate, RotatesCrossed
  <2>2. ASSUME NEW t \in Tabs, Login(t) PROVE FALSE
    BY <2>2 DEF Login, NoRow
  <2>3. ASSUME NEW t \in Tabs, \/ Refresh(t) \/ FindSession(t) \/ RevokeMismatched(t) \/ Logout(t)
                               \/ EndSession(t) \/ Reply(t) \/ RequestFails(t)
        PROVE  FALSE
    BY <2>3 DEF Refresh, FindSession, RevokeMismatched, Logout, EndSession, Reply, RequestFails, rows
  <2>4. ASSUME \/ PruneStaleSessions \/ AuthTick \/ \E e \in Sessions : SessionExpires(e) PROVE FALSE
    BY <2>4 DEF PruneStaleSessions, AuthTick, SessionExpires, rows, Pruned, NoRow
  <2> QED
    BY <2>1, <2>2, <2>3, <2>4 DEF AuthNext
<1> QED
  BY <1>1, AuthInvHolds, PTL DEF AuthSpec, RevocationsLast
=============================================================================
