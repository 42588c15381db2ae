-------------------------- MODULE ProjectPageProofs --------------------------
(***************************************************************************)
(* Proofs that a page never announces a result that never was, for any      *)
(* number of stages, of answers that cross and of events under way.         *)
(*                                                                          *)
(* The invariant follows a result from the row it is written in to the      *)
(* page: whatever a processor, an event or an answer still carries has been *)
(* written before, and what has been written is kept in had, for ever.      *)
(***************************************************************************)
EXTENDS ProjectPage, TLAPS

Results == {"COMPLETED", "FAILED"}

PageTypes ==
  /\ project \in Status
  /\ rows \in [Stage -> RowStatus]
  /\ worker \in [stage : Stage, at : {"idle", "begun", "running", "completed", "advance", "failed"}]
  /\ script \in 0..Stages
  /\ channel \in Seq(Stage)
  /\ wire \in Seq(Event)
  /\ polls \in [Polls -> Copy \cup {Slot("free"), Slot("asked")}]
  /\ page \in Copy

(* What a result of a stage in the hands of anyone has been.                *)
Was(status, s) == status \in Results => <<status, s>> \in had

StagesWere(jobs) == \A s \in Stage : Was(jobs[s], s)

(* The writes, and what a processor is about to tell of its own.            *)
WrittenInv ==
  /\ StagesWere(rows)
  /\ project \in Final => <<project, 0>> \in had
  /\ worker.at = "completed" => <<"COMPLETED", worker.stage>> \in had
  /\ worker.at = "failed" => <<"FAILED", worker.stage>> \in had

(* A stage fails together with its project: the page infers one from the    *)
(* other.                                                                   *)
FailedTogether == \A s \in Stage : <<"FAILED", s>> \in had => <<"FAILED", 0>> \in had

EventsInv == \A i \in DOMAIN wire : Was(wire[i].status, wire[i].stage)

AnswersInv ==
  \A p \in Polls : StagesWere(polls[p].jobs) /\ (polls[p].status \in Final => <<polls[p].status, 0>> \in had)

PageInv == PageTypes /\ WrittenInv /\ FailedTogether /\ EventsInv /\ AnswersInv /\ ShownResultsAreReal

(* The answers and events under way, and the page, when nothing is added to *)
(* them and what has been is only added to.                                 *)
LEMMA KeptThere ==
  ASSUME PageInv, had \subseteq had', page' = page, polls' = polls,
         /\ wire' \in Seq(Event)
         /\ project' \in Status
         /\ rows' \in [Stage -> RowStatus]
         /\ worker' \in [stage : Stage, at : {"idle", "begun", "running", "completed", "advance", "failed"}]
         /\ script' \in 0..Stages
         /\ channel' \in Seq(Stage),
         WrittenInv', FailedTogether', EventsInv'
  PROVE  PageInv'
<1>1. PageTypes'
  BY DEF PageInv, PageTypes
<1>2. AnswersInv'
  BY DEF PageInv, AnswersInv, StagesWere, Was
<1>3. ShownResultsAreReal'
  BY DEF PageInv, ShownResultsAreReal
<1> QED
  BY <1>1, <1>2, <1>3 DEF PageInv

(* A sequence that grows at its end, or loses what is at its beginning.     *)
LEMMA Grows ==
  ASSUME NEW S, NEW q \in Seq(S), NEW e \in S
  PROVE  /\ Append(q, e) \in Seq(S)
         /\ \A i \in DOMAIN Append(q, e) : Append(q, e)[i] = e \/ (i \in DOMAIN q /\ Append(q, e)[i] = q[i])
OBVIOUS

LEMMA Shrinks ==
  ASSUME NEW S, NEW q \in Seq(S), NEW n \in 1..Len(q)
  PROVE  /\ SubSeq(q, n + 1, Len(q)) \in Seq(S)
         /\ \A i \in DOMAIN SubSeq(q, n + 1, Len(q)) :
               n + i \in DOMAIN q /\ SubSeq(q, n + 1, Len(q))[i] = q[n + i]
<1>1. n + 1 \in 1..(Len(q) + 1) /\ Len(q) \in Nat
  OBVIOUS
<1>2. Len(SubSeq(q, n + 1, Len(q))) = Len(q) - n
  BY <1>1
<1> QED
  BY <1>1, <1>2

(* An emit of what the stage has been.                                      *)
LEMMA Emitted ==
  ASSUME PageInv, NEW s \in Stage, NEW status \in {"PROCESSING", "COMPLETED", "FAILED"},
         Emit(s, status), Was(status, s), had' = had
  PROVE  wire' \in Seq(Event) /\ EventsInv'
<1> DEFINE e == [stage |-> s, status |-> status]
<1>1. e \in Event /\ e.stage = s /\ e.status = status
  BY DEF Event
<1>2. wire \in Seq(Event) /\ \A i \in DOMAIN wire : Was(wire[i].status, wire[i].stage)
  BY DEF PageInv, PageTypes, EventsInv
<1>3. wire' = IF socket = "joined" THEN Append(wire, e) ELSE wire
  BY DEF Emit
<1> HIDE DEF e
<1>4. wire' \in Seq(Event) /\ \A i \in DOMAIN wire' : Was(wire'[i].status, wire'[i].stage)
  BY <1>1, <1>2, <1>3, Grows
<1> QED
  BY <1>4 DEF EventsInv, Was

(* The writes of those who fail, cancel and complete.                       *)
LEMMA RestCancelled ==
  ASSUME PageInv
  PROVE  /\ CancelRest \in [Stage -> RowStatus]
         /\ \A s \in Stage : Was(CancelRest[s], s)
BY DEF PageInv, PageTypes, WrittenInv, StagesWere, CancelRest, Was, Results, RowStatus, Final

LEMMA StageFailed ==
  ASSUME PageInv, NEW f \in Stage,
         rows' = [CancelRest EXCEPT ![f] = "FAILED"], project' = "FAILED",
         had' = had \cup {<<"FAILED", f>>, <<"FAILED", 0>>},
         worker'.stage = worker.stage,
         worker'.at # worker.at => worker'.at = "failed" /\ f = worker.stage
  PROVE  /\ rows' \in [Stage -> RowStatus] /\ project' \in Status /\ had \subseteq had'
         /\ WrittenInv' /\ FailedTogether'
<1>1. rows' \in [Stage -> RowStatus] /\ project' \in Status /\ had \subseteq had'
  BY RestCancelled DEF RowStatus, Status, Final
<1>2. \A s \in Stage : rows'[s] \in Results => <<rows'[s], s>> \in had'
  BY RestCancelled, <1>1 DEF Was
<1>3. worker'.at \in {"completed", "failed"} =>
        \/ worker'.at = worker.at
        \/ worker'.at = "failed" /\ f = worker'.stage
  OBVIOUS
<1>4. WrittenInv'
  BY <1>1, <1>2, <1>3 DEF PageInv, WrittenInv, StagesWere, Was
<1>5. FailedTogether'
  BY DEF FailedTogether
<1> QED
  BY <1>1, <1>4, <1>5

-----------------------------------------------------------------------------
(* The backend: whatever it tells, it has written.                          *)
LEMMA PipelineStep == PageInv /\ PipelineMoves => PageInv'
<1> SUFFICES ASSUME PageInv, PipelineMoves PROVE PageInv'
  OBVIOUS
<1>0. /\ PageTypes /\ WrittenInv /\ FailedTogether /\ EventsInv
      /\ worker.stage \in Stage /\ Stages \in Stage /\ Stages \in Nat /\ 0 \in 0..Stages
      /\ \A s \in 1..(Stages - 1) : s \in Stage
      /\ \A s \in Stage : s \in 0..Stages /\ s # 0 /\ rows[s] \in RowStatus
  BY PageAssumption DEF PageInv, PageTypes, Stage
<1>w. wire' = wire /\ had \subseteq had' =>
        wire' \in Seq(Event) /\ EventsInv'
  BY <1>0 DEF PageTypes, EventsInv, Was
<1>t. worker \in [stage : Stage, at : {"idle", "begun", "running", "completed", "advance", "failed"}]
  BY <1>0 DEF PageTypes
<1>1. CASE Begin
  <2>1. PICK s \in 1..(Stages - 1) :
          rows' = [rows EXCEPT ![s] = "PROCESSING"] /\ worker' = [stage |-> s, at |-> "begun"]
    BY <1>1 DEF Begin
  <2>2. UNCHANGED <<project, transit, polls, page, had>>
    BY <1>1 DEF Begin
  <2>3. rows' \in [Stage -> RowStatus] /\ s \in Stage
    BY <1>0, <2>1 DEF PageTypes, RowStatus
  <2>4. WrittenInv'
    BY <1>0, <2>1, <2>2, <2>3 DEF WrittenInv, StagesWere, Was, Results, PageTypes
  <2> QED
    BY <1>0, <1>w, <2>1, <2>2, <2>3, <2>4, KeptThere DEF PageTypes, FailedTogether, transit
<1>2. CASE EmitProcessing
  <2>1. /\ Emit(worker.stage, "PROCESSING") /\ worker' = [worker EXCEPT !.at = "running"]
        /\ script' = worker.stage /\ UNCHANGED <<project, rows, channel, polls, page, had>>
    BY <1>2 DEF EmitProcessing
  <2>2. Was("PROCESSING", worker.stage)
    BY DEF Was, Results
  <2>3. wire' \in Seq(Event) /\ EventsInv'
    BY <1>0, <2>1, <2>2, Emitted
  <2>4. WrittenInv' /\ FailedTogether'
    BY <1>0, <1>t, <2>1 DEF WrittenInv, StagesWere, Was, FailedTogether
  <2> QED
    BY <1>0, <1>t, <2>1, <2>3, <2>4, KeptThere DEF PageTypes
<1>3. CASE EmitProgress \/ HandleProgress
  <2>1. PICK s \in Stage : Emit(s, "PROCESSING")
    <3>1. channel # <<>> => Head(channel) \in Stage
      BY <1>0 DEF PageTypes
    <3> QED
      BY <1>0, <1>3, <3>1 DEF EmitProgress, HandleProgress
  <2>2. UNCHANGED <<project, rows, worker, had, script, polls, page>> /\ channel' \in Seq(Stage)
    <3>1. channel \in Seq(Stage) /\ (channel # <<>> => Tail(channel) \in Seq(Stage))
      BY <1>0 DEF PageTypes
    <3> QED
      BY <1>3, <3>1 DEF EmitProgress, HandleProgress, backend
  <2>3. Was("PROCESSING", s)
    BY DEF Was, Results
  <2>4. wire' \in Seq(Event) /\ EventsInv'
    BY <2>1, <2>2, <2>3, Emitted
  <2>5. WrittenInv' /\ FailedTogether'
    BY <1>0, <2>2 DEF WrittenInv, StagesWere, Was, FailedTogether
  <2> QED
    BY <1>0, <2>2, <2>4, <2>5, KeptThere DEF PageTypes
<1>4. CASE PublishProgress \/ ScriptEnds
  <2>1. UNCHANGED <<project, rows, worker, had, wire, polls, page>>
    BY <1>4 DEF PublishProgress, ScriptEnds, backend
  <2>2. channel' \in Seq(Stage) /\ script' \in 0..Stages
    <3>1. script # 0 => <<script>> \in Seq(Stage)
      <4>1. script # 0 => script \in Stage
        BY <1>0 DEF PageTypes, Stage
      <4> QED
        BY <4>1
    <3> QED
      BY <1>0, <1>4, <3>1 DEF PublishProgress, ScriptEnds, PageTypes
  <2>3. WrittenInv' /\ FailedTogether'
    BY <1>0, <2>1 DEF WrittenInv, StagesWere, Was, FailedTogether
  <2> QED
    BY <1>0, <1>w, <2>1, <2>2, <2>3, KeptThere DEF PageTypes
<1>5. CASE Complete
  <2>1. UNCHANGED <<project, channel, wire, polls, page>> /\ script' = 0
    BY <1>5 DEF Complete
  <2>2. CASE Completed /\ worker' = [worker EXCEPT !.at = "completed"]
    <3>1. /\ rows' = [rows EXCEPT ![worker.stage] = "COMPLETED"] /\ had' = had \cup {<<"COMPLETED", worker.stage>>}
          /\ rows' \in [Stage -> RowStatus]
      BY <1>0, <2>2 DEF Completed, PageTypes, RowStatus, Final
    <3>2. WrittenInv' /\ FailedTogether'
      BY <1>0, <1>t, <2>1, <2>2, <3>1 DEF WrittenInv, StagesWere, Was, Results, FailedTogether, PageTypes
    <3> QED
      BY <1>0, <1>w, <1>t, <2>1, <2>2, <3>1, <3>2, KeptThere DEF PageTypes
  <2>3. CASE worker' = [worker EXCEPT !.at = "idle"] /\ UNCHANGED <<rows, had>>
    <3>1. WrittenInv' /\ FailedTogether'
      BY <1>0, <1>t, <2>1, <2>3 DEF WrittenInv, StagesWere, Was, FailedTogether
    <3> QED
      BY <1>0, <1>w, <1>t, <2>1, <2>3, <3>1, KeptThere DEF PageTypes
  <2> QED
    BY <1>5, <2>2, <2>3 DEF Complete
<1>6. CASE EmitCompleted \/ EmitFailed
  <2>1. PICK status \in Results : Emit(worker.stage, status) /\ <<status, worker.stage>> \in had
    BY <1>0, <1>6 DEF EmitCompleted, EmitFailed, WrittenInv, Results
  <2>2. /\ \E at \in {"advance", "idle"} : worker' = [worker EXCEPT !.at = at]
        /\ UNCHANGED <<project, rows, script, channel, polls, page, had>>
    BY <1>6 DEF EmitCompleted, EmitFailed
  <2>3. wire' \in Seq(Event) /\ EventsInv'
    BY <1>0, <2>1, <2>2, Emitted DEF Was, Results
  <2>4. WrittenInv' /\ FailedTogether'
    BY <1>0, <1>t, <2>2 DEF WrittenInv, StagesWere, Was, FailedTogether
  <2> QED
    BY <1>0, <1>t, <2>2, <2>3, <2>4, KeptThere DEF PageTypes
<1>7. CASE Advance
  <2>1. UNCHANGED <<script, channel, wire, polls, page>>
    BY <1>7 DEF Advance, transit
  <2>2. /\ worker' = worker \/ worker' = [worker EXCEPT !.at = "idle"]
        /\ \/ /\ rows' = [rows EXCEPT ![Stages] = "COMPLETED"] /\ project' = project
              /\ had' = had \cup {<<"COMPLETED", Stages>>}
           \/ rows' = rows /\ project' = "COMPLETED" /\ had' = had \cup {<<"COMPLETED", 0>>}
           \/ UNCHANGED <<rows, project, had>>
    BY <1>7 DEF Advance
  <2>3. rows' \in [Stage -> RowStatus] /\ project' \in Status /\ had \subseteq had'
    BY <1>0, <2>2 DEF PageTypes, RowStatus, Status, Final
  <2>4. /\ worker' \in [stage : Stage, at : {"idle", "begun", "running", "completed", "advance", "failed"}]
        /\ worker'.stage = worker.stage /\ worker'.at \in {worker.at, "idle"}
    BY <1>t, <2>2
  <2>5. StagesWere(rows)'
    BY <1>0, <2>2 DEF WrittenInv, StagesWere, Was, PageTypes, Results
  <2>6. (project' \in Final => <<project', 0>> \in had') /\ FailedTogether'
    BY <1>0, <2>2 DEF WrittenInv, FailedTogether
  <2>7. WrittenInv'
    BY <1>0, <2>3, <2>4, <2>5, <2>6 DEF WrittenInv
  <2> QED
    BY <1>0, <1>w, <2>1, <2>3, <2>4, <2>6, <2>7, KeptThere DEF PageTypes
<1>8. CASE Fail
  <2>1. UNCHANGED <<channel, wire, polls, page>> /\ script' = 0 /\ worker.at = "running"
    BY <1>8 DEF Fail
  <2>2. CASE /\ rows' = [CancelRest EXCEPT ![worker.stage] = "FAILED"] /\ project' = "FAILED"
             /\ had' = had \cup {<<"FAILED", worker.stage>>, <<"FAILED", 0>>}
             /\ worker' = [worker EXCEPT !.at = "failed"]
    <3>1. /\ worker' \in [stage : Stage, at : {"idle", "begun", "running", "completed", "advance", "failed"}]
          /\ worker'.stage = worker.stage /\ worker'.at = "failed"
      BY <1>t, <2>2
    <3>2. /\ rows' \in [Stage -> RowStatus] /\ project' \in Status /\ had \subseteq had'
          /\ WrittenInv' /\ FailedTogether'
      BY <1>0, <2>2, <3>1, StageFailed
    <3> QED
      BY <1>0, <1>w, <2>1, <3>1, <3>2, KeptThere DEF PageTypes
  <2>3. CASE worker' = [worker EXCEPT !.at = "idle"] /\ UNCHANGED <<project, rows, had>>
    <3>1. WrittenInv' /\ FailedTogether'
      BY <1>0, <1>t, <2>3 DEF WrittenInv, StagesWere, Was, FailedTogether
    <3> QED
      BY <1>0, <1>w, <1>t, <2>1, <2>3, <3>1, KeptThere DEF PageTypes
  <2> QED
    BY <1>8, <2>2, <2>3 DEF Fail
<1>9. CASE Cancel
  <2>1. /\ project' = "CANCELLED" /\ rows' = CancelRest /\ had' = had \cup {<<"CANCELLED", 0>>}
        /\ UNCHANGED <<worker, script, channel, wire, polls, page>>
    BY <1>9 DEF Cancel, transit
  <2>2. rows' \in [Stage -> RowStatus] /\ project' \in Status
    BY <2>1, RestCancelled DEF Status, Final
  <2>3. StagesWere(rows)' /\ FailedTogether'
    BY <1>0, <2>1, RestCancelled DEF StagesWere, Was, FailedTogether
  <2>4. WrittenInv'
    BY <1>0, <2>1, <2>3 DEF WrittenInv
  <2> QED
    BY <1>0, <1>w, <2>1, <2>2, <2>3, <2>4, KeptThere DEF PageTypes
<1>10. CASE WatchdogFails
  <2>1. /\ project' = "FAILED" /\ rows' = [CancelRest EXCEPT ![worker.stage] = "FAILED"]
        /\ had' = had \cup {<<"FAILED", worker.stage>>, <<"FAILED", 0>>}
        /\ UNCHANGED <<worker, script, channel, wire, polls, page>>
    BY <1>10 DEF WatchdogFails, transit
  <2>2. /\ rows' \in [Stage -> RowStatus] /\ project' \in Status /\ had \subseteq had'
        /\ WrittenInv' /\ FailedTogether'
    BY <1>0, <2>1, StageFailed
  <2> QED
    BY <1>0, <1>w, <2>1, <2>2, KeptThere DEF PageTypes
<1>11. CASE Restart
  <2>1. /\ project' = "PROCESSING" /\ rows' = [s \in Stage |-> "PENDING"]
        /\ worker' = [worker EXCEPT !.at = IF @ \in {"begun", "completed", "failed"} THEN @ ELSE "idle"]
        /\ UNCHANGED <<script, channel, wire, polls, page, had>>
    BY <1>11 DEF Restart, transit
  <2>2. rows' \in [Stage -> RowStatus] /\ project' \in Status
    BY <2>1 DEF Status, RowStatus
  <2>3. /\ worker' \in [stage : Stage, at : {"idle", "begun", "running", "completed", "advance", "failed"}]
        /\ worker'.stage = worker.stage /\ worker'.at \in {worker.at, "idle"}
    BY <1>t, <2>1
  <2>4. WrittenInv' /\ FailedTogether'
    BY <1>0, <2>1, <2>3 DEF WrittenInv, StagesWere, Was, Results, FailedTogether, Final
  <2> QED
    BY <1>0, <1>w, <2>1, <2>2, <2>3, <2>4, KeptThere DEF PageTypes
<1> QED
  BY <1>1, <1>2, <1>3, <1>4, <1>5, <1>6, <1>7, <1>8, <1>9, <1>10, <1>11 DEF PipelineMoves

-----------------------------------------------------------------------------
(* The copy a page keeps, when an answer replaces it or an event is merged. *)
LEMMA MergedCopy ==
  ASSUME PageInv, NEW n \in DOMAIN wire
  PROVE  /\ Merged(wire[n]) \in Copy
         /\ \A s \in Stage : Was(Merged(wire[n]).jobs[s], s)
<1> DEFINE e    == wire[n]
           jobs == [page.jobs EXCEPT ![e.stage] = e.status]
<1>1. e \in Event /\ Was(e.status, e.stage)
  BY DEF PageInv, PageTypes, EventsInv
<1>2. e.stage \in Stage /\ e.status \in RowStatus
  BY <1>1 DEF Event, RowStatus, Final
<1>3. page \in Copy /\ page.jobs \in [Stage -> RowStatus] /\ page.status \in Status
      /\ \A s \in Stage : Was(page.jobs[s], s)
  BY DEF PageInv, PageTypes, Copy, ShownResultsAreReal, Was, Results
<1> HIDE DEF e
<1>4. jobs \in [Stage -> RowStatus] /\ \A s \in Stage : Was(jobs[s], s)
  BY <1>1, <1>2, <1>3
<1> HIDE DEF jobs
<1>5. Derived(jobs) \in Status
  BY <1>3 DEF Derived, Status, Final
<1>6. Merged(e) = IF Ignored(e) THEN page ELSE [status |-> Derived(jobs), jobs |-> jobs]
  BY DEF Merged, jobs
<1>7. Merged(e) \in Copy /\ \A s \in Stage : Was(Merged(e).jobs[s], s)
  BY ONLY <1>3, <1>4, <1>5, <1>6 DEF Copy
<1> QED
  BY <1>7 DEF e

LEMMA Undisturbed ==
  ASSUME PageInv, UNCHANGED <<project, rows, worker, had>>
  PROVE  WrittenInv' /\ FailedTogether'
BY DEF PageInv, WrittenInv, StagesWere, Was, FailedTogether

(* The socket and the page: what they carry has been carried to them.       *)
LEMMA PageStep == PageInv /\ PageMoves => PageInv'
<1> SUFFICES ASSUME PageInv, PageMoves PROVE PageInv'
  OBVIOUS
<1>0. /\ PageTypes /\ EventsInv /\ AnswersInv /\ ShownResultsAreReal /\ wire \in Seq(Event)
      /\ polls \in [Polls -> Copy \cup {Slot("free"), Slot("asked")}]
  BY DEF PageInv, PageTypes
<1>1. UNCHANGED <<project, rows, worker, had, script, channel>>
  BY DEF PageMoves, Join, Disconnect, Deliver, Ask, ServerReads, Answer, RequestFails, backend, transit
<1>2. WrittenInv' /\ FailedTogether'
  BY <1>1, Undisturbed
<1>3. CASE Join \/ Disconnect
  <2>1. UNCHANGED <<polls, page>> /\ (wire' = wire \/ wire' = <<>>)
    BY <1>3 DEF Join, Disconnect, transit
  <2>2. wire' \in Seq(Event) /\ DOMAIN wire' \subseteq DOMAIN wire /\ \A i \in DOMAIN wire' : wire'[i] = wire[i]
    <3>1. CASE wire' = <<>>
      <4>1. <<>> \in Seq(Event) /\ DOMAIN <<>> = {}
        OBVIOUS
      <4> QED
        BY <3>1, <4>1
    <3> QED
      BY <1>0, <2>1, <3>1
  <2>3. EventsInv'
    BY <1>0, <1>1, <2>2 DEF EventsInv, Was
  <2> QED
    BY <1>0, <1>1, <1>2, <2>1, <2>2, <2>3, KeptThere DEF PageTypes
<1>4. CASE Deliver
  <2>1. PICK n \in 1..Len(wire) : page' = Merged(wire[n]) /\ wire' = SubSeq(wire, n + 1, Len(wire))
    BY <1>4 DEF Deliver
  <2>2. polls' = polls /\ n \in DOMAIN wire
    BY <1>0, <1>4, <2>1 DEF Deliver
  <2>3. wire' \in Seq(Event) /\ EventsInv'
    <3>1. wire' \in Seq(Event) /\ \A i \in DOMAIN wire' : n + i \in DOMAIN wire /\ wire'[i] = wire[n + i]
      BY <1>0, <2>1, Shrinks
    <3> QED
      BY <1>0, <1>1, <3>1 DEF EventsInv, Was
  <2>4. page' \in Copy /\ ShownResultsAreReal'
    BY <1>1, <2>1, <2>2, MergedCopy DEF ShownResultsAreReal, Was, Results
  <2>5. AnswersInv'
    BY <1>0, <1>1, <2>2 DEF AnswersInv, StagesWere, Was
  <2> QED
    BY <1>0, <1>1, <1>2, <2>2, <2>3, <2>4, <2>5 DEF PageInv, PageTypes
<1>5. ASSUME NEW p \in Polls, Ask(p) \/ ServerReads(p) \/ Answer(p) \/ RequestFails(p) PROVE PageInv'
  <2>1. wire' = wire
    BY <1>5 DEF Ask, ServerReads, Answer, RequestFails, transit
  <2>2. PICK slot \in Copy \cup {Slot("free"), Slot("asked")} :
          polls' = [polls EXCEPT ![p] = slot] /\ slot \in {Slot("free"), Slot("asked"), [status |-> project, jobs |-> rows]}
    BY <1>0, <1>5 DEF Ask, ServerReads, Answer, RequestFails, PageTypes, Copy
  <2>3. StagesWere(slot.jobs) /\ (slot.status \in Final => <<slot.status, 0>> \in had)
    BY <2>2 DEF PageInv, WrittenInv, StagesWere, Was, Slot, Results, Final
  <2>4. polls' \in [Polls -> Copy \cup {Slot("free"), Slot("asked")}] /\ AnswersInv'
    BY <1>0, <1>1, <2>2, <2>3 DEF AnswersInv, StagesWere, Was
  <2>5. page' \in Copy /\ ShownResultsAreReal'
    <3>1. CASE page' = page
      BY <1>0, <1>1, <3>1 DEF PageTypes, ShownResultsAreReal
    <3>2. CASE Answer(p)
      <4>1. page' = polls[p] /\ polls[p].status \notin {"free", "asked"}
        BY <3>2 DEF Answer, Answered
      <4>2. polls[p] \in Copy
        BY <1>0, <4>1 DEF Slot
      <4> QED
        BY <1>0, <1>1, <4>1, <4>2 DEF AnswersInv, StagesWere, Was, Results, ShownResultsAreReal
    <3> QED
      BY <1>5, <3>1, <3>2 DEF Ask, ServerReads, RequestFails
  <2>6. EventsInv'
    BY <1>0, <1>1, <2>1 DEF EventsInv, Was
  <2> QED
    BY <1>0, <1>1, <1>2, <2>1, <2>4, <2>5, <2>6 DEF PageInv, PageTypes
<1> QED
  BY <1>3, <1>4, <1>5 DEF PageMoves

LEMMA PageInvHolds == PageSpec => []PageInv
<1>1. PageInit => PageInv
  <2> SUFFICES ASSUME PageInit PROVE PageInv
    OBVIOUS
  <2>1. 1 \in Stage /\ 0 \in 0..Stages
    BY PageAssumption DEF Stage
  <2>2. rows \in [Stage -> RowStatus] /\ project \in Status /\ \A s \in Stage : rows[s] = "PENDING"
    BY DEF PageInit, RowStatus, Status
  <2>3. page \in Copy /\ page.jobs = rows
    BY <2>2 DEF PageInit, Copy
  <2>4. PageTypes
    BY <2>1, <2>2, <2>3 DEF PageInit, PageTypes
  <2>5. \A p \in Polls : polls[p] = Slot("free")
    BY DEF PageInit
  <2>6. AnswersInv
    BY <2>5 DEF AnswersInv, Slot, StagesWere, Was, Results, Final
  <2>7. WrittenInv /\ ShownResultsAreReal
    BY <2>2, <2>3 DEF PageInit, WrittenInv, StagesWere, Was, Results, Final, ShownResultsAreReal
  <2> QED
    BY <2>4, <2>6, <2>7 DEF PageInit, PageInv, FailedTogether, EventsInv
<1>2. PageInv /\ UNCHANGED pageVars => PageInv'
  BY DEF PageInv, PageTypes, WrittenInv, StagesWere, Was, FailedTogether, EventsInv, AnswersInv,
         ShownResultsAreReal, pageVars
<1> QED
  BY <1>1, <1>2, PipelineStep, PageStep, PTL DEF PageSpec, PageNext

(* A stage the page shows as completed or failed has been so in the         *)
(* database, however its events and answers were delayed, lost or crossed.  *)
THEOREM ShownAlwaysReal == PageSpec => []ShownResultsAreReal
<1>1. PageInv => ShownResultsAreReal
  BY DEF PageInv
<1> QED
  BY <1>1, PageInvHolds, PTL

-----------------------------------------------------------------------------
(* The status the page infers from its jobs needs more than ShownResultsAreReal: *)
(* a failed stage tells of a failed project, because both are written by one     *)
(* transaction.                                                                  *)
LEMMA InferredStatus ==
  ASSUME PageInv, FinalStatusWasReal, ~TrainingFailed, NEW jobs \in [Stage -> RowStatus],
         StagesWere(jobs), Derived(jobs) \in Final
  PROVE  \/ <<Derived(jobs), 0>> \in had
         \/ Derived(jobs) = "COMPLETED" /\ \A s \in Stage : <<"COMPLETED", s>> \in had
<1>1. CASE \E s \in Stage : jobs[s] = "FAILED"
  BY <1>1 DEF PageInv, FailedTogether, StagesWere, Was, Results, Derived
<1>2. CASE \A s \in Stage : jobs[s] = "COMPLETED"
  <2>1. ~\E s \in Stage : jobs[s] = "FAILED"
    BY <1>2
  <2> QED
    BY <1>2, <2>1 DEF StagesWere, Was, Results, Derived
<1>3. CASE ~(\E s \in Stage : jobs[s] = "FAILED") /\ ~(\A s \in Stage : jobs[s] = "COMPLETED")
  <2>1. Derived(jobs) = page.status
    BY <1>3 DEF Derived, Final
  <2> QED
    BY <2>1 DEF FinalStatusWasReal
<1> QED
  BY <1>1, <1>2, <1>3

LEMMA FinalStep ==
  ASSUME PageInv, FinalStatusWasReal, ~TrainingFailed, [PageNext]_pageVars
  PROVE  FinalStatusWasReal'
<1>1. had \subseteq had'
  BY DEF PageNext, PipelineMoves, PageMoves, Begin, EmitProcessing, EmitProgress,
     PublishProgress, HandleProgress,
         Complete, Completed, EmitCompleted, Advance, Fail, EmitFailed, Cancel, WatchdogFails, Restart, ScriptEnds,
         Join, Disconnect, Deliver, Ask, ServerReads, Answer, RequestFails, backend, pageVars
<1>2. CASE page' = page
  BY <1>1, <1>2 DEF FinalStatusWasReal
<1>3. CASE Deliver
  <2>1. PICK n \in DOMAIN wire : page' = Merged(wire[n])
    BY <1>3 DEF Deliver, PageInv, PageTypes
  <2> DEFINE jobs == [page.jobs EXCEPT ![wire[n].stage] = wire[n].status]
  <2>2. page' = page \/ page' = [status |-> Derived(jobs), jobs |-> jobs]
    BY <2>1 DEF Merged
  <2>3. CASE page' = [status |-> Derived(jobs), jobs |-> jobs]
    <3>1. page'.status = Derived(jobs) /\ page'.jobs = jobs
      BY <2>3
    <3>2. jobs \in [Stage -> RowStatus] /\ StagesWere(jobs)
      <4>1. Merged(wire[n]).jobs = jobs /\ Merged(wire[n]) \in Copy
        BY <2>1, <3>1, MergedCopy
      <4> QED
        BY <4>1, MergedCopy DEF Copy, StagesWere
    <3> HIDE DEF jobs
    <3> QED
      BY <1>1, <3>1, <3>2, InferredStatus DEF FinalStatusWasReal
  <2> QED
    BY <1>2, <2>2, <2>3
<1>4. ASSUME NEW p \in Polls, Answer(p) PROVE FinalStatusWasReal'
  BY <1>1, <1>4 DEF Answer, PageInv, AnswersInv, FinalStatusWasReal
<1> QED
  BY <1>2, <1>3, <1>4 DEF PageNext, PipelineMoves, PageMoves, Begin, EmitProcessing,
     EmitProgress, PublishProgress,
         HandleProgress, Complete, EmitCompleted, Advance, Fail, EmitFailed, Cancel, WatchdogFails, Restart,
         ScriptEnds, Join, Disconnect, Ask, ServerReads, RequestFails, backend, pageVars

(* The page never announces a result that never was.  The hypothesis is the *)
(* project's jobs being those of its stages: a FAILED row of another type   *)
(* among them makes the page infer FAILED from any event (TrainingFailed).  *)
THEOREM NoResultInvented ==
  ASSUME ~TrainingFailed
  PROVE  PageSpec => []FinalStatusWasReal
<1>1. PageInit => FinalStatusWasReal
  BY DEF PageInit, FinalStatusWasReal, Final
<1>2. PageInv /\ FinalStatusWasReal /\ [PageNext]_pageVars => FinalStatusWasReal'
  BY FinalStep
<1> QED
  BY <1>1, <1>2, PageInvHolds, PTL DEF PageSpec
=============================================================================
