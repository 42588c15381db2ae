--------------------------- MODULE OpsMetricsProofs ---------------------------
(***************************************************************************)
(* Proofs about the reports of the health service and its alerts: the count *)
(* of the retrying entries of a queue misses none, no two reports over the  *)
(* job table contradict each other, and an alert keeps its distance to the  *)
(* same one told before.                                                    *)
(***************************************************************************)
EXTENDS FiniteSetsExt, OpsMetrics, HealthAlerting, Counting

-----------------------------------------------------------------------------
(***************************************************************************)
(* No entry that retries throughout is missed by the count, for any runs,   *)
(* stages, attempts and any number of entries read at once.                 *)
(***************************************************************************)

Entries == {"none", "waiting", "active", "delayed", "completed", "failed"}

RowType ==
  [status : {"NONE", "PENDING", "PROCESSING", "COMPLETED", "FAILED", "CANCELLED"},
   createdAt : Nat, updatedAt : Nat, output : Outputs \cup {NoOutput},
   entry : Entries, attempts : Nat, queuedAt : Nat, processedOn : Nat]

ScanType == [at : 0..4, asked : Nat, seen : SUBSET Runs, sampled : BOOLEAN,
             steady : SUBSET Runs, short : BOOLEAN]

CountTypes ==
  /\ clock \in Nat /\ Len(origin) \in Nat
  /\ row \in [Key -> RowType]
  /\ scan \in ScanType

(* A run that has not started has nothing in a queue, and FINALIZE never.   *)
QueuesInv ==
  \A k \in Key : k[1] > Len(origin) \/ k[2] = Final => row[k].entry = "none"

First(r) == <<r, StageOrder[1]>>

(* What the count has not seen yet is still ahead of it.                    *)
AheadInv ==
  scan.at \in 1..4 /\ ~scan.sampled /\ ~scan.short =>
    \A r \in scan.steady \ scan.seen : \E i \in scan.at..3 : row[First(r)].entry = ScanOrder[i]

RetryingInv == CountTypes /\ QueuesInv /\ scan.steady \subseteq Retrying /\ AheadInv

-----------------------------------------------------------------------------
(* Writing the entry and the output of one row.                             *)
LEMMA HandedIs ==
  ASSUME NEW new \in [Key -> RowType], NEW k \in Key, clock \in Nat
  PROVE  /\ Handed(new, k) \in [Key -> RowType]
         /\ Handed(new, k)[k].entry = "waiting" /\ Handed(new, k)[k].attempts = new[k].attempts
         /\ \A j \in Key : j # k => Handed(new, k)[j] = new[j]
<1> DEFINE r == [new[k] EXCEPT !.entry = "waiting", !.queuedAt = clock]
<1>1. r \in RowType /\ r.entry = "waiting" /\ r.attempts = new[k].attempts
  BY DEF RowType, Entries
<1>2. Handed(new, k) = [new EXCEPT ![k] = r]
  BY DEF Handed
<1> HIDE DEF r
<1> QED
  BY ONLY <1>1, <1>2, new \in [Key -> RowType], k \in Key

LEMMA CompleteIs ==
  ASSUME NEW new \in [Key -> RowType], NEW k \in Key, clock \in Nat, NEW output \in Outputs \cup {NoOutput}
  PROVE  /\ Complete(new, k, output) \in [Key -> RowType]
         /\ Complete(new, k, output)[k].entry = new[k].entry
         /\ Complete(new, k, output)[k].attempts = new[k].attempts
         /\ \A j \in Key : j # k => Complete(new, k, output)[j] = new[j]
<1> DEFINE r == [new[k] EXCEPT !.status = "COMPLETED", !.updatedAt = clock, !.output = output]
<1>1. r \in RowType /\ r.entry = new[k].entry /\ r.attempts = new[k].attempts
  BY DEF RowType
<1>2. Complete(new, k, output) = [new EXCEPT ![k] = r]
  BY DEF Complete
<1> HIDE DEF r
<1> QED
  BY ONLY <1>1, <1>2, new \in [Key -> RowType], k \in Key

LEMMA OrderIs ==
  /\ 1 \in DOMAIN StageOrder /\ Len(StageOrder) \in DOMAIN StageOrder /\ DOMAIN StageOrder \subseteq Nat
  /\ StageOrder[1] # Final /\ StageOrder[1] \in StageTypes /\ Final \in StageTypes
  /\ \A i \in DOMAIN StageOrder : StageOrder[i] # Final =>
        i + 1 \in DOMAIN StageOrder /\ StageOrder[i + 1] \in StageTypes /\ StageOrder[i + 1] # StageOrder[1]
                                    /\ StageOrder[i + 1] # StageOrder[i]
<1>1. /\ Len(StageOrder) \in Nat /\ Len(StageOrder) >= 2 /\ DOMAIN StageOrder = 1..Len(StageOrder)
      /\ \A i, j \in DOMAIN StageOrder : StageOrder[i] = StageOrder[j] => i = j
  BY OrderAssumption
<1>2. 1 \in DOMAIN StageOrder /\ Len(StageOrder) \in DOMAIN StageOrder /\ DOMAIN StageOrder \subseteq Nat
  BY <1>1
<1>3. StageOrder[1] # Final
  BY <1>1, <1>2 DEF Final
<1>4. ASSUME NEW i \in DOMAIN StageOrder, StageOrder[i] # Final
      PROVE  i + 1 \in DOMAIN StageOrder /\ i + 1 # 1 /\ i + 1 # i
  <2>1. i # Len(StageOrder)
    BY <1>4 DEF Final
  <2> QED
    BY <1>1, <2>1
<1> QED
  BY <1>1, <1>2, <1>3, <1>4 DEF StageTypes, Final

-----------------------------------------------------------------------------
(* What a step of the table does to the entries of the first queue: those   *)
(* that are still steady only go on towards their next attempt.             *)
OnItsWay(r) ==
  /\ row'[First(r)].attempts = row[First(r)].attempts
  /\ \/ row'[First(r)].entry = row[First(r)].entry
     \/ row[First(r)].entry = "delayed" /\ row'[First(r)].entry = "waiting"
     \/ row[First(r)].entry = "waiting" /\ row'[First(r)].entry = "active"

LEMMA GoesOn ==
  ASSUME RetryingInv, CountTypes', QueuesInv',
         scan' = scan \/ \E gone \in SUBSET Runs : scan' = [scan EXCEPT !.steady = @ \ gone],
         \A r \in scan'.steady : OnItsWay(r)
  PROVE  RetryingInv'
<1>0. scan \in ScanType /\ scan.steady \subseteq Runs /\ scan.at \in 0..4
  BY DEF RetryingInv, CountTypes, ScanType
<1>1. /\ scan'.steady \subseteq scan.steady /\ scan'.at = scan.at /\ scan'.seen = scan.seen
      /\ scan'.sampled = scan.sampled /\ scan'.short = scan.short
  BY <1>0 DEF ScanType
<1>2. scan'.steady \subseteq Retrying'
  BY <1>0, <1>1 DEF RetryingInv, Retrying, OnItsWay, First
<1>3. AheadInv'
  <2> SUFFICES ASSUME scan.at \in 1..4, ~scan.sampled, ~scan.short, NEW r \in scan'.steady \ scan'.seen
               PROVE  \E i \in scan.at..3 : row'[First(r)].entry = ScanOrder[i]
    BY <1>1 DEF AheadInv
  <2>1. PICK i \in scan.at..3 : row[First(r)].entry = ScanOrder[i]
    BY <1>1 DEF RetryingInv, AheadInv
  <2>2. i \in {1, 2, 3} /\ ScanOrder[1] = "delayed" /\ ScanOrder[2] = "waiting" /\ ScanOrder[3] = "active"
    BY DEF ScanOrder
  <2>3. OnItsWay(r)
    OBVIOUS
  <2>4. CASE row'[First(r)].entry = row[First(r)].entry
    BY <2>1, <2>4
  <2>5. CASE row[First(r)].entry = "delayed" /\ row'[First(r)].entry = "waiting"
    <3>1. i = 1
      BY ONLY <2>1, <2>2, <2>5
    <3>2. 2 \in scan.at..3
      BY <1>0, <2>1, <3>1
    <3> QED
      BY <2>2, <2>5, <3>2
  <2>6. CASE row[First(r)].entry = "waiting" /\ row'[First(r)].entry = "active"
    <3>1. 3 \in scan.at..3
      BY <2>1, <2>2, <2>6
    <3> QED
      BY <2>2, <2>6, <3>1
  <2> QED
    BY <2>3, <2>4, <2>5, <2>6 DEF OnItsWay
<1> QED
  BY <1>2, <1>3 DEF RetryingInv

LEMMA UnsteadyIs ==
  ASSUME scan \in ScanType, NEW k \in Key, Unsteady(k)
  PROVE  /\ scan' \in ScanType
         /\ \E gone \in SUBSET Runs : scan' = [scan EXCEPT !.steady = @ \ gone]
         /\ k[2] = StageOrder[1] => k[1] \notin scan'.steady
<1> DEFINE gone == IF k[2] = StageOrder[1] THEN {k[1]} ELSE {}
<1>1. gone \in SUBSET Runs
  BY DEF Key
<1>2. scan' = [scan EXCEPT !.steady = @ \ gone]
  BY DEF Unsteady
<1>3. scan'.steady = scan.steady \ gone /\ scan' \in ScanType
  BY <1>2 DEF ScanType
<1> QED
  BY <1>1, <1>2, <1>3

-----------------------------------------------------------------------------
LEMMA RowWrites ==
  ASSUME NEW e \in RowType, NEW now \in Nat
  PROVE  /\ LET begun == [e EXCEPT !.status = "PROCESSING", !.updatedAt = now, !.entry = "active", !.processedOn = now]
            IN  begun \in RowType /\ begun.entry = "active" /\ begun.attempts = e.attempts
         /\ LET again == [e EXCEPT !.entry = "waiting"]
            IN  again \in RowType /\ again.entry = "waiting" /\ again.attempts = e.attempts
         /\ [e EXCEPT !.entry = "delayed", !.attempts = @ + 1, !.updatedAt = now] \in RowType
         /\ [e EXCEPT !.status = "FAILED", !.updatedAt = now, !.entry = "failed", !.attempts = @ + 1] \in RowType
         /\ LET dropped == [e EXCEPT !.status = "CANCELLED", !.updatedAt = now]
            IN  dropped \in RowType /\ dropped.entry = e.entry /\ dropped.attempts = e.attempts
<1>1. LET begun == [e EXCEPT !.status = "PROCESSING", !.updatedAt = now, !.entry = "active", !.processedOn = now]
      IN  begun \in RowType /\ begun.entry = "active" /\ begun.attempts = e.attempts
  BY DEF RowType, Entries
<1>2. LET again == [e EXCEPT !.entry = "waiting"]
      IN  again \in RowType /\ again.entry = "waiting" /\ again.attempts = e.attempts
  BY DEF RowType, Entries
<1>3. [e EXCEPT !.entry = "delayed", !.attempts = @ + 1, !.updatedAt = now] \in RowType
  <2>1. PICK n \in Nat : n = e.attempts + 1
    BY DEF RowType
  <2>2. [e EXCEPT !.entry = "delayed", !.attempts = n, !.updatedAt = now] \in RowType
    BY DEF RowType, Entries
  <2> QED
    BY <2>1, <2>2
<1>4. [e EXCEPT !.status = "FAILED", !.updatedAt = now, !.entry = "failed", !.attempts = @ + 1] \in RowType
  <2>1. PICK n \in Nat : n = e.attempts + 1
    BY DEF RowType
  <2>2. [e EXCEPT !.status = "FAILED", !.updatedAt = now, !.entry = "failed", !.attempts = n] \in RowType
    BY DEF RowType, Entries
  <2> QED
    BY <2>1, <2>2
<1>5. LET dropped == [e EXCEPT !.status = "CANCELLED", !.updatedAt = now]
      IN  dropped \in RowType /\ dropped.entry = e.entry /\ dropped.attempts = e.attempts
  BY DEF RowType, Entries
<1> QED
  BY <1>1, <1>2, <1>3, <1>4, <1>5

LEMMA TableKeeps ==
  ASSUME RetryingInv, ClockTick \/ TableStep
  PROVE  RetryingInv'
<1>0. /\ clock \in Nat /\ Len(origin) \in Nat /\ row \in [Key -> RowType] /\ scan \in ScanType
      /\ QueuesInv /\ scan.steady \subseteq Retrying /\ Retrying \subseteq Runs
      /\ \A k \in Key : k \in Runs \X StageTypes /\ k[1] \in Runs /\ k[2] \in StageTypes /\ k = <<k[1], k[2]>>
      /\ \A r \in Runs, t \in StageTypes : <<r, t>> \in Key
      /\ \A r \in Runs : First(r) \in Key /\ First(r)[1] = r /\ First(r)[2] = StageOrder[1]
      /\ Runs \subseteq Nat /\ \A k \in Key : row[k] \in RowType
  BY OrderIs DEF RetryingInv, CountTypes, Retrying, Key, First, Runs
<1>1. CASE ClockTick
  <2>1. clock' \in Nat /\ UNCHANGED <<origin, row, scan>>
    BY <1>0, <1>1 DEF ClockTick
  <2> QED
    BY <2>1, GoesOn DEF RetryingInv, CountTypes, QueuesInv, OnItsWay
<1>2. ASSUME NEW r \in Runs, StartRun(r) PROVE RetryingInv'
  <2> DEFINE base == [k \in Key |->
                 IF k[1] = r THEN [Absent EXCEPT !.status = "PENDING", !.createdAt = clock, !.updatedAt = clock]
                 ELSE row[k]]
             new == [Absent EXCEPT !.status = "PENDING", !.createdAt = clock, !.updatedAt = clock]
  <2>1. r = Len(origin) + 1 /\ (\E o \in Origins : origin' = Append(origin, o)) /\ scan' = scan /\ clock' = clock
    BY <1>2 DEF StartRun
  <2>2. row' = Handed(base, First(r))
    BY <1>2 DEF StartRun, First
  <2>3. new \in RowType /\ new.entry = "none"
    BY <1>0 DEF Absent, RowType, Entries
  <2>4. base \in [Key -> RowType] /\ (\A k \in Key : k[1] # r => base[k] = row[k])
        /\ (\A k \in Key : k[1] = r => base[k].entry = "none")
    BY <1>0, <2>3
  <2> HIDE DEF base, new
  <2>5. /\ row' \in [Key -> RowType]
        /\ \A k \in Key : k # First(r) => row'[k] = base[k]
    BY <1>0, <2>2, <2>4, HandedIs
  <2>6. Len(origin') = Len(origin) + 1
    BY <1>0, <2>1
  <2>7. QueuesInv'
    <3> SUFFICES ASSUME NEW k \in Key, k[1] > Len(origin') \/ k[2] = Final PROVE row'[k].entry = "none"
      BY DEF QueuesInv
    <3>1. k # First(r)
      BY <1>0, <2>1, <2>6, OrderIs
    <3>2. k[1] > Len(origin) \/ k[2] = Final
      BY <1>0, <2>6
    <3> QED
      BY <1>0, <2>4, <2>5, <3>1, <3>2 DEF QueuesInv
  <2>8. ASSUME NEW q \in scan'.steady PROVE OnItsWay(q)
    <3>1. q \in Retrying /\ q \in Runs /\ First(q) \in Key
      BY <1>0, <2>1, <2>8
    <3>2. row[First(q)].entry # "none"
      BY <3>1 DEF Retrying, First
    <3>3. First(q)[1] # r
      BY <1>0, <2>1, <3>1, <3>2 DEF QueuesInv
    <3>4. row'[First(q)] = row[First(q)]
      BY <1>0, <2>4, <2>5, <3>1, <3>3
    <3> QED
      BY <3>4 DEF OnItsWay
  <2>9. CountTypes'
    BY <1>0, <2>1, <2>5, <2>6 DEF CountTypes
  <2> QED
    BY <2>1, <2>7, <2>8, <2>9, GoesOn
<1>3. ASSUME NEW k \in Key, Begin(k) PROVE RetryingInv'
  <2> DEFINE new == [row[k] EXCEPT !.status = "PROCESSING", !.updatedAt = clock,
                                   !.entry = "active", !.processedOn = clock]
  <2>1. row[k].entry = "waiting" /\ UNCHANGED <<clock, origin, scan>> /\ row' = [row EXCEPT ![k] = new]
    BY <1>3 DEF Begin
  <2>2. new \in RowType /\ new.entry = "active" /\ new.attempts = row[k].attempts
    <3>1. row[k] \in RowType /\ clock \in Nat
      BY <1>0
    <3> QED
      BY ONLY <3>1 DEF RowType, Entries
  <2> HIDE DEF new
  <2>3. row' \in [Key -> RowType] /\ row'[k] = new /\ \A j \in Key : j # k => row'[j] = row[j]
    BY ONLY <1>0, <2>1, <2>2, k \in Key
  <2>4. QueuesInv'
    BY <1>0, <2>1, <2>3 DEF QueuesInv
  <2>5. ASSUME NEW q \in scan'.steady PROVE OnItsWay(q)
    <3>1. First(q) \in Key
      BY <1>0, <2>1, <2>5
    <3> QED
      BY <2>1, <2>2, <2>3, <3>1 DEF OnItsWay
  <2> QED
    BY <1>0, <2>1, <2>3, <2>4, <2>5, GoesOn DEF CountTypes
<1>4. ASSUME NEW k \in Key, BackoffEnds(k) PROVE RetryingInv'
  <2> DEFINE new == [row[k] EXCEPT !.entry = "waiting"]
  <2>1. row[k].entry = "delayed" /\ UNCHANGED <<clock, origin, scan>> /\ row' = [row EXCEPT ![k] = new]
    BY <1>4 DEF BackoffEnds
  <2>2. new \in RowType /\ new.entry = "waiting" /\ new.attempts = row[k].attempts
    BY <1>0, RowWrites
  <2> HIDE DEF new
  <2>3. row' \in [Key -> RowType] /\ row'[k] = new /\ \A j \in Key : j # k => row'[j] = row[j]
    BY ONLY <1>0, <2>1, <2>2, k \in Key
  <2>4. QueuesInv'
    BY <1>0, <2>1, <2>3 DEF QueuesInv
  <2>5. ASSUME NEW q \in scan'.steady PROVE OnItsWay(q)
    <3>1. First(q) \in Key
      BY <1>0, <2>1, <2>5
    <3> QED
      BY <2>1, <2>2, <2>3, <3>1 DEF OnItsWay
  <2> QED
    BY <1>0, <2>1, <2>3, <2>4, <2>5, GoesOn DEF CountTypes
<1>5. ASSUME NEW k \in Key, Unsteady(k), UNCHANGED <<clock, origin>>, row' \in [Key -> RowType], QueuesInv',
             \A r \in Runs : First(r) # k =>
                 row'[First(r)].entry = row[First(r)].entry /\ row'[First(r)].attempts = row[First(r)].attempts
      PROVE  RetryingInv'
  <2>1. /\ scan' \in ScanType
        /\ \E gone \in SUBSET Runs : scan' = [scan EXCEPT !.steady = @ \ gone]
        /\ k[2] = StageOrder[1] => k[1] \notin scan'.steady
    BY <1>0, <1>5, UnsteadyIs
  <2>2. ASSUME NEW q \in scan'.steady PROVE OnItsWay(q)
    <3>1. q \in Runs /\ First(q) # k
      BY <1>0, <2>1, <2>2 DEF ScanType
    <3> QED
      BY <1>5, <3>1 DEF OnItsWay
  <2> QED
    BY <1>0, <1>5, <2>1, <2>2, GoesOn DEF CountTypes
<1>6. ASSUME NEW k \in Key, Succeed(k) PROVE RetryingInv'
  <2>1. PICK output \in Outputs, i \in DOMAIN StageOrder :
          /\ StageOrder[i] = k[2]
          /\ row' = LET done == [Complete(row, k, output) EXCEPT ![k].entry = "completed"]
                        next == <<k[1], StageOrder[i + 1]>>
                    IN  IF StageOrder[i + 1] = Final THEN Complete(done, next, NoOutput) ELSE Handed(done, next)
    BY <1>6 DEF Succeed
  <2> DEFINE done == [Complete(row, k, output) EXCEPT ![k].entry = "completed"]
             next == <<k[1], StageOrder[i + 1]>>
             ended == [Complete(row, k, output)[k] EXCEPT !.entry = "completed"]
  <2>2. row[k].entry = "active" /\ Unsteady(k) /\ UNCHANGED <<clock, origin>>
    BY <1>6 DEF Succeed
  <2>3. k[2] # Final /\ ~(k[1] > Len(origin))
    BY <1>0, <2>2 DEF QueuesInv
  <2>4. next \in Key /\ next # k /\ next[1] = k[1] /\ next[2] = StageOrder[i + 1]
        /\ \A r \in Runs : First(r) # next
    BY <1>0, <2>1, <2>3, OrderIs DEF First
  <2>5. /\ Complete(row, k, output) \in [Key -> RowType]
        /\ \A j \in Key : j # k => Complete(row, k, output)[j] = row[j]
    BY <1>0, CompleteIs
  <2>6. ended \in RowType /\ done = [Complete(row, k, output) EXCEPT ![k] = ended]
    BY <2>5 DEF RowType, Entries
  <2>7. done \in [Key -> RowType] /\ \A j \in Key : j # k => done[j] = row[j]
    BY <2>5, <2>6
  <2>8. row' = IF StageOrder[i + 1] = Final THEN Complete(done, next, NoOutput) ELSE Handed(done, next)
    BY <2>1
  <2> HIDE DEF done, next, ended
  <2>9. /\ row' \in [Key -> RowType] /\ \A j \in Key : j # next => row'[j] = done[j]
        /\ StageOrder[i + 1] = Final => row'[next].entry = done[next].entry
    <3>1. CASE StageOrder[i + 1] = Final
      <4>1. row' = Complete(done, next, NoOutput)
        BY <2>8, <3>1
      <4> QED
        BY ONLY <1>0, <2>4, <2>7, <4>1, CompleteIs
    <3>2. CASE StageOrder[i + 1] # Final
      <4>1. row' = Handed(done, next)
        BY <2>8, <3>2
      <4> QED
        BY ONLY <1>0, <2>4, <2>7, <3>2, <4>1, HandedIs
    <3> QED
      BY <3>1, <3>2
  <2>10. QueuesInv'
    <3> SUFFICES ASSUME NEW j \in Key, j[1] > Len(origin) \/ j[2] = Final PROVE row'[j].entry = "none"
      BY <2>2 DEF QueuesInv
    <3>1. j # k /\ row[j].entry = "none"
      BY <1>0, <2>2, <2>3 DEF QueuesInv
    <3>2. j = next => StageOrder[i + 1] = Final
      BY <2>3, <2>4
    <3> QED
      BY <2>7, <2>9, <3>1, <3>2
  <2>11. \A r \in Runs : First(r) # k => row'[First(r)] = row[First(r)]
    BY <1>0, <2>4, <2>7, <2>9
  <2> QED
    BY <1>5, <2>2, <2>9, <2>10, <2>11
<1>7. ASSUME NEW k \in Key, FailAttempt(k) PROVE RetryingInv'
  <2>1. row[k].entry = "active" /\ Unsteady(k) /\ UNCHANGED <<clock, origin>>
    BY <1>7 DEF FailAttempt
  <2>2. k[2] # Final /\ ~(k[1] > Len(origin))
    BY <1>0, <2>1 DEF QueuesInv
  <2>3. /\ row' \in [Key -> RowType]
        /\ \A j \in Key : j # k => row'[j].entry = row[j].entry /\ row'[j].attempts = row[j].attempts
    <3>1. CASE row' = [row EXCEPT ![k].entry = "delayed", ![k].attempts = @ + 1, ![k].updatedAt = clock]
      <4> DEFINE new == [row[k] EXCEPT !.entry = "delayed", !.attempts = @ + 1, !.updatedAt = clock]
      <4>1. new \in RowType
        BY <1>0, RowWrites
      <4>2. row' = [row EXCEPT ![k] = new]
        BY <1>0, <3>1
      <4> HIDE DEF new
      <4> QED
        BY <1>0, <4>1, <4>2
    <3>2. CASE row' = [j \in Key |->
                    IF j = k THEN [row[j] EXCEPT !.status = "FAILED", !.updatedAt = clock,
                                                 !.entry = "failed", !.attempts = @ + 1]
                    ELSE IF j[1] = k[1] /\ row[j].status \in {"PENDING", "PROCESSING"}
                    THEN [row[j] EXCEPT !.status = "CANCELLED", !.updatedAt = clock]
                    ELSE row[j]]
      <4>1. ASSUME NEW j \in Key
            PROVE  /\ [row[j] EXCEPT !.status = "FAILED", !.updatedAt = clock, !.entry = "failed", !.attempts = @ + 1] \in RowType
                   /\ [row[j] EXCEPT !.status = "CANCELLED", !.updatedAt = clock] \in RowType
                   /\ [row[j] EXCEPT !.status = "CANCELLED", !.updatedAt = clock].entry = row[j].entry
                   /\ [row[j] EXCEPT !.status = "CANCELLED", !.updatedAt = clock].attempts = row[j].attempts
        BY <1>0, RowWrites
      <4> QED
        BY <1>0, <3>2, <4>1
    <3> QED
      BY <1>7, <3>1, <3>2 DEF FailAttempt
  <2>4. QueuesInv'
    BY <1>0, <2>1, <2>2, <2>3 DEF QueuesInv
  <2> QED
    BY <1>0, <1>5, <2>1, <2>3, <2>4
<1> QED
  BY <1>1, <1>2, <1>3, <1>4, <1>6, <1>7 DEF TableStep

-----------------------------------------------------------------------------
(* The reads of the count.                                                  *)
LEMMA EntriesFinite ==
  ASSUME NEW status
  PROVE  /\ IsFiniteSet(EntriesIn(status)) /\ Cardinality(EntriesIn(status)) \in Nat
         /\ EntriesIn(status) \subseteq Runs
         /\ Cardinality(EntriesIn(status)) = 0 => EntriesIn(status) = {}
<1>1. IsFiniteSet(Runs) /\ EntriesIn(status) \in SUBSET Runs
  BY OpsAssumption, FS_Interval DEF Runs, EntriesIn
<1> QED
  BY <1>1, FS_Subset, FS_CardinalityType, FS_EmptySet

LEMMA LeastIs ==
  ASSUME NEW a \in Nat, NEW b \in Nat
  PROVE  Min({a, b}) = IF a <= b THEN a ELSE b
BY DEF Min

(* A scan one of whose reads has been answered, and the place it is at.     *)
LEMMA ScanMoves ==
  ASSUME RetryingInv, UNCHANGED <<clock, origin, row>>, NEW next \in ScanType, scan' = next,
         next.steady = scan.steady, scan.seen \subseteq next.seen, scan.at \in 1..3,
         scan.sampled => next.sampled, scan.short => next.short,
         \/ next.at = scan.at
         \/ /\ next.at = scan.at + 1
            /\ ~next.short => scan.steady \cap EntriesIn(ScanOrder[scan.at]) \subseteq next.seen
  PROVE  RetryingInv'
<1>1. CountTypes' /\ QueuesInv' /\ scan'.steady \subseteq Retrying'
  BY DEF RetryingInv, CountTypes, QueuesInv, Retrying
<1>2. AheadInv'
  <2> SUFFICES ASSUME ~next.sampled, ~next.short, NEW r \in next.steady \ next.seen
               PROVE  \E i \in next.at..3 : row[First(r)].entry = ScanOrder[i]
    BY DEF AheadInv, First
  <2>1. PICK i \in scan.at..3 : row[First(r)].entry = ScanOrder[i]
    BY DEF RetryingInv, AheadInv
  <2>2. CASE next.at = scan.at
    BY <2>1, <2>2
  <2>3. CASE next.at = scan.at + 1 /\ scan.steady \cap EntriesIn(ScanOrder[scan.at]) \subseteq next.seen
    <3>1. r \in Runs
      BY DEF RetryingInv, Retrying
    <3>2. row[First(r)].entry # ScanOrder[scan.at]
      BY <2>3, <3>1 DEF EntriesIn, First
    <3>3. i # scan.at
      BY <2>1, <3>2
    <3>4. i \in next.at..3
      BY <2>1, <2>3, <3>3
    <3> QED
      BY <2>1, <3>4
  <2> QED
    BY <2>2, <2>3
<1> QED
  BY <1>1, <1>2 DEF RetryingInv

LEMMA ScanWrites ==
  ASSUME NEW e \in ScanType, NEW a \in 0..4, NEW n \in Nat, NEW b \in BOOLEAN, NEW R \in SUBSET Runs
  PROVE  /\ [e EXCEPT !.at = a] \in ScanType /\ [e EXCEPT !.asked = n] \in ScanType
         /\ [e EXCEPT !.sampled = b] \in ScanType /\ [e EXCEPT !.short = b] \in ScanType
         /\ [e EXCEPT !.seen = R] \in ScanType /\ [e EXCEPT !.steady = R] \in ScanType
<1>1. [e EXCEPT !.at = a] \in ScanType /\ [e EXCEPT !.asked = n] \in ScanType
  BY DEF ScanType
<1>2. [e EXCEPT !.sampled = b] \in ScanType
  BY DEF ScanType
<1>3. [e EXCEPT !.short = b] \in ScanType
  BY DEF ScanType
<1>4. [e EXCEPT !.seen = R] \in ScanType /\ [e EXCEPT !.steady = R] \in ScanType
  BY DEF ScanType
<1> QED
  BY <1>1, <1>2, <1>3, <1>4

LEMMA NoScanIs == NoScan \in ScanType
BY DEF NoScan, ScanType

LEMMA ScanKeeps ==
  ASSUME RetryingInv, ScanStep
  PROVE  RetryingInv'
<1>0. scan \in ScanType /\ scan.asked \in Nat /\ InspectMax \in Nat /\ Retrying \in SUBSET Runs
      /\ \A status : IsFiniteSet(EntriesIn(status)) /\ Cardinality(EntriesIn(status)) \in Nat
  BY OpsAssumption, EntriesFinite DEF RetryingInv, CountTypes, ScanType, Retrying
<1>1. CASE ScanBegins
  <2> DEFINE next == [NoScan EXCEPT !.at = 1, !.steady = Retrying]
  <2>1. scan' = next /\ UNCHANGED <<clock, origin, row>>
    BY <1>1 DEF ScanBegins
  <2>2. next \in ScanType /\ next.at = 1 /\ next.steady = Retrying
    <3>1. 1 \in 0..4 /\ 0 \in Nat /\ TRUE \in BOOLEAN
      OBVIOUS
    <3>2. [NoScan EXCEPT !.at = 1] \in ScanType
      BY ONLY <3>1, NoScanIs, ScanWrites
    <3>3. [[NoScan EXCEPT !.at = 1] EXCEPT !.steady = Retrying] \in ScanType
      BY ONLY <3>1, <1>0, <3>2, ScanWrites
    <3> QED
      BY <3>3 DEF NoScan
  <2> HIDE DEF next
  <2>3. CountTypes' /\ QueuesInv' /\ Retrying' = Retrying
    BY <2>1, <2>2 DEF RetryingInv, CountTypes, QueuesInv, Retrying
  <2>4. AheadInv'
    <3> SUFFICES ASSUME NEW r \in Retrying PROVE \E i \in 1..3 : row[First(r)].entry = ScanOrder[i]
      BY <2>1, <2>2 DEF AheadInv, First
    <3>1. 1 \in 1..3 /\ 2 \in 1..3 /\ 3 \in 1..3
          /\ ScanOrder[1] = "delayed" /\ ScanOrder[2] = "waiting" /\ ScanOrder[3] = "active"
      BY DEF ScanOrder
    <3>2. row[First(r)].entry \in {"delayed", "waiting", "active"}
      BY DEF Retrying, First
    <3> QED
      BY ONLY <3>1, <3>2
  <2> QED
    BY <2>1, <2>2, <2>3, <2>4 DEF RetryingInv
<1>2. CASE ScanCounts
  <2> DEFINE count == Cardinality(EntriesIn(ScanOrder[scan.at]))
             next == [scan EXCEPT !.asked = Min({count, InspectMax}),
                                  !.sampled = @ \/ count > InspectMax,
                                  !.at = IF count = 0 THEN @ + 1 ELSE @]
  <2>1. scan.at \in 1..3 /\ scan' = next /\ UNCHANGED <<clock, origin, row>>
    BY <1>2 DEF ScanCounts
  <2>2. count \in Nat /\ Min({count, InspectMax}) \in Nat /\ (count = 0 => EntriesIn(ScanOrder[scan.at]) = {})
    BY <1>0, LeastIs, EntriesFinite
  <2> HIDE DEF count
  <2>3. next \in ScanType
    <3>1. PICK b \in BOOLEAN : b = (scan.sampled \/ count > InspectMax)
      OBVIOUS
    <3>2. PICK a \in 0..4 : a = IF count = 0 THEN scan.at + 1 ELSE scan.at
      BY <1>0, <2>1
    <3>3. [scan EXCEPT !.asked = Min({count, InspectMax})] \in ScanType
      BY ONLY <1>0, <2>2, ScanWrites
    <3>4. [[scan EXCEPT !.asked = Min({count, InspectMax})] EXCEPT !.sampled = b] \in ScanType
      BY ONLY <3>3, ScanWrites
    <3>5. [[[scan EXCEPT !.asked = Min({count, InspectMax})] EXCEPT !.sampled = b] EXCEPT !.at = a] \in ScanType
      BY ONLY <3>4, ScanWrites
    <3>6. next = [scan EXCEPT !.asked = Min({count, InspectMax}), !.sampled = b, !.at = a]
      BY <3>1, <3>2
    <3> QED
      BY ONLY <3>5, <3>6
  <2>4. /\ next.steady = scan.steady /\ next.seen = scan.seen /\ next.short = scan.short
        /\ scan.sampled => next.sampled
        /\ next.at = IF count = 0 THEN scan.at + 1 ELSE scan.at
    BY <1>0 DEF ScanType
  <2> HIDE DEF next
  <2> QED
    BY <2>1, <2>2, <2>3, <2>4, ScanMoves
<1>3. CASE ScanLists
  <2> DEFINE there == EntriesIn(ScanOrder[scan.at])
  <2>1. PICK listed \in kSubset(Min({scan.asked, Cardinality(there)}), there) :
          scan' = [scan EXCEPT !.seen = @ \cup (listed \cap Retrying),
                               !.short = @ \/ Cardinality(there) > scan.asked,
                               !.asked = 0, !.at = @ + 1]
    BY <1>3 DEF ScanLists
  <2> DEFINE next == [scan EXCEPT !.seen = @ \cup (listed \cap Retrying),
                                  !.short = @ \/ Cardinality(there) > scan.asked,
                                  !.asked = 0, !.at = @ + 1]
  <2>2. scan.at \in 1..3 /\ scan' = next /\ UNCHANGED <<clock, origin, row>>
    BY <1>3, <2>1 DEF ScanLists
  <2>3. /\ IsFiniteSet(there) /\ Cardinality(there) \in Nat
        /\ listed \in SUBSET there /\ Cardinality(listed) = Min({scan.asked, Cardinality(there)})
    BY <1>0, <2>1 DEF kSubset
  <2>4. Cardinality(there) <= scan.asked => listed = there
    <3>1. Cardinality(there) <= scan.asked => Cardinality(there) = Cardinality(listed)
      BY <1>0, <2>3, LeastIs
    <3> QED
      BY <2>3, <3>1, FS_Subset
  <2> HIDE DEF there
  <2>5. next \in ScanType
    <3>1. PICK b \in BOOLEAN : b = (scan.short \/ Cardinality(there) > scan.asked)
      OBVIOUS
    <3>2. PICK a \in 0..4 : a = scan.at + 1
      BY <1>0, <2>2
    <3>3. PICK R \in SUBSET Runs : R = scan.seen \cup (listed \cap Retrying)
      BY <1>0 DEF ScanType
    <3>4. [scan EXCEPT !.seen = R] \in ScanType
      BY ONLY <1>0, ScanWrites
    <3>5. [[scan EXCEPT !.seen = R] EXCEPT !.short = b] \in ScanType
      BY ONLY <3>4, ScanWrites
    <3>6. 0 \in Nat
      OBVIOUS
    <3>7. [[[scan EXCEPT !.seen = R] EXCEPT !.short = b] EXCEPT !.asked = 0] \in ScanType
      BY ONLY <3>5, <3>6, ScanWrites
    <3>8. [[[[scan EXCEPT !.seen = R] EXCEPT !.short = b] EXCEPT !.asked = 0] EXCEPT !.at = a] \in ScanType
      BY ONLY <3>7, ScanWrites
    <3>9. next = [scan EXCEPT !.seen = R, !.short = b, !.asked = 0, !.at = a]
      BY <3>1, <3>2, <3>3
    <3> QED
      BY ONLY <3>8, <3>9
  <2>6. /\ next.steady = scan.steady /\ next.seen = scan.seen \cup (listed \cap Retrying)
        /\ next.sampled = scan.sampled /\ (scan.short => next.short)
        /\ ~next.short => ~(Cardinality(there) > scan.asked)
        /\ next.at = scan.at + 1
    BY <1>0 DEF ScanType
  <2> HIDE DEF next
  <2>7. ~next.short => scan.steady \cap there \subseteq next.seen
    <3>1. scan.steady \subseteq Retrying
      BY DEF RetryingInv
    <3> QED
      BY <1>0, <2>3, <2>4, <2>6, <3>1
  <2> QED
    BY <2>2, <2>5, <2>6, <2>7, ScanMoves DEF there
<1> QED
  BY <1>1, <1>2, <1>3 DEF ScanStep

LEMMA RetryingInit == OpsInit => RetryingInv
<1> SUFFICES ASSUME OpsInit PROVE RetryingInv
  OBVIOUS
<1>1. Absent \in RowType /\ Absent.entry = "none"
  BY DEF Absent, RowType, Entries
<1>2. scan \in ScanType /\ scan.steady = {} /\ scan.at = 0
  BY DEF OpsInit, NoScan, ScanType
<1>3. CountTypes /\ QueuesInv
  BY <1>1, <1>2 DEF OpsInit, CountTypes, QueuesInv
<1> QED
  BY <1>2, <1>3 DEF RetryingInv, AheadInv

LEMMA RetryingKept == RetryingInv /\ [OpsNext]_opsVars => RetryingInv'
<1>1. RetryingInv /\ UNCHANGED opsVars => RetryingInv'
  BY DEF RetryingInv, CountTypes, QueuesInv, AheadInv, Retrying, First, opsVars
<1> QED
  BY <1>1, TableKeeps, ScanKeeps DEF OpsNext

(* No entry that has been retrying throughout is missed by the six reads of *)
(* the count, for any number of runs, stages, attempts and entries read at  *)
(* once, and however the queue moves between them.                          *)
THEOREM RetryingAlwaysCounted == OpsSpec => []RetryingAreCounted
<1>1. RetryingInv => RetryingAreCounted
  BY DEF RetryingInv, AheadInv, RetryingAreCounted
<1> QED
  BY <1>1, RetryingInit, RetryingKept, PTL DEF OpsSpec

-----------------------------------------------------------------------------
(***************************************************************************)
(* The reports agree with each other, for any runs, stages, origins and     *)
(* outputs.  What they rely on is the shape of the table: each row says     *)
(* where its entry is, the stages of a run are done in their order, and the *)
(* dead letters are those of the failed rows.                               *)
(***************************************************************************)

Job(r, i) == <<r, StageOrder[i]>>

Queued == {"waiting", "active", "delayed"}

(* A row in a table of so many runs at a time: its entry is where its       *)
(* status says, and its times follow each other.                            *)
RowFine(k, e, now, started) ==
  /\ e.status = "NONE" <=> k[1] > started
  /\ e.createdAt <= e.updatedAt /\ e.updatedAt <= now
  /\ e.status = "FAILED" <=> e.entry = "failed"
  /\ k[2] # Final => (e.status = "COMPLETED" <=> e.entry = "completed")
  /\ e.entry \in Queued => e.status \in {"PENDING", "PROCESSING"}
  /\ e.entry # "none" => e.createdAt <= e.queuedAt /\ e.queuedAt <= now
  /\ e.entry = "active" => e.queuedAt <= e.processedOn /\ e.processedOn <= now
  /\ e.entry = "completed" => e.queuedAt <= e.processedOn /\ e.processedOn <= e.updatedAt

OriginsFine ==
  /\ origin \in Seq(Origins) /\ Len(origin) <= MaxRuns
  /\ clock <= MaxClock

RowsFine == \A k \in Key : RowFine(k, row[k], clock, Len(origin))

(* What has been begun has everything before it behind it, and what is in a *)
(* queue has everything after it still to be done.                          *)
Begun(r, i) == row[Job(r, i)].entry # "none" \/ row[Job(r, i)].status = "COMPLETED"

RunsFine ==
  \A r \in Runs, i, j \in DOMAIN StageOrder : i < j =>
    /\ Begun(r, j) => row[Job(r, i)].status = "COMPLETED"
    /\ row[Job(r, i)].entry \in Queued =>
          row[Job(r, j)].status = "PENDING" /\ row[Job(r, j)].entry = "none"

LettersFine ==
  /\ \A d \in dead : d.key \in Key /\ row[d.key].status = "FAILED"
  /\ \A k \in Key : row[k].status = "FAILED" => \E d \in dead : d.key = k
  /\ \A c, d \in dead : c.key = d.key => c = d

TableInv == OriginsFine /\ RowsFine /\ RunsFine /\ LettersFine

-----------------------------------------------------------------------------
(* A key is a stage of a run, and every stage of every run is one.          *)
LEMMA KeysAre ==
  /\ \A k \in Key : /\ k[1] \in Runs /\ k[2] \in StageTypes
                    /\ \E i \in DOMAIN StageOrder : k = Job(k[1], i) /\ k[2] = StageOrder[i]
  /\ \A r \in Runs, i \in DOMAIN StageOrder :
        Job(r, i) \in Key /\ Job(r, i)[1] = r /\ Job(r, i)[2] = StageOrder[i]
  /\ \A q, r \in Runs, i, j \in DOMAIN StageOrder : Job(q, i) = Job(r, j) => q = r /\ i = j
  /\ \A i \in DOMAIN StageOrder : StageOrder[i] = Final <=> i = Len(StageOrder)
  /\ DOMAIN StageOrder = 1..Len(StageOrder) /\ Len(StageOrder) \in Nat /\ Len(StageOrder) >= 2
  /\ Runs \subseteq Nat /\ \A r \in Runs : r >= 1 /\ r <= MaxRuns
  /\ MaxRuns \in Nat
<1>1. /\ DOMAIN StageOrder = 1..Len(StageOrder) /\ Len(StageOrder) \in Nat /\ Len(StageOrder) >= 2
      /\ \A i, j \in DOMAIN StageOrder : StageOrder[i] = StageOrder[j] => i = j
      /\ MaxRuns \in Nat
  BY OrderAssumption, OpsAssumption
<1>2. \A k \in Key : /\ k[1] \in Runs /\ k[2] \in StageTypes /\ k = <<k[1], k[2]>>
  BY DEF Key
<1>3. \A k \in Key : \E i \in DOMAIN StageOrder : k = Job(k[1], i) /\ k[2] = StageOrder[i]
  BY <1>2 DEF StageTypes, Job
<1>4. \A r \in Runs, i \in DOMAIN StageOrder :
        Job(r, i) \in Key /\ Job(r, i)[1] = r /\ Job(r, i)[2] = StageOrder[i]
  BY DEF Key, Job, StageTypes
<1>5. \A q, r \in Runs, i, j \in DOMAIN StageOrder : Job(q, i) = Job(r, j) => q = r /\ i = j
  BY <1>1 DEF Job
<1>6. \A i \in DOMAIN StageOrder : StageOrder[i] = Final <=> i = Len(StageOrder)
  BY <1>1 DEF Final
<1> QED
  BY <1>1, <1>2, <1>3, <1>4, <1>5, <1>6 DEF Runs

LEMMA JobsDiffer ==
  ASSUME NEW q \in Runs, NEW r \in Runs, NEW i \in DOMAIN StageOrder, NEW j \in DOMAIN StageOrder
  PROVE  Job(q, i) = Job(r, j) => q = r /\ i = j
BY KeysAre

(* What each step of the table writes.                                      *)
LEMMA StartWrites ==
  ASSUME RetryingInv, NEW r \in Runs, StartRun(r)
  PROVE  /\ clock' = clock /\ dead' = dead /\ r = Len(origin) + 1
         /\ \E o \in Origins : origin' = Append(origin, o)
         /\ \A k \in Key : k[1] # r => row'[k] = row[k]
         /\ \A k \in Key : k[1] = r =>
              /\ row'[k].status = "PENDING" /\ row'[k].createdAt = clock /\ row'[k].updatedAt = clock
              /\ row'[k].queuedAt = (IF k = Job(r, 1) THEN clock ELSE 0)
              /\ row'[k].entry = (IF k = Job(r, 1) THEN "waiting" ELSE "none")
<1> DEFINE new == [Absent EXCEPT !.status = "PENDING", !.createdAt = clock, !.updatedAt = clock]
           base == [k \in Key |-> IF k[1] = r THEN new ELSE row[k]]
<1>1. row' = Handed(base, Job(r, 1)) /\ clock' = clock /\ dead' = dead /\ r = Len(origin) + 1
      /\ \E o \in Origins : origin' = Append(origin, o)
  BY DEF StartRun, Job
<1>2. row \in [Key -> RowType] /\ clock \in Nat
  BY DEF RetryingInv, CountTypes
<1>3. new \in RowType /\ new.status = "PENDING" /\ new.createdAt = clock /\ new.updatedAt = clock
      /\ new.entry = "none" /\ new.queuedAt = 0
  BY <1>2 DEF Absent, RowType, Entries
<1> HIDE DEF new
<1>4. base \in [Key -> RowType] /\ \A k \in Key : base[k] = IF k[1] = r THEN new ELSE row[k]
  BY <1>2, <1>3
<1> HIDE DEF base
<1>5. Job(r, 1) \in Key /\ Job(r, 1)[1] = r
  BY KeysAre, OrderIs
<1> DEFINE first == [base[Job(r, 1)] EXCEPT !.entry = "waiting", !.queuedAt = clock]
<1>6. row' = [base EXCEPT ![Job(r, 1)] = first]
  BY <1>1 DEF Handed
<1>7. /\ first.status = "PENDING" /\ first.createdAt = clock /\ first.updatedAt = clock
      /\ first.entry = "waiting" /\ first.queuedAt = clock
  BY <1>3, <1>4, <1>5 DEF RowType
<1> HIDE DEF first
<1>8. \A k \in Key : row'[k] = IF k = Job(r, 1) THEN first ELSE base[k]
  BY <1>4, <1>5, <1>6
<1> QED
  BY <1>1, <1>3, <1>4, <1>5, <1>7, <1>8

LEMMA BeginWrites ==
  ASSUME RetryingInv, NEW k \in Key, Begin(k)
  PROVE  /\ row[k].entry = "waiting" /\ UNCHANGED <<clock, origin, dead>>
         /\ \A j \in Key : j # k => row'[j] = row[j]
         /\ row'[k].status = "PROCESSING" /\ row'[k].createdAt = row[k].createdAt /\ row'[k].updatedAt = clock
         /\ row'[k].entry = "active" /\ row'[k].queuedAt = row[k].queuedAt /\ row'[k].processedOn = clock
<1> DEFINE new == [row[k] EXCEPT !.status = "PROCESSING", !.updatedAt = clock,
                                 !.entry = "active", !.processedOn = clock]
<1>1. row \in [Key -> RowType] /\ row[k] \in RowType
  BY DEF RetryingInv, CountTypes
<1>2. row[k].entry = "waiting" /\ UNCHANGED <<clock, origin, dead>> /\ row' = [row EXCEPT ![k] = new]
  BY DEF Begin
<1>3. /\ new.status = "PROCESSING" /\ new.createdAt = row[k].createdAt /\ new.updatedAt = clock
      /\ new.entry = "active" /\ new.queuedAt = row[k].queuedAt /\ new.processedOn = clock
  BY <1>1 DEF RowType
<1> HIDE DEF new
<1> QED
  BY <1>1, <1>2, <1>3

LEMMA BackoffWrites ==
  ASSUME RetryingInv, NEW k \in Key, BackoffEnds(k)
  PROVE  /\ row[k].entry = "delayed" /\ UNCHANGED <<clock, origin, dead>>
         /\ \A j \in Key : j # k => row'[j] = row[j]
         /\ row'[k].status = row[k].status /\ row'[k].createdAt = row[k].createdAt
         /\ row'[k].updatedAt = row[k].updatedAt
         /\ row'[k].entry = "waiting" /\ row'[k].queuedAt = row[k].queuedAt
<1> DEFINE new == [row[k] EXCEPT !.entry = "waiting"]
<1>1. row \in [Key -> RowType] /\ row[k] \in RowType
  BY DEF RetryingInv, CountTypes
<1>2. row[k].entry = "delayed" /\ UNCHANGED <<clock, origin, dead>> /\ row' = [row EXCEPT ![k] = new]
  BY DEF BackoffEnds
<1>3. /\ new.status = row[k].status /\ new.createdAt = row[k].createdAt /\ new.updatedAt = row[k].updatedAt
      /\ new.entry = "waiting" /\ new.queuedAt = row[k].queuedAt
  BY <1>1 DEF RowType
<1> HIDE DEF new
<1> QED
  BY <1>1, <1>2, <1>3

LEMMA SucceedWrites ==
  ASSUME RetryingInv, NEW k \in Key, Succeed(k)
  PROVE  /\ row[k].entry = "active" /\ UNCHANGED <<clock, origin, dead>>
         /\ \E i \in DOMAIN StageOrder :
              /\ i + 1 \in DOMAIN StageOrder /\ k = Job(k[1], i)
              /\ \A j \in Key : j # k /\ j # Job(k[1], i + 1) => row'[j] = row[j]
              /\ row'[k].status = "COMPLETED" /\ row'[k].createdAt = row[k].createdAt
              /\ row'[k].updatedAt = clock /\ row'[k].entry = "completed"
              /\ row'[k].queuedAt = row[k].queuedAt /\ row'[k].processedOn = row[k].processedOn
              /\ LET next == Job(k[1], i + 1) IN
                 /\ row'[next].createdAt = row[next].createdAt
                 /\ IF i + 1 = Len(StageOrder)
                    THEN /\ row'[next].status = "COMPLETED" /\ row'[next].updatedAt = clock
                         /\ row'[next].entry = row[next].entry
                    ELSE /\ row'[next].status = row[next].status /\ row'[next].updatedAt = row[next].updatedAt
                         /\ row'[next].entry = "waiting" /\ row'[next].queuedAt = clock
<1>1. PICK output \in Outputs, i \in DOMAIN StageOrder :
        /\ StageOrder[i] = k[2]
        /\ row' = LET done == [Complete(row, k, output) EXCEPT ![k].entry = "completed"]
                      next == <<k[1], StageOrder[i + 1]>>
                  IN  IF StageOrder[i + 1] = Final THEN Complete(done, next, NoOutput) ELSE Handed(done, next)
  BY DEF Succeed
<1> DEFINE next == Job(k[1], i + 1)
           completed == [row[k] EXCEPT !.status = "COMPLETED", !.updatedAt = clock, !.output = output]
           ended == [completed EXCEPT !.entry = "completed"]
           done == [Complete(row, k, output) EXCEPT ![k].entry = "completed"]
<1>2. row[k].entry = "active" /\ UNCHANGED <<clock, origin, dead>>
  BY DEF Succeed
<1>3. row \in [Key -> RowType] /\ row[k] \in RowType /\ clock \in Nat /\ QueuesInv
  BY DEF RetryingInv, CountTypes
<1>4. k[2] # Final
  BY <1>2, <1>3 DEF QueuesInv
<1>5. i + 1 \in DOMAIN StageOrder /\ i # i + 1 /\ k[1] \in Runs /\ k = Job(k[1], i)
  BY <1>1, <1>4, OrderIs, KeysAre DEF Job
<1>6. next \in Key /\ next # k /\ (StageOrder[i + 1] = Final <=> i + 1 = Len(StageOrder))
  BY <1>1, <1>5, KeysAre
<1>7. Complete(row, k, output) = [row EXCEPT ![k] = completed]
  BY DEF Complete
<1>8. completed \in RowType /\ completed = [completed EXCEPT !.entry = row[k].entry]
  BY <1>3 DEF RowType
<1>9. /\ ended \in RowType /\ ended.status = "COMPLETED" /\ ended.createdAt = row[k].createdAt
      /\ ended.updatedAt = clock /\ ended.entry = "completed"
      /\ ended.queuedAt = row[k].queuedAt /\ ended.processedOn = row[k].processedOn
  BY <1>3 DEF RowType, Entries
<1>10. done = [row EXCEPT ![k] = ended]
  <2> HIDE DEF completed
  <2> QED
    BY <1>3, <1>7, <1>8
<1>11. row' = IF StageOrder[i + 1] = Final THEN Complete(done, next, NoOutput) ELSE Handed(done, next)
  BY <1>1 DEF Job
<1> HIDE DEF ended, completed, done, next
<1>12. done \in [Key -> RowType] /\ done[k] = ended /\ \A j \in Key : j # k => done[j] = row[j]
  BY <1>3, <1>9, <1>10
<1>13. CASE i + 1 = Len(StageOrder)
  <2> DEFINE last == [done[next] EXCEPT !.status = "COMPLETED", !.updatedAt = clock, !.output = NoOutput]
  <2>1. row' = [done EXCEPT ![next] = last]
    BY <1>6, <1>11, <1>13 DEF Complete
  <2>2. /\ last.status = "COMPLETED" /\ last.updatedAt = clock
        /\ last.createdAt = row[next].createdAt /\ last.entry = row[next].entry
    BY <1>3, <1>6, <1>12 DEF RowType
  <2> HIDE DEF last
  <2>3. row'[next] = last /\ \A j \in Key : j # next => row'[j] = done[j]
    BY <1>6, <1>12, <2>1
  <2> QED
    BY <1>2, <1>5, <1>6, <1>9, <1>12, <1>13, <2>2, <2>3 DEF next
<1>14. CASE i + 1 # Len(StageOrder)
  <2> DEFINE handed == [done[next] EXCEPT !.entry = "waiting", !.queuedAt = clock]
  <2>1. row' = [done EXCEPT ![next] = handed]
    BY <1>6, <1>11, <1>14 DEF Handed
  <2>2. /\ handed.status = row[next].status /\ handed.updatedAt = row[next].updatedAt
        /\ handed.createdAt = row[next].createdAt /\ handed.entry = "waiting" /\ handed.queuedAt = clock
    BY <1>3, <1>6, <1>12 DEF RowType
  <2> HIDE DEF handed
  <2>3. row'[next] = handed /\ \A j \in Key : j # next => row'[j] = done[j]
    BY <1>6, <1>12, <2>1
  <2> QED
    BY <1>2, <1>5, <1>6, <1>9, <1>12, <1>14, <2>2, <2>3 DEF next
<1> QED
  BY <1>13, <1>14

(* The writes of the last failure of an entry.                              *)
Fails(k) ==
  /\ row'[k].status = "FAILED" /\ row'[k].createdAt = row[k].createdAt /\ row'[k].updatedAt = clock
  /\ row'[k].entry = "failed" /\ row'[k].queuedAt = row[k].queuedAt
  /\ \A j \in Key : j # k =>
        IF j[1] = k[1] /\ row[j].status \in {"PENDING", "PROCESSING"}
        THEN /\ row'[j].status = "CANCELLED" /\ row'[j].createdAt = row[j].createdAt
             /\ row'[j].updatedAt = clock /\ row'[j].entry = row[j].entry
             /\ row'[j].queuedAt = row[j].queuedAt /\ row'[j].processedOn = row[j].processedOn
        ELSE row'[j] = row[j]
  /\ \E d : d.key = k /\ dead' = dead \cup {d}

LEMMA FailWrites ==
  ASSUME RetryingInv, NEW k \in Key, FailAttempt(k)
  PROVE  /\ row[k].entry = "active" /\ UNCHANGED <<clock, origin>>
         /\ \/ /\ dead' = dead /\ \A j \in Key : j # k => row'[j] = row[j]
               /\ row'[k].status = row[k].status /\ row'[k].createdAt = row[k].createdAt
               /\ row'[k].updatedAt = clock
               /\ row'[k].entry = "delayed" /\ row'[k].queuedAt = row[k].queuedAt
            \/ Fails(k)
<1>1. row \in [Key -> RowType] /\ \A j \in Key : row[j] \in RowType
  BY DEF RetryingInv, CountTypes
<1>2. row[k].entry = "active" /\ UNCHANGED <<clock, origin>>
  BY DEF FailAttempt
<1>3. CASE /\ row' = [row EXCEPT ![k].entry = "delayed", ![k].attempts = @ + 1, ![k].updatedAt = clock]
           /\ dead' = dead
  <2> DEFINE new == [row[k] EXCEPT !.entry = "delayed", !.attempts = @ + 1, !.updatedAt = clock]
  <2>1. row' = [row EXCEPT ![k] = new]
    BY <1>1, <1>3
  <2>2. /\ new.status = row[k].status /\ new.createdAt = row[k].createdAt /\ new.updatedAt = clock
        /\ new.entry = "delayed" /\ new.queuedAt = row[k].queuedAt
    BY <1>1 DEF RowType
  <2> HIDE DEF new
  <2> QED
    BY <1>1, <1>2, <1>3, <2>1, <2>2
<1>4. ASSUME NEW category,
             row' = [j \in Key |->
                    IF j = k THEN [row[j] EXCEPT !.status = "FAILED", !.updatedAt = clock,
                                                 !.entry = "failed", !.attempts = @ + 1]
                    ELSE IF j[1] = k[1] /\ row[j].status \in {"PENDING", "PROCESSING"}
                    THEN [row[j] EXCEPT !.status = "CANCELLED", !.updatedAt = clock]
                    ELSE row[j]],
             dead' = dead \cup {[key |-> k, category |-> category, attempts |-> row[k].attempts + 1]}
      PROVE  Fails(k)
  <2> DEFINE failed == [row[k] EXCEPT !.status = "FAILED", !.updatedAt = clock,
                                      !.entry = "failed", !.attempts = @ + 1]
             cancelled(j) == [row[j] EXCEPT !.status = "CANCELLED", !.updatedAt = clock]
             letter == [key |-> k, category |-> category, attempts |-> row[k].attempts + 1]
  <2>1. /\ failed.status = "FAILED" /\ failed.createdAt = row[k].createdAt /\ failed.updatedAt = clock
        /\ failed.entry = "failed" /\ failed.queuedAt = row[k].queuedAt
    BY <1>1 DEF RowType
  <2>2. ASSUME NEW j \in Key
        PROVE  /\ cancelled(j).status = "CANCELLED" /\ cancelled(j).createdAt = row[j].createdAt
               /\ cancelled(j).updatedAt = clock /\ cancelled(j).entry = row[j].entry
               /\ cancelled(j).queuedAt = row[j].queuedAt /\ cancelled(j).processedOn = row[j].processedOn
    BY <1>1 DEF RowType
  <2>3. /\ row'[k] = failed
        /\ \A j \in Key : j # k =>
             row'[j] = IF j[1] = k[1] /\ row[j].status \in {"PENDING", "PROCESSING"} THEN cancelled(j) ELSE row[j]
    BY <1>4
  <2>4. letter.key = k /\ dead' = dead \cup {letter}
    BY <1>4
  <2>5. \E d : d.key = k /\ dead' = dead \cup {d}
    BY <2>4
  <2> HIDE DEF failed, cancelled
  <2> QED
    BY <2>1, <2>2, <2>3, <2>5 DEF Fails
<1> QED
  BY <1>2, <1>3, <1>4 DEF FailAttempt

-----------------------------------------------------------------------------
(* The types the invariant of the table needs.                              *)
LEMMA TimesAre ==
  ASSUME RetryingInv
  PROVE  /\ clock \in Nat /\ Len(origin) \in Nat
         /\ \A k \in Key : /\ row[k].createdAt \in Nat /\ row[k].updatedAt \in Nat
                           /\ row[k].queuedAt \in Nat /\ row[k].processedOn \in Nat
                           /\ row[k].status \in {"NONE", "PENDING", "PROCESSING", "COMPLETED", "FAILED", "CANCELLED"}
                           /\ row[k].entry \in Entries
                           /\ k[1] \in Nat
                           /\ k[1] > Len(origin) => row[k].entry = "none"
                           /\ k[2] = Final => row[k].entry = "none"
<1>1. \A k \in Key : row[k] \in RowType
  BY DEF RetryingInv, CountTypes
<1>2. \A k \in Key : k[1] \in Nat
  BY KeysAre
<1> QED
  BY <1>1, <1>2 DEF RetryingInv, CountTypes, QueuesInv, RowType

(* Of a run only one stage at a time is in a queue.                         *)
LEMMA OthersOut ==
  ASSUME RunsFine, NEW j \in Key, NEW k \in Key, j # k, j[1] = k[1], row[k].entry \in Queued
  PROVE  row[j].entry \notin Queued
<1>1. PICK a \in DOMAIN StageOrder : j = Job(j[1], a)
  BY KeysAre
<1>2. PICK i \in DOMAIN StageOrder : k = Job(k[1], i)
  BY KeysAre
<1>3. a # i /\ a \in Nat /\ i \in Nat /\ j[1] \in Runs
  BY <1>1, <1>2, KeysAre
<1>4. CASE a < i
  BY <1>1, <1>2, <1>3, <1>4 DEF RunsFine, Queued
<1>5. CASE i < a
  BY <1>1, <1>2, <1>3, <1>5 DEF RunsFine, Queued
<1> QED
  BY <1>3, <1>4, <1>5

LEMMA RowsStep ==
  ASSUME RetryingInv, TableInv, RetryingInv', ClockTick \/ TableStep
  PROVE  OriginsFine' /\ RowsFine'
<1> USE DEF TableInv, OriginsFine, RowsFine
<1>0. /\ \A k \in Key : RowFine(k, row[k], clock, Len(origin))
      /\ clock \in Nat /\ MaxClock \in Nat
  BY TimesAre, OpsAssumption
<1>1. CASE ClockTick
  <2>1. clock' = clock + 1 /\ clock' <= MaxClock /\ UNCHANGED <<origin, row>>
    BY <1>0, <1>1 DEF ClockTick
  <2>2. ASSUME NEW k \in Key PROVE RowFine(k, row'[k], clock', Len(origin'))
    BY <1>0, <2>1, TimesAre DEF RowFine
  <2> QED
    BY <2>1, <2>2
<1>2. ASSUME NEW r \in Runs, StartRun(r) PROVE OriginsFine' /\ RowsFine'
  <2>1. /\ clock' = clock /\ r = Len(origin) + 1 /\ r <= MaxRuns
        /\ \E o \in Origins : origin' = Append(origin, o)
        /\ Job(r, 1) \in Key /\ Job(r, 1)[2] # Final
    BY <1>2, StartWrites, KeysAre, OrderIs
  <2>2. origin' \in Seq(Origins) /\ Len(origin') = Len(origin) + 1
    BY <2>1
  <2>3. ASSUME NEW k \in Key PROVE RowFine(k, row'[k], clock, Len(origin) + 1)
    <3>1. CASE k[1] = r
      <4>1. /\ row'[k].status = "PENDING" /\ row'[k].createdAt = clock /\ row'[k].updatedAt = clock
            /\ row'[k].queuedAt = (IF k = Job(r, 1) THEN clock ELSE 0)
            /\ row'[k].entry = (IF k = Job(r, 1) THEN "waiting" ELSE "none")
        BY <1>2, <3>1, StartWrites
      <4>2. k[1] \in Nat /\ Len(origin) \in Nat /\ clock \in Nat
        BY TimesAre
      <4> QED
        BY <2>1, <3>1, <4>1, <4>2 DEF RowFine, Queued
    <3>2. CASE k[1] # r
      <4>1. row'[k] = row[k]
        BY <1>2, <3>2, StartWrites
      <4>2. k[1] \in Nat /\ Len(origin) \in Nat
        BY TimesAre
      <4> QED
        BY <1>0, <2>1, <3>2, <4>1, <4>2 DEF RowFine
    <3> QED
      BY <3>1, <3>2
  <2> QED
    BY <2>1, <2>2, <2>3
<1>3. ASSUME NEW k \in Key, Begin(k) PROVE OriginsFine' /\ RowsFine'
  <2>1. ASSUME NEW j \in Key PROVE RowFine(j, row'[j], clock, Len(origin))
    <3>1. CASE j = k
      BY <1>0, <1>3, <3>1, BeginWrites, TimesAre DEF RowFine, Queued
    <3>2. CASE j # k
      BY <1>0, <1>3, <3>2, BeginWrites
    <3> QED
      BY <3>1, <3>2
  <2> QED
    BY <1>3, <2>1, BeginWrites
<1>4. ASSUME NEW k \in Key, BackoffEnds(k) PROVE OriginsFine' /\ RowsFine'
  <2>1. ASSUME NEW j \in Key PROVE RowFine(j, row'[j], clock, Len(origin))
    <3>1. CASE j = k
      BY <1>0, <1>4, <3>1, BackoffWrites, TimesAre DEF RowFine, Queued
    <3>2. CASE j # k
      BY <1>0, <1>4, <3>2, BackoffWrites
    <3> QED
      BY <3>1, <3>2
  <2> QED
    BY <1>4, <2>1, BackoffWrites
<1>5. ASSUME NEW k \in Key, Succeed(k) PROVE OriginsFine' /\ RowsFine'
  <2>1. row[k].entry = "active" /\ UNCHANGED <<clock, origin, dead>>
    BY <1>5, SucceedWrites
  <2>2. PICK i \in DOMAIN StageOrder :
              /\ i + 1 \in DOMAIN StageOrder /\ k = Job(k[1], i)
              /\ \A j \in Key : j # k /\ j # Job(k[1], i + 1) => row'[j] = row[j]
              /\ row'[k].status = "COMPLETED" /\ row'[k].createdAt = row[k].createdAt
              /\ row'[k].updatedAt = clock /\ row'[k].entry = "completed"
              /\ row'[k].queuedAt = row[k].queuedAt /\ row'[k].processedOn = row[k].processedOn
              /\ LET next == Job(k[1], i + 1) IN
                 /\ row'[next].createdAt = row[next].createdAt
                 /\ IF i + 1 = Len(StageOrder)
                    THEN /\ row'[next].status = "COMPLETED" /\ row'[next].updatedAt = clock
                         /\ row'[next].entry = row[next].entry
                    ELSE /\ row'[next].status = row[next].status /\ row'[next].updatedAt = row[next].updatedAt
                         /\ row'[next].entry = "waiting" /\ row'[next].queuedAt = clock
    BY <1>5, SucceedWrites
  <2> DEFINE next == Job(k[1], i + 1)
  <2>3. next \in Key /\ next # k /\ i < i + 1 /\ k[1] \in Runs /\ (next[2] = Final <=> i + 1 = Len(StageOrder))
    <3>1. k[1] \in Runs /\ i < i + 1 /\ i # i + 1
      BY KeysAre
    <3>2. next \in Key /\ next[2] = StageOrder[i + 1] /\ next # Job(k[1], i)
      <4>1. i + 1 \in DOMAIN StageOrder
        BY <2>2
      <4>2. \A n \in DOMAIN StageOrder : Job(k[1], n) \in Key /\ Job(k[1], n)[2] = StageOrder[n]
                                         /\ (Job(k[1], n) = Job(k[1], i) => n = i)
        BY <3>1, KeysAre
      <4> QED
        BY <3>1, <4>1, <4>2
    <3>3. StageOrder[i + 1] = Final <=> i + 1 = Len(StageOrder)
      BY <2>2, KeysAre
    <3> QED
      BY <2>2, <3>1, <3>2, <3>3
  <2>4. row[next].status = "PENDING" /\ row[next].entry = "none"
    BY <2>1, <2>2, <2>3 DEF RunsFine, Queued
  <2>5. RowFine(k, row'[k], clock, Len(origin))
    BY <1>0, <2>1, <2>2, TimesAre DEF RowFine, Queued
  <2>6. RowFine(next, row'[next], clock, Len(origin))
    <3>1. RowFine(next, row[next], clock, Len(origin))
      BY <1>0, <2>3
    <3>2. row[next].createdAt \in Nat /\ row[next].updatedAt \in Nat /\ clock \in Nat
      BY <2>3, TimesAre
    <3>3. CASE i + 1 = Len(StageOrder)
      BY <2>2, <2>3, <2>4, <3>1, <3>2, <3>3 DEF RowFine, Queued
    <3>4. CASE i + 1 # Len(StageOrder)
      BY <2>2, <2>3, <2>4, <3>1, <3>2, <3>4 DEF RowFine, Queued
    <3> QED
      BY <3>3, <3>4
  <2>7. ASSUME NEW j \in Key PROVE RowFine(j, row'[j], clock, Len(origin))
    BY <1>0, <2>2, <2>5, <2>6
  <2> QED
    BY <2>1, <2>7
<1>6. ASSUME NEW k \in Key, FailAttempt(k) PROVE OriginsFine' /\ RowsFine'
  <2>1. row[k].entry = "active" /\ UNCHANGED <<clock, origin>>
    BY <1>6, FailWrites
  <2>2. ASSUME NEW j \in Key PROVE RowFine(j, row'[j], clock, Len(origin))
    <3>1. RowFine(j, row[j], clock, Len(origin)) /\ RowFine(k, row[k], clock, Len(origin))
      BY <1>0
    <3>2. CASE ~Fails(k)
      <4>1. /\ \A i \in Key : i # k => row'[i] = row[i]
            /\ row'[k].status = row[k].status /\ row'[k].createdAt = row[k].createdAt
            /\ row'[k].updatedAt = clock
            /\ row'[k].entry = "delayed" /\ row'[k].queuedAt = row[k].queuedAt
        BY <1>6, <3>2, FailWrites
      <4>2. CASE j = k
        BY <2>1, <3>1, <4>1, <4>2, TimesAre DEF RowFine, Queued
      <4> QED
        BY <3>1, <4>1, <4>2
    <3>3. CASE Fails(k)
      <4>1. CASE j = k
        BY <2>1, <3>1, <3>3, <4>1, TimesAre DEF RowFine, Queued, Fails
      <4>2. CASE j # k
        <5>1. j[1] = k[1] => row[j].entry \notin Queued
          BY <2>1, <4>2, OthersOut DEF Queued
        <5> QED
          <6>1. row[j].status \in {"NONE", "PENDING", "PROCESSING", "COMPLETED", "FAILED", "CANCELLED"} /\ row[j].updatedAt \in Nat
                /\ row[j].createdAt \in Nat /\ row[j].queuedAt \in Nat /\ row[j].processedOn \in Nat
                /\ clock \in Nat /\ row[j].entry \in Entries
            BY TimesAre
          <6>2. CASE j[1] = k[1] /\ row[j].status \in {"PENDING", "PROCESSING"}
            <7>1. /\ row'[j].status = "CANCELLED" /\ row'[j].createdAt = row[j].createdAt
                  /\ row'[j].updatedAt = clock /\ row'[j].entry = row[j].entry
                  /\ row'[j].queuedAt = row[j].queuedAt /\ row'[j].processedOn = row[j].processedOn
              BY <3>3, <4>2, <6>2 DEF Fails
            <7> QED
              BY <3>1, <5>1, <6>1, <6>2, <7>1 DEF RowFine
          <6>3. CASE ~(j[1] = k[1] /\ row[j].status \in {"PENDING", "PROCESSING"})
            BY <3>1, <3>3, <4>2, <6>3 DEF Fails
          <6> QED
            BY <6>2, <6>3
      <4> QED
        BY <4>1, <4>2
    <3> QED
      BY <3>2, <3>3
  <2> QED
    BY <2>1, <2>2
<1> QED
  BY <1>1, <1>2, <1>3, <1>4, <1>5, <1>6 DEF TableStep

(* An entry that moves within the queues, or leaves them by a failure.      *)
LEMMA QueueMoves ==
  ASSUME RowsFine, RunsFine, NEW k \in Key, row[k].entry \in Queued, row'[k].entry # "none",
         row'[k].status # "COMPLETED",
         \A j \in Key : j # k =>
            /\ row'[j].entry = row[j].entry
            /\ row'[j].status = "COMPLETED" <=> row[j].status = "COMPLETED"
            /\ row'[k].entry \in Queued \/ j[1] # k[1] => row'[j].status = row[j].status
  PROVE  RunsFine'
<1> SUFFICES ASSUME NEW r \in Runs, NEW a \in DOMAIN StageOrder, NEW b \in DOMAIN StageOrder, a < b
             PROVE  /\ Begun(r, b)' => row'[Job(r, a)].status = "COMPLETED"
                    /\ row'[Job(r, a)].entry \in Queued =>
                          row'[Job(r, b)].status = "PENDING" /\ row'[Job(r, b)].entry = "none"
  BY DEF RunsFine, Job
<1>1. /\ Job(r, a) \in Key /\ Job(r, b) \in Key /\ Job(r, a)[1] = r /\ Job(r, b)[1] = r
      /\ Job(r, a) # Job(r, b)
  <2>1. a # b
    BY KeysAre
  <2> QED
    BY <2>1, KeysAre
<1>2. /\ Begun(r, b) => row[Job(r, a)].status = "COMPLETED"
      /\ row[Job(r, a)].entry \in Queued =>
            row[Job(r, b)].status = "PENDING" /\ row[Job(r, b)].entry = "none"
  BY DEF RunsFine
<1>3. row[k].status # "COMPLETED" /\ row[k].entry # "none"
  BY DEF RowsFine, RowFine, Queued
<1>4. CASE Job(r, a) = k
  <2>1. row[Job(r, b)].status = "PENDING" /\ row[Job(r, b)].entry = "none"
    BY <1>2, <1>4
  <2> QED
    BY <1>1, <1>4, <2>1 DEF Begun, Job
<1>5. CASE Job(r, b) = k
  <2>1. row[Job(r, a)].status = "COMPLETED" /\ row[Job(r, a)].entry \notin Queued
    BY <1>2, <1>3, <1>5 DEF Begun
  <2> QED
    BY <1>1, <1>5, <2>1
<1>6. CASE Job(r, a) # k /\ Job(r, b) # k
  <2>1. Begun(r, b)' => Begun(r, b)
    BY <1>1, <1>6 DEF Begun, Job
  <2>2. ASSUME row[Job(r, a)].entry \in Queued PROVE row'[Job(r, b)].status = row[Job(r, b)].status
    <3>1. CASE k[1] = r
      BY <1>1, <1>6, <2>2, <3>1, OthersOut
    <3>2. CASE k[1] # r
      BY <1>1, <1>6, <3>2
    <3> QED
      BY <3>1, <3>2
  <2> QED
    BY <1>1, <1>2, <1>6, <2>1, <2>2
<1> QED
  BY <1>4, <1>5, <1>6

LEMMA RunsStep ==
  ASSUME RetryingInv, TableInv, ClockTick \/ TableStep
  PROVE  RunsFine'
<1>0. RowsFine /\ RunsFine
  BY DEF TableInv
<1>1. CASE row' = row
  BY <1>0, <1>1 DEF RunsFine, Begun, Job
<1>2. ASSUME NEW r \in Runs, StartRun(r) PROVE RunsFine'
  <2> SUFFICES ASSUME NEW q \in Runs, NEW a \in DOMAIN StageOrder, NEW b \in DOMAIN StageOrder, a < b
               PROVE  /\ Begun(q, b)' => row'[Job(q, a)].status = "COMPLETED"
                      /\ row'[Job(q, a)].entry \in Queued =>
                            row'[Job(q, b)].status = "PENDING" /\ row'[Job(q, b)].entry = "none"
    BY DEF RunsFine, Job
  <2>1. Job(q, a) \in Key /\ Job(q, b) \in Key /\ Job(q, a)[1] = q /\ Job(q, b)[1] = q
    BY KeysAre
  <2>2. CASE q = r
    <3>1. b # 1 /\ 1 \in DOMAIN StageOrder
      <4>1. DOMAIN StageOrder = 1..Len(StageOrder) /\ Len(StageOrder) \in Nat
        BY KeysAre
      <4> QED
        BY <4>1, OrderIs
    <3>2. Job(q, b) # Job(q, 1)
      BY <3>1, JobsDiffer
    <3>3. row'[Job(q, b)].status = "PENDING" /\ row'[Job(q, b)].entry = "none"
      BY <1>2, <2>1, <2>2, <3>2, StartWrites
    <3> QED
      BY <3>3 DEF Begun, Job
  <2>3. CASE q # r
    BY <1>0, <1>2, <2>1, <2>3, StartWrites DEF RunsFine, Begun, Job
  <2> QED
    BY <2>2, <2>3
<1>3. ASSUME NEW k \in Key, Begin(k) PROVE RunsFine'
  <2>1. /\ row[k].entry \in Queued /\ row'[k].entry # "none" /\ row'[k].status # "COMPLETED"
        /\ \A j \in Key : j # k => row'[j] = row[j]
    BY <1>3, BeginWrites DEF Queued
  <2> QED
    BY <1>0, <2>1, QueueMoves
<1>4. ASSUME NEW k \in Key, BackoffEnds(k) PROVE RunsFine'
  <2>1. /\ row[k].entry \in Queued /\ row'[k].entry # "none" /\ row'[k].status = row[k].status
        /\ \A j \in Key : j # k => row'[j] = row[j]
    BY <1>4, BackoffWrites DEF Queued
  <2>2. row[k].status # "COMPLETED"
    BY <1>0, <2>1 DEF RowsFine, RowFine
  <2> QED
    BY <1>0, <2>1, <2>2, QueueMoves
<1>5. ASSUME NEW k \in Key, FailAttempt(k) PROVE RunsFine'
  <2>1. row[k].entry \in Queued
    BY <1>5, FailWrites DEF Queued
  <2>2. row[k].status # "COMPLETED"
    BY <1>0, <2>1 DEF RowsFine, RowFine
  <2>3. CASE Fails(k)
    <3>1. row'[k].entry = "failed" /\ row'[k].status = "FAILED"
      BY <2>3 DEF Fails
    <3>2. ASSUME NEW j \in Key, j # k
          PROVE  /\ row'[j].entry = row[j].entry
                 /\ row'[j].status = "COMPLETED" <=> row[j].status = "COMPLETED"
                 /\ j[1] # k[1] => row'[j].status = row[j].status
      BY <2>3, <3>2 DEF Fails
    <3> QED
      BY <1>0, <2>1, <3>1, <3>2, QueueMoves DEF Queued
  <2>4. CASE ~Fails(k)
    <3>1. /\ row'[k].entry = "delayed" /\ row'[k].status = row[k].status
          /\ \A j \in Key : j # k => row'[j] = row[j]
      BY <1>5, <2>4, FailWrites
    <3> QED
      BY <1>0, <2>1, <2>2, <3>1, QueueMoves DEF Queued
  <2> QED
    BY <2>3, <2>4
<1>6. ASSUME NEW k \in Key, Succeed(k) PROVE RunsFine'
  <2>1. row[k].entry \in Queued
    BY <1>6, SucceedWrites DEF Queued
  <2>2. PICK i \in DOMAIN StageOrder :
              /\ i + 1 \in DOMAIN StageOrder /\ k = Job(k[1], i)
              /\ \A j \in Key : j # k /\ j # Job(k[1], i + 1) => row'[j] = row[j]
              /\ row'[k].status = "COMPLETED" /\ row'[k].entry = "completed"
              /\ IF i + 1 = Len(StageOrder)
                 THEN /\ row'[Job(k[1], i + 1)].entry = row[Job(k[1], i + 1)].entry
                 ELSE /\ row'[Job(k[1], i + 1)].entry = "waiting"
    BY <1>6, SucceedWrites
  <2> DEFINE run == k[1]
  <2>3. run \in Runs /\ i \in Nat
    BY KeysAre
  <2>4. ASSUME NEW c \in DOMAIN StageOrder
        PROVE  /\ c <= i => row'[Job(run, c)].status = "COMPLETED" /\ row'[Job(run, c)].entry \notin Queued
               /\ c > i + 1 => row'[Job(run, c)].status = "PENDING" /\ row'[Job(run, c)].entry = "none"
               /\ c = i + 1 /\ row'[Job(run, c)].entry \in Queued => i + 1 # Len(StageOrder)
    <3>1. c \in Nat /\ Job(run, c) \in Key /\ (Job(run, c) = k => c = i)
          /\ (Job(run, c) = Job(run, i + 1) => c = i + 1) /\ Job(run, c)[2] = StageOrder[c]
      <4>1. i + 1 \in DOMAIN StageOrder /\ k = Job(run, i)
        BY <2>2
      <4>0. c \in Nat
        BY KeysAre
      <4>2. \A n \in DOMAIN StageOrder : Job(run, n) \in Key /\ Job(run, n)[2] = StageOrder[n]
        <5> HIDE DEF run
        <5> QED
          BY <2>3, KeysAre
      <4>3. Job(run, c) = Job(run, i) => c = i
        BY <2>3, JobsDiffer
      <4>4. Job(run, c) = Job(run, i + 1) => c = i + 1
        BY <2>3, <4>1, JobsDiffer
      <4> QED
        BY <4>0, <4>1, <4>2, <4>3, <4>4
    <3>2. CASE c = i
      BY <2>2, <2>3, <3>2 DEF Queued
    <3>3. CASE c < i
      <4>1. row[Job(run, c)].status = "COMPLETED"
        <5>1. Begun(run, i)
          BY <2>1, <2>2 DEF Begun, Queued
        <5> QED
          BY <1>0, <2>3, <3>3, <5>1 DEF RunsFine
      <4>2. row[Job(run, c)].entry \notin Queued
        BY <1>0, <3>1, <4>1 DEF RowsFine, RowFine
      <4>3. row'[Job(run, c)] = row[Job(run, c)]
        <5>1. c # i /\ c # i + 1
          BY <2>3, <3>1, <3>3
        <5> QED
          BY <2>2, <3>1, <5>1
      <4> QED
        BY <2>3, <3>1, <3>3, <4>1, <4>2, <4>3
    <3>4. CASE c > i
      <4>1. row[Job(run, c)].status = "PENDING" /\ row[Job(run, c)].entry = "none"
        <5>1. i < c
          BY <2>3, <3>1, <3>4
        <5> QED
          BY <1>0, <2>1, <2>2, <2>3, <5>1 DEF RunsFine
      <4>2. CASE c > i + 1
        <5>1. c # i /\ c # i + 1 /\ ~(c <= i)
          BY <2>3, <3>1, <4>2
        <5>2. row'[Job(run, c)] = row[Job(run, c)]
          BY <2>2, <3>1, <5>1
        <5> QED
          BY <4>1, <5>1, <5>2
      <4>3. CASE c = i + 1
        <5>1. ~(c <= i) /\ ~(c > i + 1)
          BY <2>3, <4>3
        <5> QED
          BY <2>2, <4>1, <4>3, <5>1 DEF Queued
      <4> QED
        BY <2>3, <3>1, <3>4, <4>2, <4>3
    <3> QED
      BY <2>3, <3>1, <3>2, <3>3, <3>4
  <2> SUFFICES ASSUME NEW q \in Runs, NEW a \in DOMAIN StageOrder, NEW b \in DOMAIN StageOrder, a < b
               PROVE  /\ Begun(q, b)' => row'[Job(q, a)].status = "COMPLETED"
                      /\ row'[Job(q, a)].entry \in Queued =>
                            row'[Job(q, b)].status = "PENDING" /\ row'[Job(q, b)].entry = "none"
    BY DEF RunsFine, Job
  <2>5. a \in Nat /\ b \in Nat
    BY KeysAre
  <2>6. CASE q = run
    <3>1. CASE b <= i + 1
      <4>1. a <= i
        BY <2>3, <2>5, <3>1
      <4> QED
        BY <2>4, <2>6, <4>1
    <3>2. CASE b > i + 1
      <4>1. row'[Job(run, b)].status = "PENDING" /\ row'[Job(run, b)].entry = "none"
        BY <2>4, <3>2
      <4> QED
        BY <2>6, <4>1 DEF Begun, Job
    <3> QED
      BY <2>3, <2>5, <3>1, <3>2
  <2>7. CASE q # run
    <3>1. ASSUME NEW c \in DOMAIN StageOrder
          PROVE  Job(q, c) \in Key /\ Job(q, c) # k /\ Job(q, c) # Job(run, i + 1)
      <4>1. i + 1 \in DOMAIN StageOrder /\ k = Job(run, i)
        BY <2>2
      <4>2. Job(q, c) \in Key
        BY KeysAre
      <4> QED
        BY <2>3, <2>7, <4>1, <4>2, JobsDiffer
    <3>2. \A c \in DOMAIN StageOrder : row'[Job(q, c)] = row[Job(q, c)]
      BY <2>2, <3>1
    <3> QED
      BY <1>0, <3>2 DEF RunsFine, Begun, Job
  <2> QED
    BY <2>6, <2>7
<1> QED
  BY <1>1, <1>2, <1>3, <1>4, <1>5, <1>6 DEF ClockTick, TableStep

(* A letter is filed for the row that fails, and for no other.              *)
LEMMA LettersStay ==
  ASSUME LettersFine, dead' = dead,
         \A k \in Key : row'[k].status = "FAILED" <=> row[k].status = "FAILED"
  PROVE  LettersFine'
BY DEF LettersFine

LEMMA LettersStep ==
  ASSUME RetryingInv, TableInv, ClockTick \/ TableStep
  PROVE  LettersFine'
<1>0. RowsFine /\ RunsFine /\ LettersFine
  BY DEF TableInv
<1>1. CASE UNCHANGED <<row, dead>>
  BY <1>0, <1>1, LettersStay
<1>2. ASSUME NEW r \in Runs, StartRun(r) PROVE LettersFine'
  <2>1. ASSUME NEW k \in Key PROVE row'[k].status = "FAILED" <=> row[k].status = "FAILED"
    <3>1. CASE k[1] = r
      <4>1. row[k].status = "NONE"
        BY <1>0, <1>2, <3>1, StartWrites, TimesAre DEF RowsFine, RowFine
      <4> QED
        BY <1>2, <3>1, <4>1, StartWrites
    <3>2. CASE k[1] # r
      BY <1>2, <3>2, StartWrites
    <3> QED
      BY <3>1, <3>2
  <2>2. dead' = dead
    BY <1>2, StartWrites
  <2> QED
    BY <1>0, <2>1, <2>2, LettersStay
<1>3. ASSUME NEW k \in Key, row[k].entry \in Queued PROVE row[k].status \in {"PENDING", "PROCESSING"}
  BY <1>0, <1>3 DEF RowsFine, RowFine
<1>4. ASSUME NEW k \in Key, Begin(k) \/ BackoffEnds(k) PROVE LettersFine'
  <2>1. /\ row[k].entry \in Queued /\ dead' = dead /\ \A j \in Key : j # k => row'[j] = row[j]
        /\ row'[k].status \in {"PROCESSING", row[k].status}
    BY <1>4, BeginWrites, BackoffWrites DEF Queued
  <2>2. row[k].status # "FAILED"
    BY <1>3, <2>1
  <2>3. \A j \in Key : row'[j].status = "FAILED" <=> row[j].status = "FAILED"
    BY <2>1, <2>2
  <2> QED
    BY <1>0, <2>1, <2>3, LettersStay
<1>5. ASSUME NEW k \in Key, Succeed(k) PROVE LettersFine'
  <2>1. row[k].entry \in Queued /\ dead' = dead
    BY <1>5, SucceedWrites DEF Queued
  <2>2. PICK i \in DOMAIN StageOrder :
              /\ i + 1 \in DOMAIN StageOrder /\ k = Job(k[1], i)
              /\ \A j \in Key : j # k /\ j # Job(k[1], i + 1) => row'[j] = row[j]
              /\ row'[k].status = "COMPLETED"
              /\ row'[Job(k[1], i + 1)].status \in {"COMPLETED", row[Job(k[1], i + 1)].status}
    BY <1>5, SucceedWrites
  <2>3. row[k].status # "FAILED"
    BY <1>3, <2>1
  <2>4. row[Job(k[1], i + 1)].status = "PENDING"
    <3>1. i < i + 1 /\ k[1] \in Runs
      BY KeysAre
    <3> QED
      BY <1>0, <2>1, <2>2, <3>1 DEF RunsFine
  <2>5. \A j \in Key : row'[j].status = "FAILED" <=> row[j].status = "FAILED"
    BY <2>2, <2>3, <2>4
  <2> QED
    BY <1>0, <2>1, <2>5, LettersStay
<1>6. ASSUME NEW k \in Key, FailAttempt(k) PROVE LettersFine'
  <2>1. row[k].entry \in Queued /\ row[k].status # "FAILED"
    BY <1>3, <1>6, FailWrites DEF Queued
  <2>2. CASE Fails(k)
    <3>1. PICK d : d.key = k /\ dead' = dead \cup {d}
      BY <2>2 DEF Fails
    <3>2. /\ row'[k].status = "FAILED"
          /\ \A j \in Key : j # k => (row'[j].status = "FAILED" <=> row[j].status = "FAILED")
      BY <2>2 DEF Fails
    <3>3. \A c \in dead : c.key # k
      BY <1>0, <2>1 DEF LettersFine
    <3> QED
      BY <1>0, <3>1, <3>2, <3>3 DEF LettersFine
  <2>3. CASE ~Fails(k)
    <3>1. /\ dead' = dead /\ row'[k].status = row[k].status /\ \A j \in Key : j # k => row'[j] = row[j]
      BY <1>6, <2>3, FailWrites
    <3>2. \A j \in Key : row'[j].status = "FAILED" <=> row[j].status = "FAILED"
      BY <3>1
    <3> QED
      BY <1>0, <3>1, <3>2, LettersStay
  <2> QED
    BY <2>2, <2>3
<1> QED
  BY <1>1, <1>2, <1>4, <1>5, <1>6 DEF ClockTick, TableStep

LEMMA TableHolds == OpsSpec => [](RetryingInv /\ TableInv)
<1>1. OpsInit => TableInv
  <2> SUFFICES ASSUME OpsInit PROVE TableInv
    OBVIOUS
  <2>1. /\ clock = 0 /\ origin = <<>> /\ dead = {} /\ MaxClock \in Nat
        /\ \A k \in Key : row[k] = Absent
    BY OpsAssumption DEF OpsInit
  <2>2. /\ Absent.status = "NONE" /\ Absent.entry = "none"
        /\ Absent.createdAt = 0 /\ Absent.updatedAt = 0
    BY DEF Absent
  <2>3. OriginsFine
    BY <2>1, KeysAre DEF OriginsFine
  <2>4. RowsFine
    <3>1. Len(origin) = 0
      BY <2>1
    <3>2. \A k \in Key : k[1] \in Runs
      BY KeysAre
    <3>3. \A r \in Runs : r > 0
      BY OpsAssumption DEF Runs
    <3> QED
      BY <2>1, <2>2, <3>1, <3>2, <3>3 DEF RowsFine, RowFine, Queued
  <2>5. RunsFine
    BY <2>1, <2>2, KeysAre DEF RunsFine, Begun, Queued
  <2>6. LettersFine
    BY <2>1, <2>2 DEF LettersFine
  <2> QED
    BY <2>3, <2>4, <2>5, <2>6 DEF TableInv
<1>2. RetryingInv /\ TableInv /\ RetryingInv' /\ [OpsNext]_opsVars => TableInv'
  <2> SUFFICES ASSUME RetryingInv, TableInv, RetryingInv', [OpsNext]_opsVars PROVE TableInv'
    OBVIOUS
  <2>1. CASE UNCHANGED <<clock, origin, row, dead>>
    BY <2>1 DEF TableInv, OriginsFine, RowsFine, RunsFine, Begun, LettersFine
  <2>2. CASE ClockTick \/ TableStep
    BY <2>2, RowsStep, RunsStep, LettersStep DEF TableInv
  <2> QED
    BY <2>1, <2>2 DEF OpsNext, ScanStep, ScanBegins, ScanCounts, ScanLists, opsVars
<1> QED
  BY <1>1, <1>2, RetryingInit, RetryingKept, PTL DEF OpsSpec

-----------------------------------------------------------------------------
(* Tallies of disjoint parts of a finite set add up to the tally of them    *)
(* together.                                                                *)
Pieces(part, keys, W) == (UNION {part[k] : k \in keys}) \cap W

LEMMA PieceMore ==
  ASSUME NEW W, IsFiniteSet(W), NEW part, NEW keys, NEW x \in keys,
         \A k \in keys : k # x => part[k] \cap part[x] \cap W = {}
  PROVE  /\ Cardinality(Pieces(part, keys, W))
              = Cardinality(part[x] \cap W) + Cardinality(Pieces(part, keys \ {x}, W))
         /\ Cardinality(part[x] \cap W) \in Nat /\ Cardinality(Pieces(part, keys \ {x}, W)) \in Nat
<1> DEFINE A == part[x] \cap W
           B == Pieces(part, keys \ {x}, W)
<1>1. Pieces(part, keys, W) = A \cup B
  BY DEF Pieces
<1>2. A \cap B = {}
  BY DEF Pieces
<1>3. A \in SUBSET W /\ B \in SUBSET W
  BY DEF Pieces
<1> HIDE DEF A, B
<1>4. IsFiniteSet(A) /\ IsFiniteSet(B) /\ Cardinality(A) \in Nat /\ Cardinality(B) \in Nat
  BY <1>3, FS_Subset, FS_CardinalityType
<1>5. Cardinality(A \cup B) = Cardinality(A) + Cardinality(B)
  BY <1>2, <1>4, FS_Union, FS_EmptySet
<1> QED
  BY <1>1, <1>4, <1>5 DEF A, B

LEMMA AddedIs ==
  ASSUME NEW W, IsFiniteSet(W), NEW part, NEW keys, IsFiniteSet(keys), NEW tallies, NEW f \in TallyFields,
         \A k \in keys : tallies[k][f] = Cardinality(part[k] \cap W),
         \A j, k \in keys : j # k => part[j] \cap part[k] \cap W = {}
  PROVE  Added(tallies, keys)[f] = Cardinality(Pieces(part, keys, W))
<1> DEFINE first(s) == CHOOSE x \in s : TRUE
           next(g, s) == IF s = {} THEN 0 ELSE tallies[first(s)][f] + g[s \ {first(s)}]
           sum == CHOOSE g : g = [s \in SUBSET keys |-> next(g, s)]
           total == [s \in SUBSET keys |-> Cardinality(Pieces(part, s, W))]
<1>1. Added(tallies, keys)[f] = sum[keys]
  BY DEF Added, MapThenSumSet, MapThenFoldSet
<1>2. total = [s \in SUBSET keys |-> next(total, s)]
  <2> SUFFICES ASSUME NEW s \in SUBSET keys PROVE total[s] = next(total, s)
    OBVIOUS
  <2>1. CASE s = {}
    <3>1. Pieces(part, s, W) = {}
      BY <2>1 DEF Pieces
    <3> QED
      BY <2>1, <3>1, FS_EmptySet
  <2>2. CASE s # {}
    <3>1. first(s) \in s
      BY <2>2
    <3> HIDE DEF first
    <3>2. /\ total[s] = Cardinality(part[first(s)] \cap W) + Cardinality(Pieces(part, s \ {first(s)}, W))
      BY <3>1, PieceMore
    <3>3. total[s \ {first(s)}] = Cardinality(Pieces(part, s \ {first(s)}, W))
      BY <3>1
    <3> QED
      BY <2>2, <3>1, <3>2, <3>3
  <2> QED
    BY <2>1, <2>2
<1>3. sum = [s \in SUBSET keys |-> next(sum, s)]
  <2> HIDE DEF total, next
  <2> QED
    BY <1>2
<1>4. Cardinality(keys) \in Nat /\ \A s \in SUBSET keys : IsFiniteSet(s) /\ Cardinality(s) \in 0 .. Cardinality(keys)
  BY FS_Subset, FS_CardinalityType
<1> DEFINE Same == {n \in 0 .. Cardinality(keys) : \A s \in SUBSET keys : Cardinality(s) = n => sum[s] = total[s]}
<1> HIDE DEF sum, total
<1>5. 0 \in Same
  <2> SUFFICES ASSUME NEW s \in SUBSET keys, Cardinality(s) = 0 PROVE sum[s] = total[s]
    BY <1>4
  <2>1. s = {}
    BY <1>4, FS_EmptySet
  <2>2. sum[s] = next(sum, s) /\ total[s] = next(total, s)
    BY <1>2, <1>3
  <2> QED
    BY <2>1, <2>2
<1>6. \A n \in 0 .. Cardinality(keys) - 1 : n \in Same => n + 1 \in Same
  <2> SUFFICES ASSUME NEW n \in 0 .. Cardinality(keys) - 1, n \in Same,
                      NEW s \in SUBSET keys, Cardinality(s) = n + 1
               PROVE  sum[s] = total[s]
    BY <1>4
  <2>1. s # {} /\ IsFiniteSet(s)
    BY <1>4, FS_EmptySet
  <2>2. first(s) \in s
    BY <2>1
  <2>3. sum[s] = next(sum, s) /\ total[s] = next(total, s)
    BY <1>2, <1>3
  <2>4. PICK x \in s : x = first(s)
    BY <2>2
  <2>5. Cardinality(s \ {x}) = n /\ s \ {x} \in SUBSET keys
    <3>1. Cardinality(s \ {x}) = Cardinality(s) - 1
      BY <2>1, FS_RemoveElement
    <3>2. n \in Nat
      BY <1>4
    <3> QED
      BY <3>1, <3>2
  <2>6. sum[s \ {x}] = total[s \ {x}]
    BY <2>5
  <2> QED
    BY <2>1, <2>3, <2>4, <2>6
<1>7. Cardinality(keys) \in Same
  <2> HIDE DEF Same
  <2> QED
    BY <1>4, <1>5, <1>6, UpTo
<1> QED
  BY <1>1, <1>7 DEF total

-----------------------------------------------------------------------------
(* The rows each field of a tally counts.                                   *)
FieldRows(hours, f) ==
  {k \in Key : /\ row[k].status = "COMPLETED"
               /\ f \in {"completedWindow", "degradedWindow"} => Within(row[k].updatedAt, hours)
               /\ f \in {"degradedTotal", "degradedWindow"} => SqlDegraded(k)}

(* Tallies of the rows R, one for each group of them.                       *)
TalliesOf(tallies, R, group, hours) ==
  /\ DOMAIN tallies = {group[k] : k \in R}
  /\ \A g \in {group[k] : k \in R}, f \in TallyFields :
       tallies[g][f] = Cardinality({k \in R : group[k] = g} \cap FieldRows(hours, f))

LEMMA KeyFinite == IsFiniteSet(Key) /\ \A S \in SUBSET Key : IsFiniteSet(S) /\ Cardinality(S) \in Nat
<1> DEFINE f == [i \in DOMAIN StageOrder |-> StageOrder[i]]
<1>1. f \in Surjection(DOMAIN StageOrder, StageTypes)
  BY DEF Surjection, StageTypes
<1>2. IsFiniteSet(DOMAIN StageOrder) /\ IsFiniteSet(Runs)
  BY KeysAre, OpsAssumption, FS_Interval DEF Runs
<1>3. IsFiniteSet(StageTypes)
  BY <1>1, <1>2, FS_Surjection
<1>4. IsFiniteSet(Key)
  BY <1>2, <1>3, FS_Product DEF Key
<1> QED
  BY <1>4, FS_Subset, FS_CardinalityType

LEMMA TallyIs ==
  ASSUME NEW K \in SUBSET Key, NEW hours, NEW f \in TallyFields
  PROVE  Tally(K, hours)[f] = Cardinality(K \cap FieldRows(hours, f))
<1> DEFINE done == {k \in K : row[k].status = "COMPLETED"}
           last == Completed(K, hours)
<1>1. /\ f = "completedTotal" => Tally(K, hours)[f] = Cardinality(done)
      /\ f = "degradedTotal" => Tally(K, hours)[f] = Cardinality({k \in done : SqlDegraded(k)})
      /\ f = "completedWindow" => Tally(K, hours)[f] = Cardinality(last)
      /\ f = "degradedWindow" => Tally(K, hours)[f] = Cardinality({k \in last : SqlDegraded(k)})
  BY DEF Tally
<1>2. f = "completedTotal" => K \cap FieldRows(hours, f) = done
  BY DEF FieldRows
<1>3. f = "degradedTotal" => K \cap FieldRows(hours, f) = {k \in done : SqlDegraded(k)}
  BY DEF FieldRows
<1>4. f = "completedWindow" => K \cap FieldRows(hours, f) = last
  BY DEF FieldRows, Completed
<1>5. f = "degradedWindow" => K \cap FieldRows(hours, f) = {k \in last : SqlDegraded(k)}
  BY DEF FieldRows, Completed
<1> QED
  BY <1>1, <1>2, <1>3, <1>4, <1>5 DEF TallyFields

LEMMA GroupsFinite ==
  ASSUME NEW R \in SUBSET Key, NEW group
  PROVE  IsFiniteSet({group[k] : k \in R})
<1> DEFINE f == [k \in R |-> group[k]]
<1>1. f \in Surjection(R, {group[k] : k \in R})
  BY DEF Surjection
<1> QED
  BY <1>1, KeyFinite, FS_Surjection

LEMMA TotalsAre ==
  ASSUME NEW R \in SUBSET Key, NEW group, NEW hours, NEW tallies, TalliesOf(tallies, R, group, hours)
  PROVE  /\ DOMAIN Totals(tallies) = TallyFields
         /\ Totals(tallies) = [f \in TallyFields |-> Cardinality(R \cap FieldRows(hours, f))]
<1>1. Totals(tallies) = [f \in TallyFields |-> Totals(tallies)[f]] /\ DOMAIN Totals(tallies) = TallyFields
  BY DEF Totals, Added
<1>2. ASSUME NEW f \in TallyFields PROVE Totals(tallies)[f] = Cardinality(R \cap FieldRows(hours, f))
  <2> DEFINE keys == {group[k] : k \in R}
             part == [g \in keys |-> {k \in R : group[k] = g}]
             W == FieldRows(hours, f)
  <2>1. IsFiniteSet(W)
    BY KeyFinite DEF FieldRows
  <2>2. IsFiniteSet(keys) /\ DOMAIN tallies = keys
    BY GroupsFinite DEF TalliesOf
  <2>3. \A g \in keys : tallies[g][f] = Cardinality(part[g] \cap W)
    BY DEF TalliesOf
  <2>4. \A g, h \in keys : g # h => part[g] \cap part[h] \cap W = {}
    OBVIOUS
  <2>5. Pieces(part, keys, W) = R \cap W
    <3>1. ASSUME NEW k \in R PROVE k \in part[group[k]] /\ group[k] \in keys
      OBVIOUS
    <3>2. ASSUME NEW g \in keys PROVE part[g] \subseteq R
      OBVIOUS
    <3> HIDE DEF keys, part, W
    <3> QED
      BY <3>1, <3>2 DEF Pieces
  <2> HIDE DEF keys, part, W
  <2>6. Added(tallies, keys)[f] = Cardinality(Pieces(part, keys, W))
    BY <2>1, <2>2, <2>3, <2>4, AddedIs
  <2> QED
    BY <2>2, <2>5, <2>6 DEF Totals, W
<1> QED
  BY <1>1, <1>2

LEMMA GroupsAre ==
  ASSUME NEW R \in SUBSET Key, NEW group, NEW hours, NEW tallies, TalliesOf(tallies, R, group, hours),
         NEW coarse, NEW wide, \A k \in R : wide[k] = coarse[group[k]]
  PROVE  TalliesOf(GroupBy(tallies, coarse), R, wide, hours)
<1> DEFINE keys == {group[k] : k \in R}
           of(c) == {g \in keys : coarse[g] = c}
<1>1. DOMAIN tallies = keys /\ IsFiniteSet(keys)
  BY GroupsFinite DEF TalliesOf
<1>2. {coarse[g] : g \in keys} = {wide[k] : k \in R}
  OBVIOUS
<1>3. GroupBy(tallies, coarse) = [c \in {wide[k] : k \in R} |-> Added(tallies, of(c))]
  BY <1>1, <1>2 DEF GroupBy
<1>4. ASSUME NEW c \in {wide[k] : k \in R}, NEW f \in TallyFields
      PROVE  Added(tallies, of(c))[f] = Cardinality({k \in R : wide[k] = c} \cap FieldRows(hours, f))
  <2> DEFINE part == [g \in keys |-> {k \in R : group[k] = g}]
             W == FieldRows(hours, f)
  <2>1. IsFiniteSet(W)
    BY KeyFinite DEF FieldRows
  <2>2. of(c) \in SUBSET keys
    OBVIOUS
  <2>3. \A g \in of(c) : tallies[g][f] = Cardinality(part[g] \cap W)
    BY DEF TalliesOf
  <2>4. \A g, h \in of(c) : g # h => part[g] \cap part[h] \cap W = {}
    OBVIOUS
  <2>5. Pieces(part, of(c), W) = {k \in R : wide[k] = c} \cap W
    <3> DEFINE those == {k \in R : wide[k] = c}
    <3>1. ASSUME NEW k \in those PROVE k \in part[group[k]] /\ group[k] \in of(c)
      OBVIOUS
    <3>2. ASSUME NEW g \in of(c) PROVE part[g] \subseteq those
      OBVIOUS
    <3> HIDE DEF keys, part, W, of, those
    <3>3. Pieces(part, of(c), W) = those \cap W
      BY <3>1, <3>2 DEF Pieces
    <3> QED
      BY <3>3 DEF those
  <2> HIDE DEF keys, part, W, of
  <2>6. IsFiniteSet(of(c))
    BY <1>1, <2>2, FS_Subset
  <2>7. Added(tallies, of(c))[f] = Cardinality(Pieces(part, of(c), W))
    BY <2>1, <2>3, <2>4, <2>6, AddedIs
  <2> QED
    BY <2>5, <2>7 DEF W
<1> HIDE DEF of
<1> QED
  BY <1>3, <1>4 DEF TalliesOf

(* The three reports that count, each as the tallies of the same rows.      *)
TypeAndSource == [k \in Key |-> <<k[2], SqlSource(origin[k[1]])>>]

RowsIn(mode, synthetic) == {k \in Rows(synthetic) : mode \in {"all", SqlSource(origin[k[1]])}}

LEMMA RowsAre ==
  ASSUME NEW synthetic
  PROVE  /\ Rows(synthetic) \in SUBSET Key /\ RowsIn("all", synthetic) = Rows(synthetic)
         /\ \A mode : RowsIn(mode, synthetic) \in SUBSET Key
BY DEF Rows, RowsIn

LEMMA SourceTallies ==
  ASSUME NEW h, NEW mode, NEW synthetic
  PROVE  TalliesOf(ByTypeAndSource(h, mode, synthetic), RowsIn(mode, synthetic), TypeAndSource, NormalizeWindow(h))
<1> DEFINE K == {k \in Rows(synthetic) : mode \in {"all", <<k[2], SqlSource(origin[k[1]])>>[2]}}
           groups == {<<k[2], SqlSource(origin[k[1]])>> : k \in K}
           of(g) == {k \in K : <<k[2], SqlSource(origin[k[1]])>> = g}
<1>1. ByTypeAndSource(h, mode, synthetic) = [g \in groups |-> Tally(of(g), NormalizeWindow(h))]
  BY DEF ByTypeAndSource
<1>2. K = RowsIn(mode, synthetic) /\ K \in SUBSET Key
  BY RowsAre DEF RowsIn
<1>3. \A k \in K : TypeAndSource[k] = <<k[2], SqlSource(origin[k[1]])>>
  BY <1>2 DEF TypeAndSource
<1>4. groups = {TypeAndSource[k] : k \in K}
  BY <1>3
<1>5. ASSUME NEW g \in groups, NEW f \in TallyFields
      PROVE  ByTypeAndSource(h, mode, synthetic)[g][f] = Cardinality({k \in K : TypeAndSource[k] = g} \cap FieldRows(NormalizeWindow(h), f))
  <2>1. of(g) = {k \in K : TypeAndSource[k] = g} /\ of(g) \in SUBSET Key
    BY <1>2, <1>3
  <2>2. ByTypeAndSource(h, mode, synthetic)[g] = Tally(of(g), NormalizeWindow(h))
    BY <1>1
  <2> HIDE DEF of
  <2> QED
    BY <2>1, <2>2, TallyIs
<1>6. DOMAIN ByTypeAndSource(h, mode, synthetic) = groups
  BY <1>1
<1> HIDE DEF groups, K
<1> QED
  BY <1>2, <1>4, <1>5, <1>6 DEF TalliesOf

LEMMA LanguageTallies ==
  ASSUME NEW h, NEW synthetic
  PROVE  TalliesOf(ByLanguage(h, synthetic), Rows(synthetic), [k \in Key |-> LanguageOf(k[1])], NormalizeWindow(h))
<1> DEFINE K == Rows(synthetic)
           language == [k \in Key |-> LanguageOf(k[1])]
           languages == {LanguageOf(k[1]) : k \in K}
           of(l) == {k \in K : LanguageOf(k[1]) = l}
<1>1. ByLanguage(h, synthetic) = [l \in languages |-> Tally(of(l), NormalizeWindow(h))]
  BY DEF ByLanguage
<1>2. K \in SUBSET Key
  BY RowsAre
<1>3. \A k \in K : language[k] = LanguageOf(k[1])
  BY <1>2
<1> HIDE DEF language, K
<1>4. languages = {language[k] : k \in K}
  BY <1>3
<1>5. ASSUME NEW l \in languages, NEW f \in TallyFields
      PROVE  ByLanguage(h, synthetic)[l][f] = Cardinality({k \in K : language[k] = l} \cap FieldRows(NormalizeWindow(h), f))
  <2>1. of(l) = {k \in K : language[k] = l} /\ of(l) \in SUBSET Key
    BY <1>2, <1>3
  <2>2. ByLanguage(h, synthetic)[l] = Tally(of(l), NormalizeWindow(h))
    BY <1>1
  <2> HIDE DEF of
  <2> QED
    BY <2>1, <2>2, TallyIs
<1>6. DOMAIN ByLanguage(h, synthetic) = languages
  BY <1>1
<1> HIDE DEF languages, K
<1>7. TalliesOf(ByLanguage(h, synthetic), K, language, NormalizeWindow(h))
  BY <1>4, <1>5, <1>6 DEF TalliesOf
<1> QED
  BY <1>7 DEF language, K

LEMMA WideTallies ==
  ASSUME NEW h, NEW synthetic
  PROVE  LET all == ByTypeAndSource(h, "all", synthetic) IN
         /\ TalliesOf(ByType(all), Rows(synthetic), [k \in Key |-> k[2]], NormalizeWindow(h))
         /\ TalliesOf(BySourceMode(all), Rows(synthetic), [k \in Key |-> SqlSource(origin[k[1]])], NormalizeWindow(h))
<1> DEFINE all == ByTypeAndSource(h, "all", synthetic)
           R == Rows(synthetic)
           first == [g \in DOMAIN all |-> g[1]]
           second == [g \in DOMAIN all |-> g[2]]
           types == [k \in Key |-> k[2]]
           sources == [k \in Key |-> SqlSource(origin[k[1]])]
<1>1. TalliesOf(all, R, TypeAndSource, NormalizeWindow(h)) /\ R \in SUBSET Key
  BY SourceTallies, RowsAre
<1>2. DOMAIN all = {TypeAndSource[k] : k \in R}
  BY <1>1 DEF TalliesOf
<1>3. \A k \in R : types[k] = first[TypeAndSource[k]] /\ sources[k] = second[TypeAndSource[k]]
  BY <1>1, <1>2 DEF TypeAndSource
<1>4. ByType(all) = GroupBy(all, first) /\ BySourceMode(all) = GroupBy(all, second)
  BY DEF ByType, BySourceMode
<1> HIDE DEF all, R, first, second, types, sources
<1>5. /\ TalliesOf(GroupBy(all, first), R, types, NormalizeWindow(h))
      /\ TalliesOf(GroupBy(all, second), R, sources, NormalizeWindow(h))
  BY <1>1, <1>3, GroupsAre
<1> QED
  BY <1>4, <1>5 DEF all, R, types, sources

-----------------------------------------------------------------------------
(* Sorting by rank keeps the number of the values.                          *)
LEMMA SortedLen ==
  ASSUME NEW v, IsFiniteSet(DOMAIN v)
  PROVE  LET s == SortedValues(v) IN
         Len(s) = Cardinality(DOMAIN v) /\ Len(s) \in Nat /\ DOMAIN s = 1 .. Len(s) /\ Summary(s).count = Len(s)
<1> DEFINE n == Cardinality(DOMAIN v)
           s == SortedValues(v)
           under(x) == Cardinality({k \in DOMAIN v : v[k] < x})
           upTo(x) == Cardinality({k \in DOMAIN v : v[k] <= x})
           value(i) == CHOOSE x \in {v[k] : k \in DOMAIN v} : under(x) < i /\ i <= upTo(x)
<1>1. n \in Nat
  BY FS_CardinalityType
<1>2. s = [i \in 1 .. n |-> value(i)]
  BY DEF SortedValues
<1> HIDE DEF n, value, s
<1>3. DOMAIN s = 1 .. n
  BY <1>2
<1>4. s \in Seq({value(i) : i \in 1 .. n})
  BY <1>1, <1>2
<1>5. Len(s) = n
  BY <1>1, <1>3, <1>4
<1>6. Summary(s).count = Len(s)
  BY DEF Summary
<1> QED
  BY <1>1, <1>3, <1>5, <1>6 DEF n, s

(* What two queries and the service say of where a run came from.           *)
LEMMA SameSource ==
  ASSUME NEW o \in Origin
  PROVE  SqlSource(o) = ResolveSourceMode(o) /\ (SqlSynthetic(o) <=> IsSyntheticJob(o))
<1>1. /\ o.has \in SUBSET {"youtube", "audio", "lyrics"} /\ o.isSynthetic \in BOOLEAN
      /\ o.runType \in {"none", "smoke", "chaos"}
  BY DEF Origin, Modes
<1>2. SqlSource(o) = ResolveSourceMode(o)
  <2>1. CASE o.project \in Modes
    BY <2>1 DEF SqlSource, ResolveSourceMode
  <2>2. CASE o.project \notin Modes /\ o.payload \in Modes
    BY <2>2 DEF SqlSource, ResolveSourceMode
  <2>3. CASE o.project \notin Modes /\ o.payload \notin Modes
    BY <1>1, <2>3 DEF SqlSource, ResolveSourceMode, InferSourceMode
  <2> QED
    BY <2>1, <2>2, <2>3
<1>3. SqlSynthetic(o) <=> IsSyntheticJob(o)
  BY <1>1 DEF SqlSynthetic, IsSyntheticJob, IsSyntheticInputData
<1> QED
  BY <1>2, <1>3

LEMMA SameDegraded == \A k \in Key : SqlDegraded(k) <=> ReasonCodes(k) # <<>>
BY DEF SqlDegraded, ReasonCodes

(* A row of the table belongs to a run with an origin.                      *)
LEMMA RowsHaveOrigins ==
  ASSUME RetryingInv, TableInv, NEW k \in Key, row[k].status # "NONE"
  PROVE  origin[k[1]] \in Origin
<1>1. ~(k[1] > Len(origin))
  BY DEF TableInv, RowsFine, RowFine
<1>2. k[1] \in 1 .. Len(origin)
  <2>1. k[1] \in Nat /\ k[1] >= 1
    BY KeysAre
  <2> QED
    BY <1>1, <2>1, TimesAre
<1> QED
  BY <1>2, OpsAssumption DEF TableInv, OriginsFine

(* The two halves of CountsAgree.                                           *)
SumsAgree(h, synthetic) ==
  LET all == ByTypeAndSource(h, "all", synthetic)
      types == ByType(all)
      durations == DurationByStage(h, synthetic)
  IN  /\ Totals(types) = Totals(BySourceMode(all))
      /\ Totals(types) = Totals(ByLanguage(h, synthetic))
      /\ \A t \in DOMAIN durations : durations[t].count = types[t].completedWindow

QualityMatches(h, mode, synthetic) ==
  LET quality == Quality(h, mode, synthetic)
      sql == ByTypeAndSource(h, mode, synthetic)
      counted == {g \in DOMAIN sql : sql[g].completedWindow > 0}
  IN  /\ DOMAIN quality = counted
      /\ \A g \in counted :
            /\ quality[g].completedWindow = sql[g].completedWindow
            /\ quality[g].degradedWindow = sql[g].degradedWindow

(* The quality summary goes through the same rows as the snapshot.          *)
LEMMA QualityAgrees ==
  ASSUME RetryingInv, TableInv, NEW h, NEW synthetic \in BOOLEAN, NEW mode
  PROVE  QualityMatches(h, mode, synthetic)
<1> DEFINE hours == NormalizeWindow(h)
           quality == Quality(h, mode, synthetic)
           sql == ByTypeAndSource(h, mode, synthetic)
           counted == {g \in DOMAIN sql : sql[g].completedWindow > 0}
           R == RowsIn(mode, synthetic)
           K == {k \in Completed(Key, hours) : /\ synthetic \/ ~IsSyntheticJob(origin[k[1]])
                                               /\ mode \in {"all", ResolveSourceMode(origin[k[1]])}}
           group(k) == <<k[2], ResolveSourceMode(origin[k[1]])>>
           rows(g) == {k \in R : TypeAndSource[k] = g}
<1>1. quality = [g \in {group(k) : k \in K} |->
                    [completedWindow |-> Cardinality({k \in K : group(k) = g}),
                     degradedWindow  |-> Cardinality({k \in K : group(k) = g /\ ReasonCodes(k) # <<>>})]]
  BY DEF Quality
<1>2. TalliesOf(sql, R, TypeAndSource, hours) /\ R \in SUBSET Key
  BY SourceTallies, RowsAre
<1>3. ASSUME NEW k \in Key, row[k].status = "COMPLETED"
      PROVE  /\ TypeAndSource[k] = group(k)
             /\ k \in R <=> /\ synthetic \/ ~IsSyntheticJob(origin[k[1]])
                            /\ mode \in {"all", ResolveSourceMode(origin[k[1]])}
  <2>1. origin[k[1]] \in Origin
    BY <1>3, RowsHaveOrigins
  <2>2. /\ SqlSource(origin[k[1]]) = ResolveSourceMode(origin[k[1]])
        /\ SqlSynthetic(origin[k[1]]) <=> IsSyntheticJob(origin[k[1]])
    BY <2>1, SameSource
  <2> QED
    BY <1>3, <2>2 DEF RowsIn, Rows, TypeAndSource
<1>4. ASSUME NEW g
      PROVE  /\ rows(g) \cap FieldRows(hours, "completedWindow") = {k \in K : group(k) = g}
             /\ rows(g) \cap FieldRows(hours, "degradedWindow") = {k \in K : group(k) = g /\ ReasonCodes(k) # <<>>}
  <2> HIDE DEF group
  <2>1. rows(g) \cap FieldRows(hours, "completedWindow") = {k \in K : group(k) = g}
    BY <1>2, <1>3 DEF FieldRows, Completed
  <2>2. \A k \in K : k \in Key
    BY DEF Completed
  <2>3. rows(g) \cap FieldRows(hours, "degradedWindow")
           = {k \in rows(g) \cap FieldRows(hours, "completedWindow") : SqlDegraded(k)}
    BY DEF FieldRows
  <2> QED
    BY <2>1, <2>2, <2>3, SameDegraded
<1>5. DOMAIN sql = {TypeAndSource[k] : k \in R}
  BY <1>2 DEF TalliesOf
<1>6. ASSUME NEW g \in DOMAIN sql
      PROVE  /\ sql[g].completedWindow = Cardinality({k \in K : group(k) = g})
             /\ sql[g].degradedWindow = Cardinality({k \in K : group(k) = g /\ ReasonCodes(k) # <<>>})
  <2>1. "completedWindow" \in TallyFields /\ "degradedWindow" \in TallyFields
    BY DEF TallyFields
  <2> HIDE DEF hours, sql, R, K
  <2>2. /\ sql[g]["completedWindow"] = Cardinality(rows(g) \cap FieldRows(hours, "completedWindow"))
        /\ sql[g]["degradedWindow"] = Cardinality(rows(g) \cap FieldRows(hours, "degradedWindow"))
    BY <1>2, <1>5, <2>1 DEF TalliesOf
  <2> HIDE DEF rows, group
  <2> QED
    BY <1>4, <2>2
<1>7. ASSUME NEW g \in DOMAIN sql
      PROVE  sql[g].completedWindow > 0 <=> \E k \in K : group(k) = g
  <2> DEFINE these == {k \in K : group(k) = g}
  <2>1. these \in SUBSET Key
    BY DEF Completed
  <2>2. Cardinality(these) \in Nat /\ (Cardinality(these) = 0 <=> these = {})
    BY <2>1, KeyFinite, FS_EmptySet
  <2>3. sql[g].completedWindow = Cardinality(these)
    BY <1>6
  <2> HIDE DEF sql
  <2> QED
    BY <2>2, <2>3
<1>8. ASSUME NEW k \in K PROVE group(k) \in DOMAIN sql
  <2>1. k \in Key /\ row[k].status = "COMPLETED"
    BY DEF Completed
  <2>2. k \in R /\ TypeAndSource[k] = group(k)
    BY <1>3, <2>1
  <2> QED
    BY <1>5, <2>2
<1> HIDE DEF sql, quality, K, group
<1>9. counted = {group(k) : k \in K}
  BY <1>7, <1>8
<1>10. DOMAIN quality = counted
  BY <1>1, <1>9
<1>11. ASSUME NEW g \in counted
       PROVE  /\ quality[g].completedWindow = sql[g].completedWindow
              /\ quality[g].degradedWindow = sql[g].degradedWindow
  <2>1. g \in {group(k) : k \in K} /\ g \in DOMAIN sql
    BY <1>9
  <2> QED
    BY <1>1, <1>6, <2>1
<1> QED
  BY <1>10, <1>11 DEF sql, quality, QualityMatches

LEMMA SumsHold ==
  ASSUME NEW h, NEW synthetic
  PROVE  SumsAgree(h, synthetic)
<1> DEFINE hours == NormalizeWindow(h)
           all == ByTypeAndSource(h, "all", synthetic)
           types == ByType(all)
           durations == DurationByStage(h, synthetic)
           R == Rows(synthetic)
           type == [k \in Key |-> k[2]]
           source == [k \in Key |-> SqlSource(origin[k[1]])]
           language == [k \in Key |-> LanguageOf(k[1])]
<1>1. R \in SUBSET Key
  BY RowsAre
<1>2. /\ TalliesOf(types, R, type, hours)
      /\ TalliesOf(BySourceMode(all), R, source, hours)
      /\ TalliesOf(ByLanguage(h, synthetic), R, language, hours)
  BY WideTallies, LanguageTallies
<1>3. Totals(types) = Totals(BySourceMode(all)) /\ Totals(types) = Totals(ByLanguage(h, synthetic))
  <2> DEFINE total == [f \in TallyFields |-> Cardinality(R \cap FieldRows(hours, f))]
  <2>1. Totals(types) = total
    <3>1. TalliesOf(types, R, type, hours)
      BY <1>2
    <3> HIDE DEF R, types, all, type, source, language, hours
    <3> QED
      BY ONLY <1>1, <3>1, TotalsAre
  <2>2. Totals(BySourceMode(all)) = total
    <3> HIDE DEF R, all, source, hours
    <3> QED
      BY <1>1, <1>2, TotalsAre
  <2>3. Totals(ByLanguage(h, synthetic)) = total
    <3> HIDE DEF R, language, hours
    <3> QED
      BY <1>1, <1>2, TotalsAre
  <2> QED
    BY <2>1, <2>2, <2>3
<1>4. ASSUME NEW t \in DOMAIN durations PROVE durations[t].count = types[t].completedWindow
  <2> DEFINE done == Completed({k \in R : k[2] = t}, hours)
             values == [k \in done |-> Duration(k)]
  <2>1. t \in {k[2] : k \in R} /\ durations[t] = Summary(SortedValues(values))
    BY DEF DurationByStage
  <2>2. done \in SUBSET Key /\ DOMAIN values = done
    BY <1>1 DEF Completed
  <2>3. durations[t].count = Cardinality(done)
    <3> HIDE DEF durations, values
    <3> QED
      BY <2>1, <2>2, KeyFinite, SortedLen
  <2>4. done = {k \in R : type[k] = t} \cap FieldRows(hours, "completedWindow")
    BY <1>1 DEF Completed, FieldRows
  <2>5. t \in {type[k] : k \in R} /\ "completedWindow" \in TallyFields
    BY <1>1, <2>1 DEF TallyFields
  <2> HIDE DEF types, R, type, hours, done
  <2>6. types[t]["completedWindow"] = Cardinality({k \in R : type[k] = t} \cap FieldRows(hours, "completedWindow"))
    BY <1>2, <2>5 DEF TalliesOf
  <2> QED
    BY <2>3, <2>4, <2>6
<1> QED
  BY <1>3, <1>4 DEF SumsAgree

LEMMA CountsHold ==
  ASSUME RetryingInv, TableInv
  PROVE  CountsAgree
<1>1. \A h : \A synthetic \in BOOLEAN : SumsAgree(h, synthetic)
  BY SumsHold
<1>2. \A h, mode : \A synthetic \in BOOLEAN : QualityMatches(h, mode, synthetic)
  BY QualityAgrees
<1>3. \A h \in {1, MaxHours}, synthetic \in BOOLEAN :
        SumsAgree(h, synthetic) /\ \A mode \in {"all", "audio", "lyrics"} : QualityMatches(h, mode, synthetic)
  BY <1>1, <1>2
<1> QED
  BY ONLY <1>3, ZenonT(60) DEF CountsAgree, SumsAgree, QualityMatches

-----------------------------------------------------------------------------
(* Sorting by rank: every value sits where the values below it leave room,   *)
(* so that the order ascends from the least of them to the greatest.         *)
Under(v, x) == Cardinality({k \in DOMAIN v : v[k] < x})
UpToIt(v, x) == Cardinality({k \in DOMAIN v : v[k] <= x})

LEMMA RanksAre ==
  ASSUME NEW v, IsFiniteSet(DOMAIN v), \A k \in DOMAIN v : v[k] \in Int
  PROVE  /\ Cardinality(DOMAIN v) \in Nat
         /\ \A x \in Int : /\ Under(v, x) \in Nat /\ UpToIt(v, x) \in Nat
                           /\ Under(v, x) = 0 => \A k \in DOMAIN v : x <= v[k]
                           /\ UpToIt(v, x) <= Cardinality(DOMAIN v)
                           /\ UpToIt(v, x) = Cardinality(DOMAIN v) => \A k \in DOMAIN v : v[k] <= x
                           /\ (\A k \in DOMAIN v : v[k] <= x) => UpToIt(v, x) = Cardinality(DOMAIN v)
         /\ \A x, y \in Int : y < x => UpToIt(v, y) <= Under(v, x)
<1>1. \A S \in SUBSET (DOMAIN v) : /\ IsFiniteSet(S) /\ Cardinality(S) \in Nat
                                   /\ Cardinality(S) <= Cardinality(DOMAIN v)
                                   /\ Cardinality(S) = Cardinality(DOMAIN v) => S = DOMAIN v
                                   /\ Cardinality(S) = 0 => S = {}
  BY FS_Subset, FS_CardinalityType, FS_EmptySet
<1>2. ASSUME NEW x \in Int
      PROVE  /\ Under(v, x) \in Nat /\ UpToIt(v, x) \in Nat
             /\ Under(v, x) = 0 => \A k \in DOMAIN v : x <= v[k]
             /\ UpToIt(v, x) <= Cardinality(DOMAIN v)
             /\ UpToIt(v, x) = Cardinality(DOMAIN v) => \A k \in DOMAIN v : v[k] <= x
             /\ (\A k \in DOMAIN v : v[k] <= x) => UpToIt(v, x) = Cardinality(DOMAIN v)
  <2> DEFINE A == {k \in DOMAIN v : v[k] < x}
             B == {k \in DOMAIN v : v[k] <= x}
  <2>1. A \in SUBSET (DOMAIN v) /\ B \in SUBSET (DOMAIN v)
    OBVIOUS
  <2>2. /\ A = {} => \A k \in DOMAIN v : x <= v[k]
        /\ B = DOMAIN v <=> \A k \in DOMAIN v : v[k] <= x
    OBVIOUS
  <2>3. Under(v, x) = Cardinality(A) /\ UpToIt(v, x) = Cardinality(B)
    BY DEF Under, UpToIt
  <2> HIDE DEF A, B
  <2> QED
    BY <1>1, <2>1, <2>2, <2>3
<1>3. ASSUME NEW x \in Int, NEW y \in Int, y < x
      PROVE  UpToIt(v, y) <= Under(v, x)
  <2> DEFINE A == {k \in DOMAIN v : v[k] < x}
             B == {k \in DOMAIN v : v[k] <= y}
  <2>1. A \in SUBSET (DOMAIN v) /\ B \in SUBSET A
    BY <1>3
  <2>2. Under(v, x) = Cardinality(A) /\ UpToIt(v, y) = Cardinality(B)
    BY DEF Under, UpToIt
  <2> HIDE DEF A, B
  <2> QED
    BY <1>1, <2>1, <2>2, FS_Subset
<1>4. Cardinality(DOMAIN v) \in Nat
  BY FS_CardinalityType
<1> QED
  BY <1>2, <1>3, <1>4

(* The least value that enough values do not exceed has room for the rank.   *)
LEMMA RankTaken ==
  ASSUME NEW v, IsFiniteSet(DOMAIN v), \A k \in DOMAIN v : v[k] \in Int,
         NEW i \in 1 .. Cardinality(DOMAIN v)
  PROVE  \E k \in DOMAIN v : Under(v, v[k]) < i /\ i <= UpToIt(v, v[k])
<1> DEFINE enough == {k \in DOMAIN v : i <= UpToIt(v, v[k])}
<1>0. Cardinality(DOMAIN v) \in Nat /\ i \in Nat
  BY RanksAre
<1>1. DOMAIN v # {}
  BY <1>0, FS_EmptySet
<1>2. PICK top \in DOMAIN v : \A k \in DOMAIN v : v[k] <= v[top]
  BY <1>1, GreatestAt
<1>3. top \in enough
  BY <1>0, <1>2, RanksAre
<1>4. IsFiniteSet(enough) /\ enough # {} /\ enough \in SUBSET (DOMAIN v)
  <2>1. enough \in SUBSET (DOMAIN v)
    OBVIOUS
  <2> QED
    BY <1>3, <2>1, FS_Subset
<1>5. PICK k \in enough : \A j \in enough : v[k] <= v[j]
  <2>1. \A j \in enough : v[j] \in Int
    OBVIOUS
  <2> HIDE DEF enough
  <2> QED
    BY <1>4, <2>1, LeastAt
<1>6. Under(v, v[k]) \in Nat /\ i <= UpToIt(v, v[k]) /\ k \in DOMAIN v
  BY RanksAre
<1>7. ASSUME i <= Under(v, v[k]) PROVE FALSE
  <2> DEFINE less == {j \in DOMAIN v : v[j] < v[k]}
  <2>1. less \in SUBSET (DOMAIN v) /\ less # {}
    <3>1. less = {} => Cardinality(less) = 0
      BY FS_EmptySet
    <3> QED
      BY <1>0, <1>7, <3>1 DEF Under
  <2>2. IsFiniteSet(less) /\ \A j \in less : v[j] \in Int
    BY <2>1, FS_Subset
  <2>3. PICK m \in less : \A j \in less : v[j] <= v[m]
    <3> HIDE DEF less
    <3> QED
      BY <2>1, <2>2, GreatestAt
  <2>4. less = {j \in DOMAIN v : v[j] <= v[m]}
    BY <1>6, <2>3
  <2>5. UpToIt(v, v[m]) = Under(v, v[k])
    BY <2>4 DEF UpToIt, Under
  <2>6. m \in enough /\ v[m] < v[k] /\ v[m] \in Int /\ v[k] \in Int
    BY <1>6, <1>7, <2>3, <2>5
  <2> QED
    BY <1>5, <2>6
<1> QED
  BY <1>0, <1>6, <1>7

LEMMA SortedIs ==
  ASSUME NEW v, IsFiniteSet(DOMAIN v), \A k \in DOMAIN v : v[k] \in Int
  PROVE  LET s == SortedValues(v) IN
         /\ \A i \in 1 .. Len(s) : s[i] \in Int /\ \E k \in DOMAIN v : s[i] = v[k]
         /\ \A i, j \in 1 .. Len(s) : i <= j => s[i] <= s[j]
         /\ \A k \in DOMAIN v : s[1] <= v[k] /\ v[k] <= s[Len(s)]
         /\ Len(s) = 0 => s = <<>>
<1> DEFINE n == Cardinality(DOMAIN v)
           s == SortedValues(v)
           values == {v[k] : k \in DOMAIN v}
           value(i) == CHOOSE x \in values : Under(v, x) < i /\ i <= UpToIt(v, x)
<1>1. n \in Nat /\ Len(s) = n
  BY RanksAre, SortedLen
<1>2. s = [i \in 1 .. n |-> value(i)]
  BY DEF SortedValues, Under, UpToIt
<1>3. ASSUME NEW i \in 1 .. n
      PROVE  s[i] \in values /\ Under(v, s[i]) < i /\ i <= UpToIt(v, s[i])
  <2>1. \E x \in values : Under(v, x) < i /\ i <= UpToIt(v, x)
    BY RankTaken
  <2>2. value(i) \in values /\ Under(v, value(i)) < i /\ i <= UpToIt(v, value(i))
    BY <2>1
  <2>3. s[i] = value(i)
    BY <1>2
  <2> QED
    BY <2>2, <2>3
<1> HIDE DEF s, value
<1>4. \A i \in 1 .. n : s[i] \in Int /\ \E k \in DOMAIN v : s[i] = v[k]
  BY <1>3
<1>5. ASSUME NEW i \in 1 .. n, NEW j \in 1 .. n, i <= j, s[j] < s[i] PROVE FALSE
  <2>1. /\ i <= UpToIt(v, s[i]) /\ Under(v, s[i]) < i /\ j <= UpToIt(v, s[j])
        /\ s[i] \in Int /\ s[j] \in Int
    BY <1>3, <1>4
  <2>2. UpToIt(v, s[j]) <= Under(v, s[i]) /\ UpToIt(v, s[j]) \in Nat /\ Under(v, s[i]) \in Nat
    BY <1>5, <2>1, RanksAre
  <2>3. i \in Nat /\ j \in Nat
    BY <1>1
  <2> QED
    BY <1>5, <2>1, <2>2, <2>3
<1>6. ASSUME NEW i \in 1 .. n, NEW j \in 1 .. n, i <= j PROVE s[i] <= s[j]
  BY <1>4, <1>5, <1>6
<1>7. ASSUME NEW k \in DOMAIN v PROVE s[1] <= v[k] /\ v[k] <= s[n]
  <2>1. n # 0
    BY FS_EmptySet
  <2>2. 1 \in 1 .. n /\ n \in 1 .. n
    BY <1>1, <2>1
  <2>3. /\ Under(v, s[1]) < 1 /\ n <= UpToIt(v, s[n]) /\ s[1] \in Int /\ s[n] \in Int
    BY <1>3, <1>4, <2>2
  <2>4. Under(v, s[1]) \in Nat /\ UpToIt(v, s[n]) \in Nat /\ UpToIt(v, s[n]) <= n
    BY <2>3, RanksAre
  <2>5. Under(v, s[1]) = 0 /\ UpToIt(v, s[n]) = n
    BY <1>1, <2>3, <2>4
  <2> QED
    BY <2>3, <2>5, RanksAre
<1>8. n = 0 => s = <<>>
  BY <1>2
<1> QED
  BY <1>1, <1>4, <1>6, <1>7, <1>8 DEF s

-----------------------------------------------------------------------------
(* What lies between two values, so many hundredths of the way.             *)
Between(a, b, rest) == (a * (100 - rest) + b * rest + 50) \div 100

LEMMA DivIs ==
  /\ \A x, y \in Int : x <= y => x \div 100 <= y \div 100
  /\ \A x \in Int : x \div 100 \in Int /\ (100 * x + 50) \div 100 = x
OBVIOUS

(* A larger share of the same distance, and the same share of a larger one. *)
LEMMA SharesGrow ==
  ASSUME NEW u \in Nat, NEW m \in Nat, NEW n \in Nat, m <= n
  PROVE  u * m \in Nat /\ u * m <= u * n
<1>1. PICK k \in Nat : n = m + k
  OBVIOUS
<1>2. u * m \in Nat /\ u * k \in Nat
  OBVIOUS
<1>3. u * n = u * m + u * k
  BY <1>1
<1> QED
  BY ONLY <1>2, <1>3

LEMMA BetweenIs ==
  ASSUME NEW a \in Int, NEW b \in Int, a <= b, NEW p \in 0 .. 100, NEW q \in 0 .. 100, p <= q
  PROVE  /\ Between(a, b, p) \in Int /\ a <= Between(a, b, p) /\ Between(a, b, p) <= b
         /\ Between(a, b, p) <= Between(a, b, q) /\ Between(a, b, 0) = a
<1> DEFINE d(r) == (b - a) * r
<1>1. \A r \in 0 .. 100 : a * (100 - r) + b * r = 100 * a + d(r) /\ d(r) \in Int
  OBVIOUS
<1>2. 0 <= d(p) /\ d(p) <= d(q) /\ d(q) <= 100 * (b - a) /\ d(0) = 0
  <2>1. b - a \in Nat /\ p \in Nat /\ q \in Nat /\ 100 \in Nat /\ p <= q /\ q <= 100
    OBVIOUS
  <2>2. 0 <= (b - a) * p /\ (b - a) * p <= (b - a) * q
    BY <2>1, SharesGrow
  <2>3. (b - a) * q <= (b - a) * 100
    BY <2>1, SharesGrow
  <2>4. (b - a) * 0 = 0 /\ (b - a) * 100 = 100 * (b - a)
    BY <2>1
  <2> QED
    BY <2>2, <2>3, <2>4
<1>3. /\ Between(a, b, p) = (100 * a + d(p) + 50) \div 100
      /\ Between(a, b, q) = (100 * a + d(q) + 50) \div 100
      /\ Between(a, b, 0) = (100 * a + d(0) + 50) \div 100
  BY <1>1 DEF Between
<1>4. d(p) \in Int /\ d(q) \in Int
  OBVIOUS
<1>5. (100 * a + d(0) + 50) \div 100 = a
  BY <1>2, DivIs
<1>6. (100 * b + 50) \div 100 = b
  BY DivIs
<1> HIDE DEF d
<1> DEFINE x == 100 * a + d(p) + 50
           y == 100 * a + d(q) + 50
           z == 100 * b + 50
<1>7. x \in Int /\ y \in Int /\ z \in Int /\ 100 * a + 50 \in Int
      /\ 100 * a + 50 <= x /\ x <= y /\ y <= z
  BY <1>2, <1>4
<1>8. (100 * a + 50) \div 100 = a
  BY DivIs
<1> HIDE DEF x, y, z
<1>9. /\ x \div 100 \in Int /\ y \div 100 \in Int /\ x \div 100 <= y \div 100
      /\ a <= x \div 100 /\ y \div 100 <= z \div 100
  BY <1>7, <1>8, DivIs
<1>10. x \div 100 <= b
  BY <1>6, <1>9 DEF z
<1> QED
  BY <1>3, <1>5, <1>9, <1>10 DEF x, y

(* A percentile of an ascending sequence grows with its percentage, up to   *)
(* the last value.                                                          *)
HasLast(s, n) == Len(s) = n /\ s # <<>>

Reached(s, low, rest) == IF rest = 0 THEN s[low] ELSE Between(s[low], s[low + 1], rest)

LEMMA PercentileAt ==
  ASSUME NEW s, NEW n \in Nat \ {0}, HasLast(s, n), NEW r \in 0 .. 100
  PROVE  \E low \in 1 .. n, rest \in 0 .. 99 :
            /\ Percentile(s, r) = Reached(s, low, rest)
            /\ (n - 1) * r = 100 * (low - 1) + rest
            /\ rest # 0 => low + 1 \in 1 .. n
<1>1. PICK a \in Nat : a = (n - 1) * r /\ a <= 100 * (n - 1)
  OBVIOUS
<1>2. PICK d \in Nat, rest \in 0 .. 99 : d = a \div 100 /\ rest = a % 100 /\ a = 100 * d + rest
  <2>1. a \div 100 \in Nat /\ a % 100 \in 0 .. 99 /\ a = 100 * (a \div 100) + (a % 100)
    OBVIOUS
  <2> QED
    BY <2>1
<1>3. d + 1 \in 1 .. n /\ (rest # 0 => d + 2 \in 1 .. n)
  BY <1>1, <1>2
<1>4. Percentile(s, r) = Reached(s, d + 1, rest)
  <2>1. a = (Len(s) - 1) * r /\ s # <<>>
    BY <1>1 DEF HasLast
  <2> QED
    BY <1>2, <2>1, Zenon DEF Percentile, Reached, Between
<1>5. (n - 1) * r = 100 * ((d + 1) - 1) + rest /\ (rest # 0 => (d + 1) + 1 \in 1 .. n)
  BY <1>1, <1>2, <1>3
<1> QED
  BY <1>3, <1>4, <1>5

LEMMA ReachedIs ==
  ASSUME NEW s, NEW n \in Nat \ {0}, \A i \in 1 .. n : s[i] \in Int,
         \A i, j \in 1 .. n : i <= j => s[i] <= s[j],
         NEW low \in 1 .. n, NEW rest \in 0 .. 99, rest # 0 => low + 1 \in 1 .. n
  PROVE  /\ Reached(s, low, rest) \in Int /\ s[low] <= Reached(s, low, rest)
         /\ rest = 0 => Reached(s, low, rest) = s[low]
         /\ rest # 0 => /\ Reached(s, low, rest) <= s[low + 1]
                        /\ \A more \in 0 .. 99 : rest <= more => Reached(s, low, rest) <= Reached(s, low, more)
<1>1. CASE rest = 0
  BY <1>1 DEF Reached
<1>2. CASE rest # 0
  <2>1. PICK a \in Int, b \in Int : a = s[low] /\ b = s[low + 1] /\ a <= b
    <3>1. low + 1 \in 1 .. n /\ low <= low + 1
      BY <1>2
    <3> QED
      BY <3>1
  <2>2. Reached(s, low, rest) = Between(a, b, rest)
    BY <1>2, <2>1 DEF Reached
  <2>3. rest \in 0 .. 100 /\ rest <= rest
    OBVIOUS
  <2>4. Between(a, b, rest) \in Int /\ a <= Between(a, b, rest) /\ Between(a, b, rest) <= b
    BY <2>1, <2>3, BetweenIs
  <2>5. ASSUME NEW more \in 0 .. 99, rest <= more PROVE Reached(s, low, rest) <= Reached(s, low, more)
    <3>1. more # 0 /\ more \in 0 .. 100
      BY <1>2, <2>5
    <3>2. Reached(s, low, more) = Between(a, b, more)
      BY <2>1, <3>1 DEF Reached
    <3>3. Between(a, b, rest) <= Between(a, b, more)
      BY <2>1, <2>3, <2>5, <3>1, BetweenIs
    <3> QED
      BY <2>2, <3>2, <3>3
  <2> QED
    BY <1>2, <2>1, <2>2, <2>4, <2>5
<1> QED
  BY <1>1, <1>2

LEMMA PercentileIs ==
  ASSUME NEW s, NEW n \in Nat \ {0}, HasLast(s, n), \A i \in 1 .. n : s[i] \in Int,
         \A i, j \in 1 .. n : i <= j => s[i] <= s[j], NEW p \in 0 .. 100, NEW q \in 0 .. 100, p <= q
  PROVE  Percentile(s, p) \in Int /\ Percentile(s, p) <= Percentile(s, q)
<1>1. PICK a \in 1 .. n, b \in 0 .. 99 : /\ Percentile(s, p) = Reached(s, a, b)
                                         /\ (n - 1) * p = 100 * (a - 1) + b
                                         /\ b # 0 => a + 1 \in 1 .. n
  BY PercentileAt
<1>2. PICK c \in 1 .. n, d \in 0 .. 99 : /\ Percentile(s, q) = Reached(s, c, d)
                                         /\ (n - 1) * q = 100 * (c - 1) + d
                                         /\ d # 0 => c + 1 \in 1 .. n
  BY PercentileAt
<1>3. a <= c /\ (a = c => b <= d)
  <2>1. (n - 1) * p <= (n - 1) * q
    OBVIOUS
  <2> QED
    BY <1>1, <1>2, <2>1
<1>4. /\ Reached(s, a, b) \in Int /\ Reached(s, c, d) \in Int /\ s[c] <= Reached(s, c, d)
      /\ s[a] \in Int /\ s[c] \in Int /\ s[a] <= s[c]
  BY <1>1, <1>2, <1>3, ReachedIs
<1>5. CASE b = 0
  <2>1. Reached(s, a, b) = s[a]
    BY <1>5 DEF Reached
  <2> QED
    BY <1>1, <1>2, <1>4, <2>1
<1>6. CASE b # 0 /\ a < c
  <2>1. a + 1 \in 1 .. n /\ a + 1 <= c
    BY <1>1, <1>6
  <2>2. Reached(s, a, b) <= s[a + 1]
    BY <1>1, <1>6, ReachedIs
  <2>3. s[a + 1] <= s[c] /\ s[a + 1] \in Int
    BY <2>1
  <2> QED
    BY <1>1, <1>2, <1>4, <2>2, <2>3
<1>7. CASE b # 0 /\ a = c
  <2>1. Reached(s, a, b) <= Reached(s, a, d)
    BY <1>1, <1>3, <1>7, ReachedIs
  <2> QED
    BY <1>1, <1>2, <1>4, <1>7, <2>1
<1> QED
  BY <1>3, <1>5, <1>6, <1>7

LEMMA LastIs ==
  ASSUME NEW s, NEW n \in Nat \ {0}, HasLast(s, n)
  PROVE  Percentile(s, 100) = s[n]
<1>1. PICK a \in 1 .. n, b \in 0 .. 99 : /\ Percentile(s, 100) = Reached(s, a, b)
                                         /\ (n - 1) * 100 = 100 * (a - 1) + b
  <2>1. 100 \in 0 .. 100
    OBVIOUS
  <2>2. \E low \in 1 .. n, rest \in 0 .. 99 :
           /\ Percentile(s, 100) = Reached(s, low, rest)
           /\ (n - 1) * 100 = 100 * (low - 1) + rest
           /\ rest # 0 => low + 1 \in 1 .. n
    BY <2>1, PercentileAt
  <2> QED
    BY ONLY <2>2
<1>2. a = n /\ b = 0
  BY <1>1
<1> QED
  BY ONLY <1>1, <1>2 DEF Reached

LEMMA SummaryIs ==
  ASSUME NEW v, IsFiniteSet(DOMAIN v), \A k \in DOMAIN v : v[k] \in Int
  PROVE  LET m == Summary(SortedValues(v)) IN
         /\ m.count = Cardinality(DOMAIN v)
         /\ m.min <= m.p50 /\ m.p50 <= m.p95 /\ m.p95 <= m.max
         /\ DOMAIN v = {} => m.max = 0
         /\ DOMAIN v # {} => /\ \E k \in DOMAIN v : m.max = v[k]
                             /\ \A k \in DOMAIN v : v[k] <= m.max
<1> DEFINE s == SortedValues(v)
           n == Len(s)
           m == Summary(s)
<1>1. /\ n = Cardinality(DOMAIN v) /\ n \in Nat /\ m.count = n
      /\ n = 0 => DOMAIN v = {}
      /\ DOMAIN v = {} => n = 0
  BY SortedLen, FS_EmptySet
<1>2. /\ \A i \in 1 .. n : s[i] \in Int /\ \E k \in DOMAIN v : s[i] = v[k]
      /\ \A i, j \in 1 .. n : i <= j => s[i] <= s[j]
      /\ \A k \in DOMAIN v : s[1] <= v[k] /\ v[k] <= s[n]
      /\ n = 0 => s = <<>>
  BY SortedIs
<1>3. /\ m.min = Percentile(s, 0) /\ m.p50 = Percentile(s, 50)
      /\ m.p95 = Percentile(s, 95) /\ m.max = Percentile(s, 100)
  BY DEF Summary
<1> HIDE DEF s, m
<1>4. CASE n = 0
  <2>1. \A r : Percentile(s, r) = 0
    BY <1>2, <1>4 DEF Percentile
  <2> QED
    BY <1>1, <1>3, <1>4, <2>1 DEF s, m
<1>5. CASE n # 0
  <2>1. HasLast(s, n)
    BY <1>5 DEF HasLast
  <2>2. /\ 0 \in 0 .. 100 /\ 50 \in 0 .. 100 /\ 95 \in 0 .. 100 /\ 100 \in 0 .. 100
        /\ 0 <= 50 /\ 50 <= 95 /\ 95 <= 100
    OBVIOUS
  <2>3. n \in Nat \ {0} /\ n \in 1 .. n
    BY <1>1, <1>5
  <2>4. /\ Percentile(s, 0) <= Percentile(s, 50) /\ Percentile(s, 50) <= Percentile(s, 95)
        /\ Percentile(s, 95) <= Percentile(s, 100) /\ Percentile(s, 100) = s[n]
    BY <1>2, <2>1, <2>2, <2>3, PercentileIs, LastIs
  <2> QED
    BY <1>1, <1>2, <1>3, <1>5, <2>3, <2>4 DEF s, m
<1> QED
  BY <1>1, <1>4, <1>5

-----------------------------------------------------------------------------
(* The least and the greatest of a finite set of numbers.                   *)
LEMMA MaxIs ==
  ASSUME NEW S \in SUBSET Int, IsFiniteSet(S), S # {}
  PROVE  Max(S) \in S /\ \A x \in S : x <= Max(S)
<1> DEFINE f == [x \in S |-> x]
<1>1. \A x \in S : f[x] \in Int
  OBVIOUS
<1> HIDE DEF f
<1>2. PICK x \in S : \A y \in S : f[y] <= f[x]
  BY <1>1, GreatestAt
<1>3. \A y \in S : x >= y
  BY <1>2 DEF f
<1> QED
  BY <1>3 DEF Max

LEMMA MinIs ==
  ASSUME NEW S \in SUBSET Int, IsFiniteSet(S), S # {}
  PROVE  Min(S) \in S /\ \A x \in S : Min(S) <= x
<1> DEFINE f == [x \in S |-> x]
<1>1. \A x \in S : f[x] \in Int
  OBVIOUS
<1> HIDE DEF f
<1>2. PICK x \in S : \A y \in S : f[x] <= f[y]
  BY <1>1, LeastAt
<1>3. \A y \in S : x <= y
  BY <1>2 DEF f
<1> QED
  BY <1>3 DEF Min

(* A run with completed rows has a beginning, an end and a duration.        *)
LEMMA RunTimes ==
  ASSUME RetryingInv, NEW r, CompletedOf(r) # {}
  PROVE  FinishedAt(r) \in Nat /\ RunDuration(r) \in Int
<1> DEFINE ends == {row[k].updatedAt : k \in CompletedOf(r)}
           begins == {row[k].createdAt : k \in CompletedOf(r)}
           end == [k \in CompletedOf(r) |-> row[k].updatedAt]
           begin == [k \in CompletedOf(r) |-> row[k].createdAt]
<1>1. CompletedOf(r) \in SUBSET Key /\ IsFiniteSet(CompletedOf(r))
  BY KeyFinite DEF CompletedOf, Rows
<1>2. end \in Surjection(CompletedOf(r), ends) /\ begin \in Surjection(CompletedOf(r), begins)
  BY DEF Surjection
<1>3. ends \in SUBSET Nat /\ begins \in SUBSET Nat /\ ends # {} /\ begins # {}
  BY <1>1, TimesAre
<1>4. IsFiniteSet(ends) /\ IsFiniteSet(begins)
  <2> HIDE DEF ends, begins, end, begin
  <2> QED
    BY <1>1, <1>2, FS_Surjection
<1> HIDE DEF ends, begins
<1>5. Max(ends) \in Nat /\ Min(begins) \in Nat
  <2>1. ends \in SUBSET Int /\ begins \in SUBSET Int
    BY <1>3
  <2>2. Max(ends) \in ends /\ Min(begins) \in begins
    BY <1>3, <1>4, <2>1, MaxIs, MinIs
  <2> QED
    BY <1>3, <2>2
<1>6. FinishedAt(r) = Max(ends) /\ StartedAt(r) = Min(begins)
  BY DEF FinishedAt, StartedAt, ends, begins
<1> QED
  BY <1>5, <1>6 DEF RunDuration

LEMMA FinishedAre ==
  ASSUME NEW hours, NEW synthetic
  PROVE  /\ FinishedRuns(hours, synthetic) \in SUBSET Runs /\ IsFiniteSet(FinishedRuns(hours, synthetic))
         /\ \A r \in FinishedRuns(hours, synthetic) : CompletedOf(r) # {}
<1>1. FinishedRuns(hours, synthetic) \in SUBSET Runs
  <2>1. \A k \in Rows(synthetic) : k[1] \in Runs
    BY DEF Rows, Key
  <2> QED
    BY <2>1 DEF FinishedRuns
<1>2. IsFiniteSet(Runs)
  BY OpsAssumption, FS_Interval DEF Runs
<1> QED
  BY <1>1, <1>2, FS_Subset DEF FinishedRuns

(* The SLO measures the runs that are shown as done.                        *)
LEMMA ShownAreFinished ==
  ASSUME RetryingInv, TableInv
  PROVE  FinishedRuns(MaxHours + MaxClock, TRUE) = {r \in Runs : ShownStatus(r) \in {"success", "degraded"}}
<1> DEFINE finished == FinishedRuns(MaxHours + MaxClock, TRUE)
           last == Len(StageOrder)
           rowsOf(r) == {k \in Rows(TRUE) : k[1] = r}
<1>1. last \in DOMAIN StageOrder /\ \A i \in DOMAIN StageOrder : i # last => i < last
  <2>1. DOMAIN StageOrder = 1 .. last /\ last \in Nat /\ last >= 2
    BY KeysAre
  <2> HIDE DEF last
  <2> QED
    BY <2>1
<1>2. \A r \in Runs : <<r, Final>> \in Key /\ <<r, Final>> = Job(r, last)
  BY <1>1, KeysAre DEF Final, Job
<1>3. clock \in Nat /\ clock <= MaxClock /\ MaxClock \in Nat /\ MaxHours \in Nat
  BY OpsAssumption, RatesAssumption, TimesAre DEF TableInv, OriginsFine
<1>4. ASSUME NEW r \in Runs
      PROVE  ShownStatus(r) \in {"success", "degraded"}
                <=> rowsOf(r) # {} /\ \A k \in rowsOf(r) : row[k].status = "COMPLETED"
  BY DEF ShownStatus
<1>5. ASSUME NEW r \in Runs
      PROVE  r \in finished <=> row[<<r, Final>>].status = "COMPLETED"
  <2>1. r \in finished <=> /\ r \in {k[1] : k \in Rows(TRUE)} /\ <<r, Final>> \in CompletedOf(r)
                           /\ Within(FinishedAt(r), MaxHours + MaxClock)
    BY DEF FinishedRuns
  <2>2. <<r, Final>> \in CompletedOf(r) <=> row[<<r, Final>>].status = "COMPLETED"
    BY <1>2 DEF CompletedOf, Rows
  <2>3. <<r, Final>> \in CompletedOf(r) => r \in {k[1] : k \in Rows(TRUE)}
    BY DEF CompletedOf
  <2>4. CompletedOf(r) # {} => Within(FinishedAt(r), MaxHours + MaxClock)
    BY <1>3, RunTimes DEF Within
  <2> QED
    BY <2>1, <2>2, <2>3, <2>4
<1>6. ASSUME NEW r \in Runs, row[<<r, Final>>].status = "COMPLETED"
      PROVE  rowsOf(r) # {} /\ \A k \in rowsOf(r) : row[k].status = "COMPLETED"
  <2>1. <<r, Final>> \in rowsOf(r)
    BY <1>2, <1>6 DEF Rows
  <2>2. Begun(r, last)
    BY <1>2, <1>6 DEF Begun
  <2>3. ASSUME NEW k \in rowsOf(r) PROVE row[k].status = "COMPLETED"
    <3>1. k \in Key /\ k[1] = r
      BY RowsAre
    <3>2. PICK i \in DOMAIN StageOrder : k = Job(r, i)
      BY <3>1, KeysAre
    <3>3. CASE i = last
      BY <1>2, <1>6, <3>2, <3>3
    <3>4. CASE i # last
      BY <1>1, <2>2, <3>2, <3>4 DEF TableInv, RunsFine
    <3> QED
      BY <3>3, <3>4
  <2> QED
    BY <2>1, <2>3
<1>7. ASSUME NEW r \in Runs, rowsOf(r) # {}, \A k \in rowsOf(r) : row[k].status = "COMPLETED"
      PROVE  row[<<r, Final>>].status = "COMPLETED"
  <2>1. PICK k \in Key : k[1] = r /\ row[k].status # "NONE"
    BY <1>7 DEF Rows
  <2>2. ~(r > Len(origin))
    BY <2>1 DEF TableInv, RowsFine, RowFine
  <2>3. row[<<r, Final>>].status # "NONE"
    <3>1. <<r, Final>>[1] = r
      OBVIOUS
    <3> QED
      BY <1>2, <2>2, <3>1 DEF TableInv, RowsFine, RowFine
  <2>4. <<r, Final>> \in rowsOf(r)
    BY <1>2, <2>3 DEF Rows
  <2> QED
    BY <1>7, <2>4
<1>8. \A r \in Runs : r \in finished <=> ShownStatus(r) \in {"success", "degraded"}
  BY <1>4, <1>5, <1>6, <1>7
<1>9. finished \in SUBSET Runs
  BY FinishedAre
<1> HIDE DEF finished
<1>10. finished = {r \in Runs : ShownStatus(r) \in {"success", "degraded"}}
  BY <1>8, <1>9
<1> QED
  BY <1>10 DEF finished

(* The breakdown begins with the slowest run, and shows as many as there are *)
(* to show.                                                                 *)
LEMMA BreakdownIs ==
  ASSUME RetryingInv, NEW h, NEW synthetic
  PROVE  LET runs == FinishedRuns(NormalizeWindow(h), synthetic)
             top == BreakdownRuns(h, synthetic)
         IN  /\ Len(top) = Min({TopN, Cardinality(runs)})
             /\ top # <<>> => top[1] \in runs /\ \A s \in runs : RunDuration(s) <= RunDuration(top[1])
<1> DEFINE runs == FinishedRuns(NormalizeWindow(h), synthetic)
           top == BreakdownRuns(h, synthetic)
           before(r) == {s \in runs : \/ RunDuration(s) > RunDuration(r)
                                      \/ RunDuration(s) = RunDuration(r) /\ s < r}
           m == Min({TopN, Cardinality(runs)})
           pick(i) == CHOOSE r \in runs : Cardinality(before(r)) = i - 1
<1>1. /\ runs \in SUBSET Runs /\ IsFiniteSet(runs) /\ Cardinality(runs) \in Nat
      /\ \A r \in runs : RunDuration(r) \in Int /\ r \in Nat
      /\ Cardinality(runs) = 0 => runs = {}
  <2>1. \A r \in runs : RunDuration(r) \in Int
    BY FinishedAre, RunTimes
  <2>2. Runs \subseteq Nat
    BY KeysAre
  <2> QED
    BY <2>1, <2>2, FinishedAre, FS_CardinalityType, FS_EmptySet
<1>2. m \in Nat /\ (m # 0 => Cardinality(runs) # 0)
  <2>1. TopN \in Nat
    BY OpsAssumption
  <2> HIDE DEF runs
  <2> QED
    BY <1>1, <2>1, LeastIs
<1>3. top = [i \in 1 .. m |-> pick(i)]
  BY DEF BreakdownRuns
<1>4. Len(top) = m
  <2> HIDE DEF top, m, pick
  <2>1. top \in Seq({pick(i) : i \in 1 .. m}) /\ DOMAIN top = 1 .. m
    BY <1>2, <1>3
  <2> QED
    BY <1>2, <2>1
<1>5. ASSUME top # <<>> PROVE top[1] \in runs /\ \A s \in runs : RunDuration(s) <= RunDuration(top[1])
  <2>1. 1 \in 1 .. m /\ runs # {}
    <3>1. m # 0
      <4> HIDE DEF m, pick
      <4> QED
        BY <1>3, <1>5
    <3>2. Cardinality(runs) # 0
      BY <1>2, <3>1
    <3> HIDE DEF runs, m
    <3> QED
      BY <1>2, <3>1, <3>2, FS_EmptySet
  <2> DEFINE duration == [r \in runs |-> RunDuration(r)]
  <2>2. PICK s \in runs : \A r \in runs : duration[r] <= duration[s]
    <3>1. \A r \in runs : duration[r] \in Int
      BY <1>1
    <3> HIDE DEF duration, runs
    <3> QED
      BY <1>1, <2>1, <3>1, GreatestAt
  <2> DEFINE slowest == {r \in runs : RunDuration(r) = RunDuration(s)}
  <2>3. PICK first \in slowest : \A r \in slowest : first <= r
    <3>1. slowest \in SUBSET Nat /\ slowest # {}
      BY <1>1
    <3> HIDE DEF slowest
    <3> QED
      BY <3>1, LeastOf
  <2>4. first \in runs /\ before(first) = {}
    <3>1. \A r \in runs : RunDuration(r) <= RunDuration(first)
      BY <2>2
    <3>2. \A r \in runs : RunDuration(r) = RunDuration(first) => first <= r
      BY <2>3
    <3>3. \A r \in runs : ~(RunDuration(r) > RunDuration(first)) /\ (RunDuration(r) = RunDuration(first) => ~(r < first))
      <4>1. first \in Nat /\ RunDuration(first) \in Int
        BY <1>1
      <4> HIDE DEF runs
      <4> QED
        BY <1>1, <3>1, <3>2, <4>1
    <3> QED
      BY <3>3
  <2>5. Cardinality(before(first)) = 1 - 1
    <3> HIDE DEF before
    <3> QED
      BY <2>4, FS_EmptySet
  <2>6. pick(1) \in runs /\ Cardinality(before(pick(1))) = 1 - 1
    <3>1. \E r \in runs : Cardinality(before(r)) = 1 - 1
      BY <2>4, <2>5
    <3> HIDE DEF runs, before
    <3> QED
      BY <3>1
  <2>7. PICK t \in runs : t = pick(1) /\ Cardinality(before(t)) = 0
    <3> HIDE DEF runs, before, pick
    <3> QED
      BY <2>6
  <2>8. before(t) = {}
    <3>1. before(t) \in SUBSET runs
      OBVIOUS
    <3> HIDE DEF before, runs
    <3>2. IsFiniteSet(before(t))
      BY <1>1, <3>1, FS_Subset
    <3> QED
      BY <2>7, <3>2, FS_EmptySet
  <2>9. \A r \in runs : RunDuration(r) <= RunDuration(t)
    <3>1. \A r \in runs : ~(RunDuration(r) > RunDuration(t))
      BY <2>8
    <3> HIDE DEF runs
    <3> QED
      BY <1>1, <3>1
  <2>10. top[1] = t
    <3> HIDE DEF m, pick, top
    <3> QED
      BY <1>3, <2>1, <2>7
  <2> QED
    BY <2>9, <2>10
<1> QED
  BY <1>4, <1>5

(* The objective and its breakdown are about the same runs.                 *)
SlosAgree(h, synthetic) ==
  LET slo == PipelineSlo(h, synthetic).metrics
      top == BreakdownRuns(h, synthetic)
  IN  /\ Len(top) = Min({TopN, slo.count})
      /\ top # <<>> => RunDuration(top[1]) = slo.max
      /\ slo.min <= slo.p50 /\ slo.p50 <= slo.p95 /\ slo.p95 <= slo.max

LEMMA SlosHold ==
  ASSUME RetryingInv, NEW h, NEW synthetic
  PROVE  SlosAgree(h, synthetic)
<1> DEFINE runs == FinishedRuns(NormalizeWindow(h), synthetic)
           top == BreakdownRuns(h, synthetic)
           slo == PipelineSlo(h, synthetic).metrics
           durations == [r \in runs |-> RunDuration(r)]
<1>1. slo = Summary(SortedValues(durations))
  BY DEF PipelineSlo
<1>2. IsFiniteSet(runs) /\ DOMAIN durations = runs /\ \A r \in runs : durations[r] = RunDuration(r) /\ durations[r] \in Int
  BY FinishedAre, RunTimes
<1> HIDE DEF durations
<1>3. /\ slo.count = Cardinality(runs)
      /\ slo.min <= slo.p50 /\ slo.p50 <= slo.p95 /\ slo.p95 <= slo.max
      /\ runs # {} => /\ \E r \in runs : slo.max = RunDuration(r)
                      /\ \A r \in runs : RunDuration(r) <= slo.max
  <2> HIDE DEF runs, slo
  <2>1. IsFiniteSet(DOMAIN durations) /\ \A r \in DOMAIN durations : durations[r] \in Int
    BY <1>2
  <2>2. LET m == Summary(SortedValues(durations)) IN
        /\ m.count = Cardinality(DOMAIN durations)
        /\ m.min <= m.p50 /\ m.p50 <= m.p95 /\ m.p95 <= m.max
        /\ DOMAIN durations # {} => /\ \E k \in DOMAIN durations : m.max = durations[k]
                                    /\ \A k \in DOMAIN durations : durations[k] <= m.max
    BY <2>1, SummaryIs
  <2> QED
    BY <1>1, <1>2, <2>2
<1>4. /\ Len(top) = Min({TopN, Cardinality(runs)})
      /\ top # <<>> => top[1] \in runs /\ \A s \in runs : RunDuration(s) <= RunDuration(top[1])
  BY BreakdownIs
<1>5. top # <<>> => RunDuration(top[1]) = slo.max
  <2> SUFFICES ASSUME top # <<>> PROVE RunDuration(top[1]) = slo.max
    OBVIOUS
  <2>1. PICK t \in runs : t = top[1] /\ \A s \in runs : RunDuration(s) <= RunDuration(t)
    BY <1>4
  <2> HIDE DEF runs, slo, top
  <2>2. PICK r \in runs : slo.max = RunDuration(r) /\ \A s \in runs : RunDuration(s) <= slo.max
    BY <1>3
  <2>3. RunDuration(r) \in Int /\ RunDuration(t) \in Int
    BY <1>2
  <2>4. RunDuration(r) <= RunDuration(t) /\ RunDuration(t) <= RunDuration(r)
    BY <2>1, <2>2
  <2> QED
    BY <2>1, <2>2, <2>3, <2>4
<1> QED
  BY <1>3, <1>4, <1>5 DEF SlosAgree

(* A type has as many failed rows as dead letters.                          *)
LEMMA LettersCounted ==
  ASSUME TableInv, NEW t
  PROVE  Cardinality({k \in Key : k[2] = t /\ row[k].status = "FAILED"})
           = Cardinality({d \in dead : d.key[2] = t})
<1> DEFINE F == {k \in Key : k[2] = t /\ row[k].status = "FAILED"}
           D == {d \in dead : d.key[2] = t}
           f == [d \in D |-> d.key]
<1>0. LettersFine
  BY DEF TableInv
<1>1. f \in [D -> F]
  BY <1>0 DEF LettersFine
<1>2. \A c, d \in D : f[c] = f[d] => c = d
  BY <1>0 DEF LettersFine
<1>3. \A k \in F : \E d \in D : f[d] = k
  BY <1>0 DEF LettersFine
<1>4. IsFiniteSet(F)
  <2>1. F \in SUBSET Key
    OBVIOUS
  <2> QED
    BY <2>1, KeyFinite
<1> HIDE DEF f, F, D
<1>5. f \in Injection(D, F)
  BY <1>1, <1>2, Zenon DEF Injection, IsInjective
<1>6. f \in Surjection(D, F)
  BY <1>1, <1>3 DEF Surjection
<1>7. Cardinality(D) = Cardinality(F)
  BY <1>4, <1>5, <1>6, FS_Injection
<1> QED
  BY <1>7 DEF F, D

LEMMA WindowIs == MaxHours \in Nat \ {0} /\ NormalizeWindow(MaxHours) = MaxHours
<1>1. MaxHours \in Nat /\ MaxHours >= 1
  BY RatesAssumption
<1>2. Min({MaxHours, MaxHours}) = MaxHours
  BY <1>1, LeastIs
<1>3. Max({1, MaxHours}) = MaxHours
  BY <1>1 DEF Max
<1> QED
  BY <1>1, <1>2, <1>3 DEF NormalizeWindow

(* What is said of a job type.                                              *)
TypesAgree(t) ==
  LET stats == JobTypeStats[t]
      waits == QueueWait(t, MaxHours).completed
  IN  /\ stats.failedTotal = DeadLetterByType(t).total
      /\ MaxHours >= MaxClock /\ Day >= MaxClock =>
            waits.count = stats.duration.count /\ waits.max <= stats.duration.max

LEMMA TypesHold ==
  ASSUME RetryingInv, TableInv, NEW t \in DOMAIN JobTypeStats \ {Final}
  PROVE  TypesAgree(t)
<1> DEFINE K == {k \in Rows(TRUE) : k[2] = t}
           failed == {k \in K : row[k].status = "FAILED"}
           done == Completed(K, Day)
           durations == [k \in done |-> Duration(k)]
           waited == {k \in {k \in Key : k[2] = t} : row[k].entry = "completed" /\ Within(row[k].processedOn, MaxHours)}
           times == [k \in waited |-> row[k].processedOn - row[k].queuedAt]
           stats == JobTypeStats[t]
           waits == QueueWait(t, MaxHours).completed
<1>1. stats.failedTotal = Cardinality(failed) /\ stats.duration = Summary(SortedValues(durations))
  <2>1. t \in {k[2] : k \in Rows(TRUE)}
    BY DEF JobTypeStats
  <2> QED
    BY <2>1 DEF JobTypeStats
<1>2. waits = Summary(SortedValues(times))
  BY WindowIs DEF QueueWait
<1>3. stats.failedTotal = DeadLetterByType(t).total
  <2>1. failed = {k \in Key : k[2] = t /\ row[k].status = "FAILED"}
    BY DEF Rows
  <2>2. DeadLetterByType(t).total = Cardinality({d \in dead : d.key[2] = t})
    BY DEF DeadLetterByType
  <2> HIDE DEF failed, stats
  <2> QED
    BY <1>1, <2>1, <2>2, LettersCounted
<1>4. ASSUME MaxHours >= MaxClock, Day >= MaxClock
      PROVE  waits.count = stats.duration.count /\ waits.max <= stats.duration.max
  <2>1. clock \in Nat /\ clock <= MaxClock /\ MaxClock \in Nat /\ MaxHours \in Nat /\ Day \in Nat
    BY OpsAssumption, WindowIs, TimesAre DEF TableInv, OriginsFine
  <2>2. \A n \in Nat : Within(n, MaxHours) /\ Within(n, Day)
    BY <1>4, <2>1 DEF Within
  <2>3. done = {k \in Key : k[2] = t /\ row[k].status = "COMPLETED"}
    BY <2>2, TimesAre DEF Completed, Rows
  <2>4. waited = {k \in Key : k[2] = t /\ row[k].entry = "completed"}
    BY <2>2, TimesAre
  <2>5. ASSUME NEW k \in Key, k[2] = t
        PROVE  row[k].status = "COMPLETED" <=> row[k].entry = "completed"
    BY <2>5 DEF TableInv, RowsFine, RowFine
  <2>6. done = waited
    BY <2>3, <2>4, <2>5
  <2>7. ASSUME NEW k \in done
        PROVE  times[k] \in Int /\ durations[k] \in Int /\ times[k] <= durations[k]
    <3>1. k \in Key /\ row[k].entry = "completed" /\ k \in waited
      BY <2>4, <2>6
    <3>2. /\ row[k].createdAt <= row[k].queuedAt /\ row[k].processedOn <= row[k].updatedAt
      BY <3>1 DEF TableInv, RowsFine, RowFine
    <3>3. /\ times[k] = row[k].processedOn - row[k].queuedAt
          /\ durations[k] = row[k].updatedAt - row[k].createdAt
      BY <3>1 DEF Duration
    <3> QED
      BY <3>1, <3>2, <3>3, TimesAre
  <2>8. IsFiniteSet(done) /\ DOMAIN times = done /\ DOMAIN durations = done
    <3>1. done \in SUBSET Key
      BY <2>3
    <3> QED
      BY <2>6, <3>1, KeyFinite
  <2> HIDE DEF times, durations, done, stats, waits
  <2>9. /\ waits.count = Cardinality(done)
        /\ done = {} => waits.max = 0
        /\ done # {} => \E k \in done : waits.max = times[k]
    <3>1. LET m == Summary(SortedValues(times)) IN
          /\ m.count = Cardinality(DOMAIN times)
          /\ DOMAIN times = {} => m.max = 0
          /\ DOMAIN times # {} => \E k \in DOMAIN times : m.max = times[k]
      BY <2>7, <2>8, SummaryIs
    <3> QED
      BY <1>2, <2>8, <3>1
  <2>10. /\ stats.duration.count = Cardinality(done)
         /\ done = {} => stats.duration.max = 0
         /\ done # {} => \E k \in done : stats.duration.max = durations[k]
         /\ \A k \in done : durations[k] <= stats.duration.max
    <3>1. LET m == Summary(SortedValues(durations)) IN
          /\ m.count = Cardinality(DOMAIN durations)
          /\ DOMAIN durations = {} => m.max = 0
          /\ DOMAIN durations # {} => /\ \E k \in DOMAIN durations : m.max = durations[k]
                                      /\ \A k \in DOMAIN durations : durations[k] <= m.max
      BY <2>7, <2>8, SummaryIs
    <3> QED
      BY <1>1, <2>8, <3>1
  <2>11. waits.max <= stats.duration.max
    <3>1. CASE done = {}
      BY <2>9, <2>10, <3>1
    <3>2. CASE done # {}
      <4>1. PICK k \in done : waits.max = times[k]
        BY <2>9, <3>2
      <4>2. PICK j \in done : stats.duration.max = durations[j]
        BY <2>10, <3>2
      <4>3. times[k] <= durations[k] /\ durations[k] <= stats.duration.max
        BY <2>7, <2>10
      <4>4. times[k] \in Int /\ durations[k] \in Int /\ durations[j] \in Int
        BY <2>7
      <4> QED
        BY <4>1, <4>2, <4>3, <4>4
    <3> QED
      BY <3>1, <3>2
  <2> QED
    BY <2>9, <2>10, <2>11
<1> QED
  BY <1>3, <1>4 DEF TypesAgree

LEMMA RunsHold ==
  ASSUME RetryingInv, TableInv
  PROVE  RunsAgree
<1>1. \A h : \A synthetic \in BOOLEAN : SlosAgree(h, synthetic)
  BY SlosHold
<1>2. \A t \in DOMAIN JobTypeStats \ {Final} : TypesAgree(t)
  BY TypesHold
<1> SUFFICES /\ FinishedRuns(MaxHours + MaxClock, TRUE) = {r \in Runs : ShownStatus(r) \in {"success", "degraded"}}
             /\ \A h \in {1, MaxHours}, synthetic \in BOOLEAN : SlosAgree(h, synthetic)
             /\ \A t \in DOMAIN JobTypeStats \ {Final} : TypesAgree(t)
  BY Zenon DEF RunsAgree, SlosAgree, TypesAgree
<1> QED
  BY <1>1, <1>2, ShownAreFinished

(* No contradiction between two reports, or between a report and what the   *)
(* owner of a run is shown, in any state the table goes through.            *)
THEOREM ReportsAlwaysAgree == OpsSpec => []ReportsAgree
<1>1. RetryingInv /\ TableInv => ReportsAgree
  <2> SUFFICES ASSUME RetryingInv, TableInv PROVE ReportsAgree
    OBVIOUS
  <2>1. FailureHidesNothing
    <3>1. \A section : {section} # {}
      OBVIOUS
    <3> QED
      BY <3>1 DEF FailureHidesNothing, OpsStatus
  <2> QED
    BY <2>1, CountsHold, RunsHold DEF ReportsAgree
<1> QED
  BY <1>1, TableHolds, PTL

-----------------------------------------------------------------------------
(***************************************************************************)
(* The alerts, for any snapshots, requests and times: an alert that has     *)
(* been told is not decided again until the pause is over, but for the time *)
(* that the POSTs already under way may take.                               *)
(***************************************************************************)

(* A call under way told of something, and no longer ago than its timeout.  *)
CallsInv ==
  \A p \in Probes : probe[p].at \in {"alert", "recovery"} =>
     /\ probe[p].at = "alert" => probe[p].sig \in Signatures
     /\ time \in probe[p].decided .. probe[p].decided + PostTimeout

(* What is noted of a signature may be older than the last alert of it that *)
(* was decided, by as long as the call that noted it was still under way.   *)
NotedInv ==
  \A i \in DOMAIN told :
     /\ told[i].sig \in DOMAIN lastSentAt
     /\ told[i].decided <= lastSentAt[told[i].sig] + PostTimeout
     /\ told[i].after < i

(* A call that will tell of an alert keeps its distance to those told when  *)
(* it was decided.                                                          *)
DistanceInv ==
  \A p \in Probes : probe[p].at = "alert" =>
     \A i \in DOMAIN told :
        told[i].sig = probe[p].sig /\ i <= probe[p].after
          => probe[p].decided - told[i].decided >= AlertPause - PostTimeout

PaceInv == AlertTypeOK /\ CallsInv /\ NotedInv /\ DistanceInv /\ AlertsPaced

(* Where a request may be when n alerts have been told.                     *)
ProbeAt(n) == [at : {"idle", "read", "alert", "recovery"}, sig : Signatures \cup {None},
               decided : 0..MaxTime, after : 0..n]

(* What the types say of an alert told and of a call.                       *)
LEMMA AlertsTold ==
  ASSUME AlertTypeOK
  PROVE  /\ Len(told) \in Nat /\ DOMAIN told = 1 .. Len(told) /\ time \in Nat
         /\ \A i \in DOMAIN told : /\ told[i].sig \in Signatures /\ told[i].after \in Nat
                                   /\ told[i].decided \in Nat /\ told[i].decided <= time
         /\ \A p \in Probes : /\ probe[p].sig \in Signatures \cup {None}
                              /\ probe[p].decided \in Nat /\ probe[p].decided <= MaxTime
                              /\ probe[p].after \in Nat /\ probe[p].after <= Len(told)
         /\ \A s \in DOMAIN lastSentAt : lastSentAt[s] \in Nat /\ lastSentAt[s] <= time
<1> DEFINE T == [sig : Signatures, decided : 0..time, after : Nat]
<1>1. time \in Nat /\ MaxTime \in Nat
  BY AlertingAssumption DEF AlertTypeOK
<1>2. told \in Seq(T)
  BY DEF AlertTypeOK
<1>3. Len(told) \in Nat /\ DOMAIN told = 1 .. Len(told)
  BY <1>2
<1>4. \A i \in DOMAIN told : /\ told[i].sig \in Signatures /\ told[i].after \in Nat
                             /\ told[i].decided \in 0..time
  <2>1. \A i \in DOMAIN told : told[i] \in T
    <3> HIDE DEF T
    <3> QED
      BY <1>2, <1>3
  <2> QED
    BY <2>1
<1>5. \A s \in DOMAIN lastSentAt : lastSentAt[s] \in 0..time
  BY DEF AlertTypeOK
<1>6. \A p \in Probes : /\ probe[p].sig \in Signatures \cup {None}
                        /\ probe[p].decided \in 0..MaxTime /\ probe[p].after \in 0..Len(told)
  BY DEF AlertTypeOK
<1>7. \A i \in DOMAIN told : told[i].decided \in Nat /\ told[i].decided <= time
  BY <1>1, <1>4
<1>8. \A s \in DOMAIN lastSentAt : lastSentAt[s] \in Nat /\ lastSentAt[s] <= time
  BY <1>1, <1>5
<1>9. \A p \in Probes : /\ probe[p].decided \in Nat /\ probe[p].decided <= MaxTime
                        /\ probe[p].after \in Nat /\ probe[p].after <= Len(told)
  BY <1>1, <1>3, <1>6
<1> QED
  BY <1>1, <1>3, <1>4, <1>6, <1>7, <1>8, <1>9

LEMMA PaceStarts == AlertInit => PaceInv
<1> SUFFICES ASSUME AlertInit PROVE PaceInv
  OBVIOUS
<1> USE DEF ProbeAt
<1>1. told = <<>> /\ DOMAIN told = {} /\ Len(told) = 0 /\ time = 0 /\ probe = [p \in Probes |-> Resting]
  BY DEF AlertInit
<1>2. lastSentAt = [s \in {} |-> 0] /\ DOMAIN lastSentAt = {}
  BY DEF AlertInit
<1>3. AlertTypeOK
  <2>1. probe \in [Probes -> ProbeAt(Len(told))]
    BY <1>1, AlertingAssumption DEF Resting
  <2> QED
    BY <1>1, <1>2, <2>1, AlertingAssumption DEF AlertInit, AlertTypeOK
<1> QED
  BY <1>1, <1>2, <1>3 DEF PaceInv, CallsInv, NotedInv, DistanceInv, AlertsPaced, Resting

(* A call of telling begins with the signature it was given and the time.   *)
LEMMA ToldNow ==
  ASSUME AlertTypeOK, NEW p \in Probes, NEW event \in {"alert", "recovery"},
         NEW sig \in Signatures \cup {None}, Told(p, event, sig)
  PROVE  /\ probe' \in [Probes -> ProbeAt(Len(told))]
         /\ probe'[p].at = event /\ probe'[p].sig = sig
         /\ probe'[p].decided = time /\ probe'[p].after = Len(told)
         /\ \A q \in Probes \ {p} : probe'[q] = probe[q]
<1>1. time \in 0..MaxTime /\ Len(told) \in 0..Len(told)
  BY AlertsTold DEF AlertTypeOK
<1> QED
  BY <1>1 DEF Told, AlertTypeOK, ProbeAt

(* One step, for each way a request or its surroundings can go on.          *)
LEMMA PaceStep == PaceInv /\ [AlertNext]_alertVars => PaceInv'
<1> SUFFICES ASSUME PaceInv, [AlertNext]_alertVars PROVE PaceInv'
  OBVIOUS
<1> USE DEF ProbeAt
<1>0. AlertTypeOK /\ CallsInv /\ NotedInv /\ DistanceInv /\ AlertsPaced
  BY DEF PaceInv
<1>t. /\ Len(told) \in Nat /\ DOMAIN told = 1 .. Len(told) /\ time \in Nat
      /\ \A i \in DOMAIN told : /\ told[i].sig \in Signatures /\ told[i].after \in Nat
                                /\ told[i].decided \in Nat /\ told[i].decided <= time
      /\ \A p \in Probes : /\ probe[p].sig \in Signatures \cup {None}
                           /\ probe[p].decided \in Nat /\ probe[p].decided <= MaxTime
                           /\ probe[p].after \in Nat /\ probe[p].after <= Len(told)
      /\ \A s \in DOMAIN lastSentAt : lastSentAt[s] \in Nat /\ lastSentAt[s] <= time
  BY <1>0, AlertsTold
<1>n. AlertPause \in Nat /\ PostTimeout \in Nat /\ MaxTime \in Nat
  BY AlertingAssumption
<1>1. ASSUME NEW p \in Probes, Ask(p) PROVE PaceInv'
  <2>1. UNCHANGED <<world, time, lastSentAt, lastCritical, lastPost, told>> /\ Signature(world) \in Signatures
    BY <1>0, <1>1 DEF Ask, AlertTypeOK, Signatures
  <2>2. /\ probe' \in [Probes -> ProbeAt(Len(told))]
        /\ probe'[p].at = "read" /\ \A q \in Probes \ {p} : probe'[q] = probe[q]
    <3>1. 0 \in 0..MaxTime /\ 0 \in 0..Len(told)
      BY <1>t, <1>n
    <3> QED
      BY <1>0, <1>1, <2>1, <3>1 DEF Ask, Resting, AlertTypeOK
  <2>3. AlertTypeOK'
    BY <1>0, <2>1, <2>2 DEF AlertTypeOK
  <2>4. CallsInv' /\ DistanceInv'
    BY <1>0, <2>1, <2>2 DEF CallsInv, DistanceInv, Signatures
  <2>5. NotedInv' /\ AlertsPaced'
    BY <1>0, <2>1 DEF NotedInv, AlertsPaced
  <2> QED
    BY <2>3, <2>4, <2>5 DEF PaceInv
<1>2. ASSUME NEW p \in Probes, Notify(p) PROVE PaceInv'
  <2> DEFINE sig == probe[p].sig
  <2>1. UNCHANGED <<world, time, lastSentAt, lastCritical, lastPost, told>>
    BY <1>2 DEF Notify
  <2>2. NotedInv' /\ AlertsPaced'
    BY <1>0, <2>1 DEF NotedInv, AlertsPaced
  <2>3. CASE sig = None /\ lastCritical # None /\ Told(p, "recovery", lastCritical)
    <3>1. lastCritical \in Signatures \cup {None}
      BY <1>0 DEF AlertTypeOK
    <3>2. /\ probe' \in [Probes -> ProbeAt(Len(told))]
          /\ probe'[p].at = "recovery" /\ probe'[p].decided = time
          /\ \A q \in Probes \ {p} : probe'[q] = probe[q]
      BY <1>0, <2>3, <3>1, ToldNow
    <3>3. AlertTypeOK'
      BY <1>0, <2>1, <3>2 DEF AlertTypeOK
    <3>4. time \in time .. time + PostTimeout
      BY <1>t, <1>n
    <3>5. CallsInv' /\ DistanceInv'
      BY <1>0, <2>1, <3>2, <3>4 DEF CallsInv, DistanceInv, Signatures
    <3> QED
      BY <2>2, <3>3, <3>5 DEF PaceInv
  <2>4. CASE sig # None /\ ~InPause(sig) /\ Told(p, "alert", sig)
    <3>1. sig \in Signatures
      BY <1>t, <2>4
    <3>2. /\ probe' \in [Probes -> ProbeAt(Len(told))]
          /\ probe'[p].at = "alert" /\ probe'[p].sig = sig
          /\ probe'[p].decided = time /\ probe'[p].after = Len(told)
          /\ \A q \in Probes \ {p} : probe'[q] = probe[q]
      BY <1>0, <2>4, <3>1, ToldNow
    <3>3. AlertTypeOK'
      BY <1>0, <2>1, <3>2 DEF AlertTypeOK
    <3>4. time \in time .. time + PostTimeout
      BY <1>t, <1>n
    <3>5. CallsInv'
      BY <1>0, <2>1, <3>1, <3>2, <3>4 DEF CallsInv, Signatures
    <3>6. ASSUME NEW i \in DOMAIN told, told[i].sig = sig
          PROVE  time - told[i].decided >= AlertPause - PostTimeout
      <4>1. sig \in DOMAIN lastSentAt /\ told[i].decided <= lastSentAt[sig] + PostTimeout
        BY <1>0, <3>6 DEF NotedInv
      <4>2. ~(time - lastSentAt[sig] < AlertPause)
        BY <2>4, <4>1 DEF InPause
      <4>3. lastSentAt[sig] \in Nat /\ told[i].decided \in Nat
        BY <1>t, <4>1
      <4> HIDE DEF sig
      <4> QED
        BY <1>t, <1>n, <4>1, <4>2, <4>3
    <3>7. DistanceInv'
      BY <1>0, <2>1, <3>2, <3>6 DEF DistanceInv
    <3> QED
      BY <2>2, <3>3, <3>5, <3>7 DEF PaceInv
  <2>5. CASE probe' = [probe EXCEPT ![p] = Resting]
    <3>1. 0 \in 0..MaxTime /\ 0 \in 0..Len(told)
      BY <1>t, <1>n
    <3>2. /\ probe' \in [Probes -> ProbeAt(Len(told))]
          /\ probe'[p].at = "idle" /\ \A q \in Probes \ {p} : probe'[q] = probe[q]
      BY <1>0, <2>5, <3>1 DEF Resting, AlertTypeOK
    <3>3. AlertTypeOK'
      BY <1>0, <2>1, <3>2 DEF AlertTypeOK
    <3>4. CallsInv' /\ DistanceInv'
      BY <1>0, <2>1, <3>2 DEF CallsInv, DistanceInv, Signatures
    <3> QED
      BY <2>2, <3>3, <3>4 DEF PaceInv
  <2> QED
    BY <1>2, <2>3, <2>4, <2>5 DEF Notify
<1>3. ASSUME NEW p \in Probes, PostEnds(p) PROVE PaceInv'
  <2> DEFINE call == probe[p]
             noted == [sig |-> call.sig, decided |-> call.decided, after |-> call.after]
  <2>1. UNCHANGED <<world, time>> /\ probe' = [probe EXCEPT ![p] = Resting] /\ call.at \in {"alert", "recovery"}
    BY <1>3 DEF PostEnds
  <2>2. /\ DOMAIN probe' = Probes
        /\ probe'[p] = Resting /\ \A q \in Probes \ {p} : probe'[q] = probe[q]
    BY <1>0, <2>1 DEF AlertTypeOK
  <2>3. lastPost' \in {"none", "alert", "recovery"}
    BY <1>3 DEF PostEnds
  <2>4. CallsInv'
    BY <1>0, <2>1, <2>2 DEF CallsInv, Resting, Signatures
  <2>5. CASE call.at = "recovery"
    <3>1. UNCHANGED <<lastSentAt, told>> /\ lastCritical' = None
      BY <1>3, <2>5 DEF PostEnds, CriticalAfter
    <3>2. 0 \in 0..MaxTime /\ 0 \in 0..Len(told)
      BY <1>t, <1>n
    <3>3. probe' \in [Probes -> ProbeAt(Len(told))]
      BY <1>0, <2>1, <3>2 DEF Resting, AlertTypeOK
    <3>4. AlertTypeOK'
      BY <1>0, <2>1, <2>3, <3>1, <3>3 DEF AlertTypeOK, Signatures
    <3>5. NotedInv' /\ AlertsPaced' /\ DistanceInv'
      BY <1>0, <2>2, <3>1 DEF NotedInv, AlertsPaced, DistanceInv, Resting
    <3> QED
      BY <2>4, <3>4, <3>5 DEF PaceInv
  <2>6. CASE call.at = "alert"
    <3>1. /\ call.sig \in Signatures /\ call.decided \in Nat /\ call.after \in Nat /\ call.after <= Len(told)
          /\ call.decided <= time /\ time <= call.decided + PostTimeout
      BY <1>0, <1>t, <1>n, <2>6 DEF CallsInv
    <3>2. /\ lastCritical' = call.sig /\ told' = Append(told, noted)
          /\ lastSentAt' = [s \in DOMAIN lastSentAt \cup {call.sig} |->
                              IF s = call.sig THEN call.decided ELSE lastSentAt[s]]
      BY <1>3, <2>6 DEF PostEnds, CriticalAfter
    <3>3. /\ noted.sig = call.sig /\ noted.decided = call.decided /\ noted.after = call.after
          /\ noted \in [sig : Signatures, decided : 0..time, after : Nat]
      BY <1>t, <3>1
    <3> HIDE DEF noted
    <3>4. told \in Seq([sig : Signatures, decided : 0..time, after : Nat])
      BY <1>0 DEF AlertTypeOK
    <3>5. /\ told' \in Seq([sig : Signatures, decided : 0..time, after : Nat])
          /\ Len(told') = Len(told) + 1 /\ DOMAIN told' = 1 .. Len(told) + 1
          /\ told'[Len(told) + 1] = noted /\ \A i \in DOMAIN told : told'[i] = told[i]
      BY <1>t, <3>2, <3>3, <3>4
    <3>6. /\ DOMAIN lastSentAt' = DOMAIN lastSentAt \cup {call.sig} /\ lastSentAt'[call.sig] = call.decided
          /\ \A s \in DOMAIN lastSentAt \ {call.sig} : lastSentAt'[s] = lastSentAt[s]
      BY <3>2
    <3>7. AlertTypeOK'
      <4>1. probe' \in [Probes -> ProbeAt(Len(told'))]
        <5>1. 0 \in 0..MaxTime /\ 0 \in 0..Len(told') /\ 0..Len(told) \subseteq 0..Len(told')
          BY <1>t, <1>n, <3>5
        <5>2. \A q \in Probes : probe'[q] \in ProbeAt(Len(told'))
          <6>1. Resting \in ProbeAt(Len(told'))
            BY <5>1 DEF Resting
          <6>2. \A q \in Probes : probe[q] \in ProbeAt(Len(told))
            BY <1>0 DEF AlertTypeOK
          <6>3. ProbeAt(Len(told)) \subseteq ProbeAt(Len(told'))
            BY <5>1
          <6> QED
            BY <2>2, <6>1, <6>2, <6>3
        <5> QED
          BY <1>0, <2>1, <2>2, <5>2 DEF AlertTypeOK
      <4>2. call.decided \in 0..time
        BY <1>t, <3>1
      <4>3. \A s \in DOMAIN lastSentAt' : lastSentAt'[s] \in 0..time
        BY <1>0, <3>6, <4>2 DEF AlertTypeOK
      <4>4. DOMAIN lastSentAt' \subseteq Signatures
        BY <1>0, <3>1, <3>6 DEF AlertTypeOK
      <4> QED
        BY <1>0, <2>1, <2>3, <3>1, <3>2, <3>5, <4>1, <4>3, <4>4 DEF AlertTypeOK, Signatures
    <3>8. NotedInv'
      <4> SUFFICES ASSUME NEW i \in 1 .. Len(told) + 1
                   PROVE  /\ told'[i].sig \in DOMAIN lastSentAt'
                          /\ told'[i].decided <= lastSentAt'[told'[i].sig] + PostTimeout
                          /\ told'[i].after < i
        BY <3>5 DEF NotedInv
      <4>1. CASE i = Len(told) + 1
        BY <1>t, <1>n, <3>1, <3>3, <3>5, <3>6, <4>1
      <4>2. CASE i \in DOMAIN told
        <5>1. told'[i] = told[i] /\ told[i].sig \in DOMAIN lastSentAt /\ told[i].after < i
          BY <1>0, <3>5, <4>2 DEF NotedInv
        <5>2. CASE told[i].sig = call.sig
          <6>1. told[i].decided <= call.decided + PostTimeout
            BY <1>t, <1>n, <3>1, <4>2
          <6> QED
            BY <3>6, <5>1, <5>2, <6>1
        <5>3. CASE told[i].sig # call.sig
          BY <1>0, <3>6, <4>2, <5>1, <5>3 DEF NotedInv
        <5> QED
          BY <5>2, <5>3
      <4> QED
        BY <1>t, <4>1, <4>2
    <3>9. DistanceInv'
      <4> SUFFICES ASSUME NEW q \in Probes, probe'[q].at = "alert", NEW i \in DOMAIN told',
                          told'[i].sig = probe'[q].sig, i <= probe'[q].after
                   PROVE  probe'[q].decided - told'[i].decided >= AlertPause - PostTimeout
        BY DEF DistanceInv
      <4>1. q # p /\ probe'[q] = probe[q]
        BY <2>2 DEF Resting
      <4>2. i \in DOMAIN told /\ told'[i] = told[i]
        BY <1>t, <3>5, <4>1
      <4> QED
        BY <1>0, <4>1, <4>2 DEF DistanceInv
    <3>10. AlertsPaced'
      <4> SUFFICES ASSUME NEW i \in DOMAIN told', NEW j \in DOMAIN told',
                          told'[i].sig = told'[j].sig, i <= told'[j].after
                   PROVE  told'[j].decided - told'[i].decided >= AlertPause - PostTimeout
        BY DEF AlertsPaced
      <4>1. CASE j \in DOMAIN told
        <5>1. told'[j] = told[j] /\ told[j].after < j
          BY <1>0, <3>5, <4>1 DEF NotedInv
        <5>2. i \in DOMAIN told /\ told'[i] = told[i]
          BY <1>t, <3>5, <4>1, <5>1
        <5> QED
          BY <1>0, <4>1, <5>1, <5>2 DEF AlertsPaced
      <4>2. CASE j = Len(told) + 1
        <5>1. i \in DOMAIN told /\ told'[i] = told[i] /\ told'[j] = noted
          BY <1>t, <3>1, <3>3, <3>5, <4>2
        <5> QED
          BY <1>0, <2>6, <3>3, <5>1 DEF DistanceInv
      <4> QED
        BY <1>t, <3>5, <4>1, <4>2
    <3> QED
      BY <2>4, <3>7, <3>8, <3>9, <3>10 DEF PaceInv
  <2> QED
    BY <2>1, <2>5, <2>6
<1>4. CASE WorldChanges
  <2>1. UNCHANGED <<time, lastSentAt, lastCritical, probe, lastPost, told>> /\ world' \in Worlds
    BY <1>4 DEF WorldChanges
  <2>2. AlertTypeOK'
    BY <1>0, <2>1 DEF AlertTypeOK, Signatures
  <2> QED
    BY <1>0, <2>1, <2>2 DEF PaceInv, CallsInv, NotedInv, DistanceInv, AlertsPaced, Signatures
<1>5. CASE TimePasses
  <2>1. /\ UNCHANGED <<world, lastSentAt, lastCritical, probe, lastPost, told>>
        /\ time < MaxTime /\ time' = time + 1
        /\ \A p \in Probes : probe[p].at \in {"alert", "recovery"} => time < probe[p].decided + PostTimeout
    BY <1>5 DEF TimePasses
  <2>2. time' \in 0..MaxTime /\ 0..time \subseteq 0..time'
    BY <1>t, <1>n, <2>1
  <2>3. told \in Seq([sig : Signatures, decided : 0..time', after : Nat])
    <3>1. [sig : Signatures, decided : 0..time, after : Nat] \subseteq [sig : Signatures, decided : 0..time', after : Nat]
      BY <2>2
    <3>2. told \in Seq([sig : Signatures, decided : 0..time, after : Nat])
      BY <1>0 DEF AlertTypeOK
    <3>3. \A S, R : S \subseteq R /\ told \in Seq(S) => told \in Seq(R)
      OBVIOUS
    <3> QED
      BY <3>1, <3>2, <3>3
  <2>4. AlertTypeOK'
    BY <1>0, <2>1, <2>2, <2>3 DEF AlertTypeOK, Signatures
  <2>5. CallsInv'
    <3>1. ASSUME NEW p \in Probes, probe[p].at \in {"alert", "recovery"}
          PROVE  time' \in probe[p].decided .. probe[p].decided + PostTimeout
      BY <1>0, <1>t, <1>n, <2>1, <3>1 DEF CallsInv
    <3> QED
      BY <1>0, <2>1, <3>1 DEF CallsInv, Signatures
  <2> QED
    BY <1>0, <2>1, <2>4, <2>5 DEF PaceInv, NotedInv, DistanceInv, AlertsPaced
<1>6. CASE Reboot
  <2>1. /\ told' = <<>> /\ DOMAIN told' = {} /\ Len(told') = 0 /\ time' = 0 /\ world' = world
        /\ probe' = [p \in Probes |-> Resting] /\ lastCritical' = None /\ lastPost' = "none"
        /\ lastSentAt' = [s \in {} |-> 0] /\ DOMAIN lastSentAt' = {}
    BY <1>6 DEF Reboot
  <2>2. probe' \in [Probes -> ProbeAt(Len(told'))]
    BY <1>n, <2>1 DEF Resting
  <2>3. AlertTypeOK'
    BY <1>0, <1>n, <2>1, <2>2 DEF AlertTypeOK
  <2> QED
    BY <2>1, <2>3 DEF PaceInv, CallsInv, NotedInv, DistanceInv, AlertsPaced, Resting
<1>7. CASE UNCHANGED alertVars
  BY <1>0, <1>7 DEF alertVars, PaceInv, AlertTypeOK, CallsInv, NotedInv, DistanceInv, AlertsPaced, Signatures
<1> QED
  BY <1>1, <1>2, <1>3, <1>4, <1>5, <1>6, <1>7 DEF AlertNext, ProbeStep

(* An alert keeps its distance to those told when it was decided, for any   *)
(* snapshots of the job table, any number of requests and any pause and     *)
(* timeout.                                                                 *)
THEOREM AlertsAlwaysPaced == AlertSpec => []AlertsPaced
<1>1. PaceInv => AlertsPaced
  BY DEF PaceInv
<1> QED
  BY <1>1, PaceStarts, PaceStep, PTL DEF AlertSpec
=============================================================================
