---------------------------- MODULE BackendProofs ----------------------------
(***************************************************************************)
(* Proofs about two parts of the backend that share no state, each for its  *)
(* own specification: the permits for the jobs, and the attempts of a job.  *)
(***************************************************************************)
EXTENDS JobConcurrency, StageAttempt, FiniteSetTheorems, SequenceTheorems, TLAPS

-----------------------------------------------------------------------------
(***************************************************************************)
(* The permits, for any callers, job types and limits: the limits hold and  *)
(* no wake-up is lost.                                                      *)
(***************************************************************************)

Due == {"resumeHeavy", "afterHeavy", "resumeType", "afterType"}

(* The queue of microtasks holds the calls that are due and no others. Two  *)
(* at most are due at a time, and a continuation that will look for a       *)
(* permit never has one behind it that is about to take one.                *)
QueueInv ==
  \/ micro = <<>> /\ \A c \in Callers : pc[c] \notin Due
  \/ \E c \in Callers :
        /\ micro = <<c>> /\ pc[c] \in Due
        /\ \A d \in Callers \ {c} : pc[d] \notin Due
  \/ \E c, d \in Callers :
        /\ c # d /\ micro = <<c, d>>
        /\ \A e \in Callers \ {c, d} : pc[e] \notin Due
        /\ <<pc[c], pc[d]>> \in {<<"resumeType", "resumeHeavy">>, <<"resumeHeavy", "afterType">>,
                                 <<"afterType", "afterHeavy">>}

(* Only heavy calls are on their way to a heavy permit.                     *)
HeavyInv == \A c \in Callers :
              pc[c] \in {"waitHeavy", "resumeHeavy", "afterHeavy"} => IsHeavy(c)

(* A pool's waiters are calls that wait for it, each of them once.          *)
WaitsFor(c, p) == IF p = HeavyPool THEN pc[c] = "waitHeavy"
                                   ELSE pc[c] = "waitType" /\ typeOf[c] = p

WaitersInv ==
  \A p \in Pools :
     /\ \A i \in 1 .. Len(waiters[p]) : WaitsFor(waiters[p][i], p)
     /\ \A i, j \in 1 .. Len(waiters[p]) : waiters[p][i] = waiters[p][j] => i = j

(* The calls that have a permit of p, and the one that is about to take it. *)
HeldAt(p) == IF p = HeavyPool
             THEN {"afterHeavy", "waitType", "resumeType", "afterType", "running"}
             ELSE {"afterType", "running"}
Holders(p) == {c \in Callers : p \in Needs(c) /\ pc[c] \in HeldAt(p)}

Resumes(c, p) == IF p = HeavyPool THEN pc[c] = "resumeHeavy"
                                  ELSE pc[c] = "resumeType" /\ typeOf[c] = p

(* inUse counts the calls that have a permit.                               *)
CountInv == \A p \in Pools : inUse[p] = Cardinality(Holders(p))

(* A woken call finds the permit that was given back still free.            *)
RoomInv == \A p \in Pools, c \in Callers : Resumes(c, p) => inUse[p] < Limit[p]

(* Somebody waits only if all permits are taken or about to be.             *)
BusyInv == \A p \in Pools :
             waiters[p] # <<>> => \/ inUse[p] >= Limit[p]
                                  \/ inUse[p] + 1 >= Limit[p] /\ \E c \in Callers : Resumes(c, p)

IInv ==
  /\ TypeOK
  /\ QueueInv
  /\ HeavyInv
  /\ WaitersInv
  /\ CountInv
  /\ RoomInv
  /\ BusyInv
-----------------------------------------------------------------------------
(* The pools of a call are pools, and which they are.                       *)
LEMMA PoolsOf ==
  ASSUME NEW c \in Callers
  PROVE  /\ typeOf[c] \in Pools /\ typeOf[c] # HeavyPool /\ HeavyPool \in Pools
         /\ Needs(c) \subseteq Pools
         /\ \A p \in Pools : p \in Needs(c) <=> p = typeOf[c] \/ (p = HeavyPool /\ IsHeavy(c))
BY ConcurrencyAssumption DEF Pools, Needs, IsHeavy

(* A call that looks for a permit again goes behind the one that is due.    *)
LEMMA GoesBehind ==
  ASSUME NEW c, NEW d
  PROVE  Append(<<d>>, c) = <<d, c>>
<1> DEFINE S == {c, d}
<1>1. <<d>> \in Seq(S) /\ <<d, c>> \in Seq(S)
  OBVIOUS
<1>2. Append(<<d>>, c) \in Seq(S) /\ Len(Append(<<d>>, c)) = 2
      /\ \A i \in 1 .. 2 : Append(<<d>>, c)[i] = <<d, c>>[i]
  BY <1>1
<1>3. Len(<<d, c>>) = 2
  OBVIOUS
<1> QED
  BY <1>1, <1>2, <1>3, SeqEqual

(* What the microtask queue looks like before and after its head has moved. *)
LEMMA ShortQueues ==
  ASSUME NEW c, NEW d
  PROVE  /\ <<c>> # <<>> /\ <<c, d>> # <<>>
         /\ Head(<<c>>) = c /\ Tail(<<c>>) = <<>> /\ Append(<<>>, c) = <<c>>
         /\ Head(<<c, d>>) = c /\ Tail(<<c, d>>) = <<d>> /\ Append(<<d>>, c) = <<d, c>>
         /\ <<>> \o <<>> = <<>> /\ <<c>> \o <<>> = <<c>> /\ <<>> \o <<c>> = <<c>>
         /\ <<c>> \o <<d>> = <<c, d>>
<1> DEFINE S == {c, d}
<1>1. <<c>> \in Seq(S) /\ <<d>> \in Seq(S) /\ <<c, d>> \in Seq(S) /\ <<d, c>> \in Seq(S)
  OBVIOUS
<1>2. Head(<<c>>) = c /\ Tail(<<c>>) = <<>> /\ Append(<<>>, c) = <<c>>
      /\ <<c>> # <<>> /\ <<c, d>> # <<>> /\ Head(<<c, d>>) = c
  OBVIOUS
<1>3. Append(<<d>>, c) = <<d, c>>
  BY ONLY GoesBehind
<1>4. Tail(<<c, d>>) = <<d>>
  OBVIOUS
<1>5. <<>> \o <<>> = <<>> /\ <<c>> \o <<>> = <<c>> /\ <<>> \o <<c>> = <<c>>
  BY <1>1, ConcatEmptySeq, EmptySeq
<1>6. <<c>> \o <<d>> = <<c, d>>
  <2>1. <<c>> \o <<d>> \in Seq(S) /\ Len(<<c>> \o <<d>>) = 2
    BY <1>1, ConcatProperties
  <2>2. \A i \in 1 .. 2 : (<<c>> \o <<d>>)[i] = <<c, d>>[i]
    OBVIOUS
  <2>3. Len(<<c, d>>) = 2
    OBVIOUS
  <2> QED
    BY <1>1, <2>1, <2>2, <2>3, SeqEqual
<1> QED
  BY <1>2, <1>3, <1>4, <1>5, <1>6

(* The holders of a pool can be counted.                                    *)
LEMMA HoldersFinite ==
  ASSUME NEW p
  PROVE  IsFiniteSet(Holders(p)) /\ Cardinality(Holders(p)) \in Nat
BY ConcurrencyAssumption, FS_Subset, FS_CardinalityType DEF Holders

(* One more call has a permit.                                              *)
LEMMA CountTake ==
  ASSUME TypeOK, CountInv, NEW p \in Pools, NEW c \in Callers, Take(p),
         c \notin Holders(p), Holders(p)' = Holders(p) \cup {c},
         \A q \in Pools \ {p} : Holders(q)' = Holders(q)
  PROVE  CountInv'
<1> SUFFICES ASSUME NEW q \in Pools PROVE inUse'[q] = Cardinality(Holders(q)')
  BY DEF CountInv
<1>1. CASE q = p
  <2>1. inUse'[p] = inUse[p] + 1
    BY DEF Take, TypeOK
  <2>2. Cardinality(Holders(p) \cup {c}) = Cardinality(Holders(p)) + 1
    BY HoldersFinite, FS_AddElement
  <2> QED
    BY <1>1, <2>1, <2>2 DEF CountInv
<1>2. CASE q # p
  BY <1>2 DEF Take, TypeOK, CountInv
<1> QED
  BY <1>1, <1>2
(* Nobody's permit of any pool changes.                                     *)
LEMMA CountKept ==
  ASSUME CountInv, inUse' = inUse, \A q \in Pools : Holders(q)' = Holders(q)
  PROVE  CountInv'
BY DEF CountInv

-----------------------------------------------------------------------------
(* A call c that nothing is behind in the queue takes a permit of p, or     *)
(* joins its waiters.                                                       *)
Asks(c, p, after, wait) ==
  \/ /\ p = HeavyPool /\ IsHeavy(c)
     /\ after = "afterHeavy" /\ wait = "waitHeavy"
     /\ pc[c] = "idle"
  \/ /\ p = typeOf[c]
     /\ after = "afterType" /\ wait = "waitType"
     /\ pc[c] = IF IsHeavy(c) THEN "afterHeavy" ELSE "idle"

LEMMA AcquireStep ==
  ASSUME IInv, NEW c \in Callers, NEW p \in Pools, NEW after, NEW wait,
         Asks(c, p, after, wait),
         Acquire(p, c, after, wait, <<>>),
         \A d \in Callers \ {c} : pc[d] \notin Due
  PROVE  IInv'
<1> USE PoolsOf DEF IInv, TypeOK
<1>1. pc[c] \in {"idle", "afterHeavy"} /\ after \in {"afterHeavy", "afterType"}
      /\ wait \in {"waitHeavy", "waitType"}
  BY DEF Asks
<1>2. ASSUME NEW q \in Pools PROVE ~WaitsFor(c, q) /\ \A d \in Callers : ~Resumes(d, q)
  BY <1>1, <1>2 DEF WaitsFor, Resumes, Due
<1>3. CASE HasPermit(p)
  <2>1. /\ Take(p) /\ pc' = [pc EXCEPT ![c] = after] /\ micro' = <<c>> /\ waiters' = waiters
    BY <1>3, ShortQueues DEF Acquire, Goto
  <2>2. TypeOK'
    <3>1. inUse' \in [Pools -> Nat] /\ \A q \in Pools : inUse'[q] <= Limit[q]
      <4>1. inUse[p] \in Nat /\ Limit[p] \in Nat /\ inUse[p] + 1 <= Limit[p]
        BY <1>3, ConcurrencyAssumption DEF HasPermit
      <4> QED
        BY <2>1, <4>1 DEF Take
    <3>2. pc' \in [Callers -> PC] /\ micro' \in Seq(Callers)
      BY <1>1, <2>1 DEF PC
    <3> QED
      BY <2>1, <3>1, <3>2
  <2>3. QueueInv'
    BY <1>1, <2>1 DEF QueueInv, Due
  <2>4. HeavyInv'
    BY <2>1 DEF HeavyInv, Asks, IsHeavy
  <2>5. WaitersInv'
    BY <1>2, <2>1 DEF WaitersInv, WaitsFor
  <2>6. CountInv'
    <3>1. c \notin Holders(p) /\ Holders(p)' = Holders(p) \cup {c}
      BY <2>1 DEF Holders, HeldAt, Asks
    <3>2. ASSUME NEW q \in Pools \ {p} PROVE Holders(q)' = Holders(q)
      <4>1. \A d \in Callers : q \in Needs(d) /\ pc'[d] \in HeldAt(q)
                                 <=> q \in Needs(d) /\ pc[d] \in HeldAt(q)
        <5>1. c \in Callers /\ q \in Needs(c)
              => (after \in HeldAt(q) <=> pc[c] \in HeldAt(q))
          BY DEF HeldAt, Asks
        <5> QED
          BY <2>1, <5>1
      <4> QED
        BY <4>1 DEF Holders, HeldAt
    <3> QED
      BY <2>1, <3>1, <3>2, CountTake
  <2>7. RoomInv'
    BY <1>1, <1>2, <2>1 DEF RoomInv, Resumes
  <2>8. BusyInv'
    <3>1. inUse[p] \in Nat /\ Limit[p] \in Nat /\ inUse[p] < Limit[p]
      BY <1>3, ConcurrencyAssumption DEF HasPermit
    <3>2. \A q \in Pools : waiters[q] # <<>> => inUse[q] >= Limit[q]
      BY <1>2 DEF BusyInv
    <3>3. ASSUME NEW q \in Pools, waiters[q] # <<>> PROVE q # p
      BY ONLY <3>1, <3>2, <3>3
    <3>4. waiters' = waiters /\ \A q \in Pools : q # p => inUse'[q] = inUse[q]
      BY <2>1 DEF Take
    <3> QED
      BY ONLY <3>2, <3>3, <3>4 DEF BusyInv
  <2> QED
    BY <2>2, <2>3, <2>4, <2>5, <2>6, <2>7, <2>8
<1>4. CASE ~HasPermit(p)
  <2>1. /\ inUse' = inUse /\ pc' = [pc EXCEPT ![c] = wait] /\ micro' = <<>>
        /\ waiters' = [waiters EXCEPT ![p] = Append(@, c)]
    BY <1>4 DEF Acquire, Goto, Queued
  <2>2. TypeOK'
    BY <1>1, <2>1 DEF PC
  <2>3. QueueInv'
    BY <1>1, <2>1 DEF QueueInv, Due
  <2>4. HeavyInv'
    BY <2>1 DEF HeavyInv, Asks, IsHeavy
  <2>5. WaitersInv'
    <3> DEFINE Waits(x, q) == IF q = HeavyPool THEN pc'[x] = "waitHeavy"
                                               ELSE pc'[x] = "waitType" /\ typeOf[x] = q
    <3> SUFFICES ASSUME NEW q \in Pools
                 PROVE  /\ \A i \in 1 .. Len(waiters'[q]) : Waits(waiters'[q][i], q)
                        /\ \A i, j \in 1 .. Len(waiters'[q]) :
                              waiters'[q][i] = waiters'[q][j] => i = j
      BY DEF WaitersInv, WaitsFor
    <3>1. \A i \in 1 .. Len(waiters[q]) : waiters[q][i] \in Callers /\ waiters[q][i] # c
      BY <1>2 DEF WaitersInv
    <3>2. \A i \in 1 .. Len(waiters[q]) : Waits(waiters[q][i], q)
      BY <2>1, <3>1 DEF WaitersInv, WaitsFor
    <3>3. Waits(c, p)
      BY <2>1 DEF Asks
    <3>4. CASE q = p
      <4> DEFINE n == Len(waiters[p])
      <4>1. waiters'[p] = Append(waiters[p], c) /\ waiters[p] \in Seq(Callers)
        BY <2>1
      <4>2. /\ n \in Nat /\ Len(waiters'[p]) = n + 1
            /\ \A i \in 1 .. n : waiters'[p][i] = waiters[p][i]
            /\ waiters'[p][n + 1] = c
        BY <4>1
      <4>3. \A i \in 1 .. n + 1 : i \in 1 .. n \/ i = n + 1
        BY <4>2
      <4> HIDE DEF n, Waits
      <4>4. \A i \in 1 .. n + 1 : Waits(waiters'[p][i], p)
        BY <3>2, <3>3, <3>4, <4>2, <4>3 DEF n
      <4>5. ASSUME NEW i \in 1 .. n + 1, NEW j \in 1 .. n + 1, waiters'[p][i] = waiters'[p][j]
            PROVE  i = j
        <5>1. \A k, l \in 1 .. n : waiters[p][k] = waiters[p][l] => k = l
          BY DEF WaitersInv, n
        <5>2. \A k \in 1 .. n : waiters[p][k] # c
          BY <3>1, <3>4 DEF n
        <5> QED
          BY <4>2, <4>3, <4>5, <5>1, <5>2
      <4> QED
        BY <3>4, <4>2, <4>4, <4>5
    <3>5. CASE q # p
      <4>1. waiters'[q] = waiters[q]
        BY <2>1, <3>5
      <4> HIDE DEF Waits
      <4> QED
        BY <3>2, <4>1 DEF WaitersInv
    <3> QED
      BY <3>4, <3>5
  <2>6. CountInv'
    <3>1. \A q \in Pools : Holders(q)' = Holders(q)
      BY <2>1 DEF Holders, HeldAt, Asks
    <3> QED
      BY <2>1, <3>1, CountKept
  <2>7. RoomInv'
    BY <1>1, <2>1 DEF RoomInv, Resumes
  <2>8. BusyInv'
    <3>1. inUse[p] >= Limit[p]
      BY <1>4, ConcurrencyAssumption DEF HasPermit
    <3>2. \A q \in Pools : waiters[q] # <<>> => inUse[q] >= Limit[q]
      BY <1>2 DEF BusyInv
    <3>3. \A q \in Pools : q # p => waiters'[q] = waiters[q]
      BY <2>1
    <3> QED
      BY <2>1, <3>1, <3>2, <3>3 DEF BusyInv
  <2> QED
    BY <2>2, <2>3, <2>4, <2>5, <2>6, <2>7, <2>8
<1> QED
  BY <1>3, <1>4

(* The head of the queue, woken by a release, takes its permit of p.        *)
Continues(c, p, after) ==
  \/ p = HeavyPool /\ after = "afterHeavy" /\ pc[c] = "resumeHeavy"
  \/ p = typeOf[c] /\ after = "afterType" /\ pc[c] = "resumeType"

LEMMA ResumeStep ==
  ASSUME IInv, NEW c \in Callers, NEW p \in Pools, NEW after,
         Continues(c, p, after), micro # <<>>, Head(micro) = c, Resume(p, c, after)
  PROVE  IInv'
<1> USE PoolsOf DEF IInv, TypeOK
<1>1. p \in Needs(c) /\ Resumes(c, p) /\ inUse[p] < Limit[p]
  BY DEF Continues, HeavyInv, Resumes, RoomInv
<1>2. /\ Take(p) /\ pc' = [pc EXCEPT ![c] = after] /\ waiters' = waiters
      /\ micro' = Append(Tail(micro), c) /\ inUse' = [inUse EXCEPT ![p] = @ + 1]
  BY DEF Resume, Goto, Take
<1>3. after \in {"afterHeavy", "afterType"} /\ pc[c] \in Due
  BY DEF Continues, Due
<1>4. \/ micro = <<c>> /\ \A e \in Callers \ {c} : pc[e] \notin Due
      \/ \E d \in Callers \ {c} :
            /\ micro = <<c, d>> /\ \A e \in Callers \ {c, d} : pc[e] \notin Due
            /\ <<pc[c], pc[d]>> \in {<<"resumeType", "resumeHeavy">>, <<"resumeHeavy", "afterType">>}
  BY ShortQueues DEF QueueInv, Continues
<1>5. ASSUME NEW d \in Callers \ {c} PROVE ~Resumes(d, p)
  BY <1>4 DEF Resumes, Continues, Due
<1>6. TypeOK'
  <2>1. inUse[p] \in Nat /\ Limit[p] \in Nat /\ inUse[p] + 1 <= Limit[p]
    BY <1>1, ConcurrencyAssumption
  <2>2. inUse' \in [Pools -> Nat] /\ \A q \in Pools : inUse'[q] <= Limit[q]
    BY <1>2, <2>1
  <2>3. pc' \in [Callers -> PC] /\ micro' \in Seq(Callers)
    BY <1>2, <1>3, <1>4, ShortQueues DEF PC
  <2> QED
    BY <1>2, <2>2, <2>3
<1>7. QueueInv'
  <2>1. CASE micro = <<c>> /\ \A e \in Callers \ {c} : pc[e] \notin Due
    <3>1. micro' = <<c>> /\ pc'[c] \in Due /\ \A e \in Callers \ {c} : pc'[e] \notin Due
      BY <1>2, <1>3, <2>1, ShortQueues DEF Due
    <3> QED
      BY <3>1 DEF QueueInv
  <2>2. CASE \E d \in Callers \ {c} :
                /\ micro = <<c, d>> /\ \A e \in Callers \ {c, d} : pc[e] \notin Due
                /\ <<pc[c], pc[d]>> \in {<<"resumeType", "resumeHeavy">>,
                                         <<"resumeHeavy", "afterType">>}
    <3>1. PICK d \in Callers \ {c} :
                /\ micro = <<c, d>> /\ \A e \in Callers \ {c, d} : pc[e] \notin Due
                /\ <<pc[c], pc[d]>> \in {<<"resumeType", "resumeHeavy">>,
                                         <<"resumeHeavy", "afterType">>}
      BY <2>2
    <3>2. micro' = <<d, c>> /\ \A e \in Callers \ {d, c} : pc'[e] \notin Due
      <4>0. Append(<<d>>, c) = <<d, c>>
        BY ONLY GoesBehind
      <4>1. Tail(<<c, d>>) = <<d>> /\ Append(<<d>>, c) = <<d, c>>
        BY ONLY <4>0
      <4>2. micro' = <<d, c>>
        BY <1>2, <3>1, <4>1
      <4>3. \A e \in Callers : e # c => pc'[e] = pc[e]
        BY <1>2
      <4> QED
        BY ONLY <3>1, <4>2, <4>3 DEF Due
    <3>3. <<pc'[d], pc'[c]>> \in {<<"resumeHeavy", "afterType">>, <<"afterType", "afterHeavy">>}
      BY <1>2, <3>1 DEF Continues
    <3> QED
      BY <3>2, <3>3 DEF QueueInv
  <2> QED
    BY <1>4, <2>1, <2>2
<1>8. HeavyInv'
  BY <1>1, <1>2 DEF HeavyInv, Continues, IsHeavy
<1>9. WaitersInv'
  <2>1. \A d \in Callers, q \in Pools : WaitsFor(d, q) => WaitsFor(d, q)'
    BY <1>2, <1>3 DEF WaitsFor, Due
  <2>2. waiters' = waiters /\ \A q \in Pools : waiters[q] \in Seq(Callers)
    BY <1>2
  <2>3. WaitersInv
    OBVIOUS
  <2> QED
    BY ONLY <2>1, <2>2, <2>3 DEF WaitersInv
<1>10. CountInv'
  <2>1. c \notin Holders(p) /\ Holders(p)' = Holders(p) \cup {c}
    BY <1>1, <1>2 DEF Holders, HeldAt, Continues
  <2>2. ASSUME NEW q \in Pools \ {p} PROVE Holders(q)' = Holders(q)
    <3>1. q \in Needs(c) => (after \in HeldAt(q) <=> pc[c] \in HeldAt(q))
      BY DEF HeldAt, Continues
    <3>2. \A d \in Callers : q \in Needs(d) /\ pc'[d] \in HeldAt(q)
                             <=> q \in Needs(d) /\ pc[d] \in HeldAt(q)
      BY <1>2, <3>1
    <3> QED
      BY <3>2 DEF Holders, HeldAt
  <2> QED
    BY <1>2, <2>1, <2>2, CountTake
<1>11. RoomInv'
  BY <1>2, <1>3, <1>5 DEF RoomInv, Resumes
<1>12. BusyInv'
  <2> SUFFICES ASSUME NEW q \in Pools, waiters[q] # <<>>
               PROVE  \/ inUse'[q] >= Limit[q]
                      \/ inUse'[q] + 1 >= Limit[q] /\ \E d \in Callers : Resumes(d, q)'
    BY <1>2 DEF BusyInv
  <2>1. inUse[q] + 1 >= Limit[q]
    BY ConcurrencyAssumption DEF BusyInv
  <2>2. CASE q = p
    BY <1>2, <2>1, <2>2
  <2>3. CASE q # p
    <3>1. ~Resumes(c, q)
      BY <1>1, <2>3 DEF Continues, Resumes
    <3>2. \A d \in Callers \ {c} : Resumes(d, q) => Resumes(d, q)'
      BY <1>2 DEF Resumes
    <3> QED
      BY <1>2, <2>3, <3>1, <3>2 DEF BusyInv
  <2> QED
    BY <2>2, <2>3
<1> QED
  BY <1>6, <1>7, <1>8, <1>9, <1>10, <1>11, <1>12

(* The head of the queue has both its permits and starts its script.        *)
LEMMA AfterTypeStep ==
  ASSUME IInv, NEW c \in Callers, micro # <<>>, Head(micro) = c, AfterType(c)
  PROVE  IInv'
<1> USE PoolsOf DEF IInv, TypeOK
<1>1. /\ pc[c] = "afterType" /\ pc' = [pc EXCEPT ![c] = "running"]
      /\ micro' = Tail(micro) /\ inUse' = inUse /\ waiters' = waiters
  BY DEF AfterType, Goto
<1>2. \/ micro = <<c>> /\ \A e \in Callers \ {c} : pc[e] \notin Due
      \/ \E d \in Callers \ {c} :
            /\ micro = <<c, d>> /\ pc[d] = "afterHeavy"
            /\ \A e \in Callers \ {c, d} : pc[e] \notin Due
  BY <1>1, ShortQueues DEF QueueInv
<1>3. TypeOK'
  BY <1>1, <1>2, ShortQueues DEF PC
<1>4. QueueInv'
  <2>1. CASE micro = <<c>> /\ \A e \in Callers \ {c} : pc[e] \notin Due
    BY <1>1, <2>1, ShortQueues DEF QueueInv, Due
  <2>2. CASE \E d \in Callers \ {c} :
                /\ micro = <<c, d>> /\ pc[d] = "afterHeavy"
                /\ \A e \in Callers \ {c, d} : pc[e] \notin Due
    <3>1. PICK d \in Callers \ {c} :
                /\ micro = <<c, d>> /\ pc[d] = "afterHeavy"
                /\ \A e \in Callers \ {c, d} : pc[e] \notin Due
      BY <2>2
    <3>2. micro' = <<d>> /\ pc'[d] \in Due /\ \A e \in Callers \ {d} : pc'[e] \notin Due
      BY <1>1, <3>1, ShortQueues DEF Due
    <3> QED
      BY <3>2 DEF QueueInv
  <2> QED
    BY <1>2, <2>1, <2>2
<1>5. HeavyInv' /\ WaitersInv'
  BY <1>1 DEF HeavyInv, IsHeavy, WaitersInv, WaitsFor
<1>6. CountInv'
  <2>1. ASSUME NEW q \in Pools PROVE Holders(q)' = Holders(q)
    BY <1>1 DEF Holders, HeldAt
  <2> QED
    BY <1>1, <2>1, CountKept
<1>7. \A d \in Callers, q \in Pools : Resumes(d, q)' <=> Resumes(d, q)
  BY <1>1 DEF Resumes
<1>8. RoomInv' /\ BusyInv'
  BY <1>1, <1>7 DEF RoomInv, BusyInv
<1> QED
  BY <1>3, <1>4, <1>5, <1>6, <1>8

(* What waits for a pool, its head and the others.                          *)
LEMMA HeadOfWaiters ==
  ASSUME TypeOK, WaitersInv, NEW p \in Pools, waiters[p] # <<>>
  PROVE  /\ Head(waiters[p]) \in Callers /\ WaitsFor(Head(waiters[p]), p)
         /\ Tail(waiters[p]) \in Seq(Callers)
         /\ \A i \in 1 .. Len(Tail(waiters[p])) :
               /\ Tail(waiters[p])[i] \in Callers
               /\ WaitsFor(Tail(waiters[p])[i], p)
               /\ Tail(waiters[p])[i] # Head(waiters[p])
         /\ \A i, j \in 1 .. Len(Tail(waiters[p])) :
               Tail(waiters[p])[i] = Tail(waiters[p])[j] => i = j
<1> DEFINE w == waiters[p]
           n == Len(w)
<1>1. w \in Seq(Callers) /\ w # <<>> /\ n \in Nat \ {0} /\ \A i \in 1 .. n : w[i] \in Callers
  BY EmptySeq, LenProperties DEF TypeOK
<1>2. Head(w) = w[1] /\ Tail(w) \in Seq(Callers) /\ Len(Tail(w)) = n - 1
      /\ \A i \in 1 .. n - 1 : Tail(w)[i] = w[i + 1]
  BY <1>1, HeadTailProperties
<1>3. \A i \in 1 .. n - 1 : i + 1 \in 1 .. n /\ i + 1 # 1
  BY <1>1
<1>4. 1 \in 1 .. n
  BY <1>1
<1>5. /\ \A i \in 1 .. n : WaitsFor(w[i], p)
      /\ \A i, j \in 1 .. n : w[i] = w[j] => i = j
  BY DEF WaitersInv
<1>6. \A i, j \in 1 .. n - 1 : i + 1 = j + 1 => i = j
  BY <1>1
<1> HIDE DEF n, w
<1>7. \A i \in 1 .. n - 1 : Tail(w)[i] \in Callers /\ WaitsFor(Tail(w)[i], p) /\ Tail(w)[i] # Head(w)
  BY <1>1, <1>2, <1>3, <1>4, <1>5
<1>8. \A i, j \in 1 .. n - 1 : Tail(w)[i] = Tail(w)[j] => i = j
  BY <1>2, <1>3, <1>5, <1>6
<1> QED
  BY <1>1, <1>2, <1>4, <1>5, <1>7, <1>8 DEF w

(* A release of p wakes d.                                                  *)
Wakes(d, p) == waiters[p] # <<>> /\ d = Head(waiters[p])

LEMMA WorkEndsStep ==
  ASSUME IInv, NEW c \in Callers, WorkEnds(c)
  PROVE  IInv'
<1> USE PoolsOf DEF IInv, TypeOK
<1> DEFINE t == typeOf[c]
<1>1. pc[c] = "running" /\ \A d \in Callers : pc[d] \notin Due
  BY ShortQueues DEF WorkEnds, QueueInv
<1>2. \A d \in Callers, q \in Pools : ~Resumes(d, q)
  BY <1>1 DEF Resumes, Due
<1>3. \A q \in Needs(c) : c \in Holders(q) /\ inUse[q] \in Nat \ {0}
  <2> SUFFICES ASSUME NEW q \in Needs(c) PROVE c \in Holders(q) /\ inUse[q] \in Nat \ {0}
    OBVIOUS
  <2>1. c \in Holders(q) /\ q \in Pools
    BY <1>1 DEF Holders, HeldAt
  <2>2. Cardinality(Holders(q)) # 0
    BY <2>1, HoldersFinite, FS_EmptySet
  <2> QED
    BY <2>1, <2>2 DEF CountInv
<1>4. inUse' = [q \in Pools |-> IF q \in Needs(c) THEN inUse[q] - 1 ELSE inUse[q]]
  <2>1. inUse' = [q \in Pools |-> IF q \in Needs(c) /\ inUse[q] > 0 THEN inUse[q] - 1 ELSE inUse[q]]
    BY DEF WorkEnds
  <2>2. \A q \in Pools : q \in Needs(c) /\ inUse[q] > 0 <=> q \in Needs(c)
    BY <1>3
  <2> QED
    BY <2>1, <2>2
<1>5. waiters' = [q \in Pools |-> IF q \in Needs(c) /\ waiters[q] # <<>> THEN Tail(waiters[q])
                                                                          ELSE waiters[q]]
  <2>1. \A q \in Pools : Woken(q) # <<>> <=> waiters[q] # <<>>
    BY ShortQueues DEF Woken
  <2> QED
    BY <2>1 DEF WorkEnds
<1>6. pc' = [d \in Callers |-> IF d = c THEN "idle"
                               ELSE IF Wakes(d, t) THEN "resumeType"
                               ELSE IF IsHeavy(c) /\ Wakes(d, HeavyPool) THEN "resumeHeavy"
                               ELSE pc[d]]
  <2>1. \A d \in Callers, q \in Pools : Woken(q) = <<d>> <=> Wakes(d, q)
    BY ShortQueues DEF Woken, Wakes
  <2>2. pc' = [d \in Callers |->
                IF d = c THEN "idle"
                ELSE IF Woken(t) = <<d>> THEN "resumeType"
                ELSE IF IsHeavy(c) /\ Woken(HeavyPool) = <<d>> THEN "resumeHeavy"
                ELSE pc[d]]
    BY DEF WorkEnds
  <2> QED
    BY <2>1, <2>2
<1>7. \A d \in Callers, q \in Pools : Wakes(d, q) => WaitsFor(d, q)
  BY HeadOfWaiters DEF Wakes
<1>8. \A d \in Callers : Wakes(d, t) => d # c /\ pc[d] = "waitType" /\ typeOf[d] = t
                                        /\ pc'[d] = "resumeType"
  BY <1>1, <1>6, <1>7 DEF WaitsFor
<1>9. \A d \in Callers : IsHeavy(c) /\ Wakes(d, HeavyPool) => d # c /\ pc[d] = "waitHeavy"
                                                              /\ pc'[d] = "resumeHeavy"
  BY <1>1, <1>6, <1>7, <1>8 DEF WaitsFor
<1>10. \A d \in Callers : ~Wakes(d, t) /\ ~(IsHeavy(c) /\ Wakes(d, HeavyPool)) /\ d # c
                          => pc'[d] = pc[d]
  BY <1>6
<1>11. pc'[c] = "idle"
  BY <1>6
<1> HIDE DEF t
<1>12. TypeOK'
  <2>1. inUse' \in [Pools -> Nat] /\ \A q \in Pools : inUse'[q] <= Limit[q]
    <3>1. \A q \in Pools : inUse'[q] \in Nat /\ inUse'[q] <= inUse[q]
      BY <1>3, <1>4
    <3>2. \A q \in Pools : inUse[q] \in Nat /\ Limit[q] \in Nat
      BY ConcurrencyAssumption
    <3>3. \A q \in Pools : inUse'[q] <= Limit[q]
      BY <3>1, <3>2
    <3> QED
      BY <1>4, <3>1, <3>3
  <2>2. waiters' \in [Pools -> Seq(Callers)]
    BY <1>5, HeadOfWaiters
  <2>3. pc' \in [Callers -> PC]
    BY <1>6 DEF PC
  <2>4. micro' \in Seq(Callers)
    <3>1. \A q \in Pools : Woken(q) \in Seq(Callers)
      BY HeadOfWaiters DEF Woken
    <3> QED
      BY <3>1 DEF WorkEnds
  <2> QED
    BY <2>1, <2>2, <2>3, <2>4
<1>13. QueueInv'
  <2> DEFINE noType == waiters[t] = <<>>
             noHeavy == ~IsHeavy(c) \/ waiters[HeavyPool] = <<>>
             d1 == Head(waiters[t])
             d2 == Head(waiters[HeavyPool])
  <2>1. /\ micro' = (IF noType THEN <<>> ELSE <<d1>>) \o (IF noHeavy THEN <<>> ELSE <<d2>>)
    BY DEF WorkEnds, Woken, t
  <2>2. ~noType => d1 \in Callers /\ Wakes(d1, t) /\ pc'[d1] = "resumeType"
    BY <1>8, HeadOfWaiters DEF Wakes, t
  <2>3. ~noHeavy => d2 \in Callers /\ IsHeavy(c) /\ Wakes(d2, HeavyPool) /\ pc'[d2] = "resumeHeavy"
    BY <1>9, HeadOfWaiters DEF Wakes
  <2>4. \A e \in Callers : (noType \/ e # d1) /\ (noHeavy \/ e # d2) => pc'[e] \notin Due
    BY <1>1, <1>10, <1>11 DEF Wakes, Due
  <2> HIDE DEF noType, noHeavy, d1, d2
  <2>5. CASE noType /\ noHeavy
    BY <2>1, <2>4, <2>5, ShortQueues DEF QueueInv
  <2>6. CASE ~noType /\ noHeavy
    <3>1. micro' = <<d1>> /\ pc'[d1] \in Due
      BY <2>1, <2>2, <2>6, ShortQueues DEF Due
    <3> QED
      BY <2>2, <2>4, <2>6, <3>1 DEF QueueInv
  <2>7. CASE noType /\ ~noHeavy
    <3>1. micro' = <<d2>> /\ pc'[d2] \in Due
      BY <2>1, <2>3, <2>7, ShortQueues DEF Due
    <3> QED
      BY <2>3, <2>4, <2>7, <3>1 DEF QueueInv
  <2>8. CASE ~noType /\ ~noHeavy
    <3>1. micro' = <<d1, d2>>
      BY <2>1, <2>8, ShortQueues
    <3>2. d1 # d2 /\ <<pc'[d1], pc'[d2]>> = <<"resumeType", "resumeHeavy">>
      BY <2>2, <2>3, <2>8
    <3> QED
      BY <2>2, <2>3, <2>4, <2>8, <3>1, <3>2 DEF QueueInv
  <2> QED
    BY <2>5, <2>6, <2>7, <2>8
<1>14. HeavyInv'
  BY <1>6, <1>9 DEF HeavyInv, IsHeavy
<1>15. WaitersInv'
  <2> DEFINE Waits(x, q) == IF q = HeavyPool THEN pc'[x] = "waitHeavy"
                                             ELSE pc'[x] = "waitType" /\ typeOf[x] = q
  <2> SUFFICES ASSUME NEW q \in Pools
               PROVE  /\ \A i \in 1 .. Len(waiters'[q]) : Waits(waiters'[q][i], q)
                      /\ \A i, j \in 1 .. Len(waiters'[q]) :
                            waiters'[q][i] = waiters'[q][j] => i = j
    BY DEF WaitersInv, WaitsFor
  <2>1. ASSUME NEW d \in Callers, WaitsFor(d, q), ~(q \in Needs(c) /\ Wakes(d, q))
        PROVE  Waits(d, q)
    <3>1. d # c
      BY <1>1, <2>1 DEF WaitsFor
    <3>2. ~Wakes(d, t) /\ ~(IsHeavy(c) /\ Wakes(d, HeavyPool))
      <4>1. CASE q = HeavyPool
        BY <1>8, <2>1, <4>1 DEF WaitsFor
      <4>2. CASE q # HeavyPool
        BY <1>8, <1>9, <2>1, <4>2 DEF WaitsFor, t
      <4> QED
        BY <4>1, <4>2
    <3>3. pc'[d] = pc[d]
      BY <1>10, <3>1, <3>2
    <3> QED
      BY <2>1, <3>3 DEF WaitsFor
  <2>2. CASE q \in Needs(c) /\ waiters[q] # <<>>
    <3>1. waiters'[q] = Tail(waiters[q])
      BY <1>5, <2>2
    <3> HIDE DEF Waits
    <3> QED
      BY <2>1, <2>2, <3>1, HeadOfWaiters DEF Wakes
  <2>3. CASE ~(q \in Needs(c) /\ waiters[q] # <<>>)
    <3>1. waiters'[q] = waiters[q]
      BY <1>5, <2>3
    <3>2. \A i \in 1 .. Len(waiters[q]) : waiters[q][i] \in Callers /\ WaitsFor(waiters[q][i], q)
      BY DEF WaitersInv
    <3>3. \A d \in Callers : ~(q \in Needs(c) /\ Wakes(d, q))
      BY <2>3 DEF Wakes
    <3> HIDE DEF Waits
    <3> QED
      BY <2>1, <3>1, <3>2, <3>3 DEF WaitersInv
  <2> QED
    BY <2>2, <2>3
<1>16. CountInv'
  <2> SUFFICES ASSUME NEW q \in Pools PROVE inUse'[q] = Cardinality(Holders(q)')
    BY DEF CountInv
  <2>1. ASSUME NEW d \in Callers \ {c}, q \in Needs(d)
        PROVE  pc'[d] \in HeldAt(q) <=> pc[d] \in HeldAt(q)
    <3>1. CASE Wakes(d, t)
      BY <1>8, <3>1 DEF HeldAt
    <3>2. CASE IsHeavy(c) /\ Wakes(d, HeavyPool)
      BY <1>9, <3>2 DEF HeldAt
    <3>3. CASE ~Wakes(d, t) /\ ~(IsHeavy(c) /\ Wakes(d, HeavyPool))
      BY <1>10, <3>3
    <3> QED
      BY <3>1, <3>2, <3>3
  <2>2. Holders(q)' = Holders(q) \ {c}
    <3>1. c \notin Holders(q)'
      BY <1>11 DEF Holders, HeldAt
    <3>2. \A d \in Callers \ {c} : d \in Holders(q)' <=> d \in Holders(q)
      BY <2>1 DEF Holders, HeldAt
    <3>3. Holders(q)' \subseteq Callers /\ Holders(q) \subseteq Callers
      BY DEF Holders
    <3> QED
      BY <3>1, <3>2, <3>3
  <2>3. CASE q \in Needs(c)
    <3>1. Cardinality(Holders(q) \ {c}) = Cardinality(Holders(q)) - 1
      BY <1>3, <2>3, HoldersFinite, FS_RemoveElement
    <3> QED
      BY <1>4, <2>2, <2>3, <3>1 DEF CountInv
  <2>4. CASE q \notin Needs(c)
    <3>1. Holders(q) \ {c} = Holders(q)
      BY <2>4 DEF Holders
    <3> QED
      BY <1>4, <2>2, <2>4, <3>1 DEF CountInv
  <2> QED
    BY <2>3, <2>4
<1>17. RoomInv'
  <2> SUFFICES ASSUME NEW q \in Pools, NEW d \in Callers, Resumes(d, q)'
               PROVE  inUse'[q] < Limit[q]
    BY DEF RoomInv
  <2>1. Wakes(d, t) \/ (IsHeavy(c) /\ Wakes(d, HeavyPool))
    BY <1>1, <1>10, <1>11 DEF Resumes, Due
  <2>2. q \in Needs(c)
    BY <1>8, <1>9, <2>1 DEF Resumes, t
  <2>3. inUse[q] <= Limit[q] /\ inUse[q] \in Nat \ {0} /\ Limit[q] \in Nat
    BY <1>3, <2>2, ConcurrencyAssumption
  <2> QED
    BY <1>4, <2>2, <2>3
<1>18. BusyInv'
  <2> SUFFICES ASSUME NEW q \in Pools, waiters'[q] # <<>>
               PROVE  \/ inUse'[q] >= Limit[q]
                      \/ inUse'[q] + 1 >= Limit[q] /\ \E d \in Callers : Resumes(d, q)'
    BY DEF BusyInv
  <2>1. waiters[q] # <<>>
    BY <1>5
  <2>2. inUse[q] >= Limit[q] /\ inUse[q] \in Nat /\ Limit[q] \in Nat
    BY <1>2, <2>1, ConcurrencyAssumption DEF BusyInv
  <2>3. CASE q \in Needs(c)
    <3>1. PICK d \in Callers : Wakes(d, q)
      BY <2>1, HeadOfWaiters DEF Wakes
    <3>2. Resumes(d, q)'
      <4>1. CASE q = HeavyPool
        BY <1>9, <2>3, <3>1, <4>1 DEF Resumes
      <4>2. CASE q # HeavyPool
        BY <1>8, <2>3, <3>1, <4>2 DEF Resumes, t
      <4> QED
        BY <4>1, <4>2
    <3>3. inUse'[q] + 1 >= Limit[q]
      BY <1>4, <2>2, <2>3
    <3> QED
      BY <3>1, <3>2, <3>3
  <2>4. CASE q \notin Needs(c)
    BY <1>4, <2>2, <2>4
  <2> QED
    BY <2>3, <2>4
<1> QED
  BY <1>12, <1>13, <1>14, <1>15, <1>16, <1>17, <1>18
-----------------------------------------------------------------------------
LEMMA InitInductive == Init => IInv
<1> SUFFICES ASSUME Init PROVE IInv
  OBVIOUS
<1> USE DEF Init
<1>1. TypeOK
  BY ConcurrencyAssumption, EmptySeq DEF TypeOK, PC
<1>2. QueueInv /\ HeavyInv /\ RoomInv /\ BusyInv
  BY DEF QueueInv, HeavyInv, RoomInv, BusyInv, Resumes, Due
<1>3. WaitersInv
  BY DEF WaitersInv
<1>4. CountInv
  <2>1. \A p \in Pools : Holders(p) = {}
    BY DEF Holders, HeldAt
  <2> QED
    BY <2>1, FS_EmptySet DEF CountInv
<1> QED
  BY <1>1, <1>2, <1>3, <1>4 DEF IInv

LEMMA CallStep ==
  ASSUME IInv, NEW c \in Callers, Call(c)
  PROVE  IInv'
<1>1. pc[c] = "idle" /\ \A d \in Callers : pc[d] \notin Due
  BY ShortQueues DEF Call, IInv, QueueInv
<1>2. CASE IsHeavy(c) /\ Acquire(HeavyPool, c, "afterHeavy", "waitHeavy", <<>>)
  BY <1>1, <1>2, PoolsOf, AcquireStep DEF Asks
<1>3. CASE ~IsHeavy(c) /\ Acquire(typeOf[c], c, "afterType", "waitType", <<>>)
  BY <1>1, <1>3, PoolsOf, AcquireStep DEF Asks
<1> QED
  BY <1>2, <1>3 DEF Call, AcquireType

LEMMA MicrotaskStep ==
  ASSUME IInv, Microtask
  PROVE  IInv'
<1>1. micro # <<>> /\ Head(micro) \in Callers
  BY HeadTailProperties DEF IInv, TypeOK, Microtask
<1> DEFINE c == Head(micro)
<1>2. CASE ResumeHeavy(c)
  BY <1>1, <1>2, PoolsOf, ResumeStep DEF ResumeHeavy, Continues
<1>3. CASE ResumeType(c)
  BY <1>1, <1>3, PoolsOf, ResumeStep DEF ResumeType, Continues
<1>4. CASE AfterHeavy(c)
  <2>1. IsHeavy(c) /\ pc[c] = "afterHeavy"
    BY <1>1, <1>4 DEF IInv, HeavyInv, AfterHeavy
  <2>2. Tail(micro) = <<>> /\ \A d \in Callers \ {c} : pc[d] \notin Due
    <3>1. ASSUME NEW d, NEW e, micro = <<d, e>>,
                 <<pc[d], pc[e]>> \in {<<"resumeType", "resumeHeavy">>,
                                      <<"resumeHeavy", "afterType">>, <<"afterType", "afterHeavy">>}
          PROVE  FALSE
      <4>1. c = d
        BY <3>1, ShortQueues
      <4> QED
        BY <2>1, <3>1, <4>1
    <3>2. PICK d \in Callers : micro = <<d>> /\ \A e \in Callers \ {d} : pc[e] \notin Due
      BY <1>1, <3>1 DEF IInv, QueueInv
    <3>3. c = d /\ Tail(micro) = <<>>
      BY <3>2, ShortQueues
    <3> QED
      BY <3>2, <3>3
  <2>3. Acquire(typeOf[c], c, "afterType", "waitType", <<>>)
    BY <1>4, <2>2 DEF AfterHeavy, AcquireType
  <2> QED
    BY <1>1, <2>1, <2>2, <2>3, PoolsOf, AcquireStep DEF Asks
<1>5. CASE AfterType(c)
  BY <1>1, <1>5, AfterTypeStep
<1> QED
  BY <1>2, <1>3, <1>4, <1>5 DEF Microtask

LEMMA StutterStep ==
  ASSUME IInv, UNCHANGED vars
  PROVE  IInv'
<1> USE DEF vars, IInv
<1>1. TypeOK' /\ QueueInv' /\ HeavyInv'
  BY DEF TypeOK, QueueInv, HeavyInv, IsHeavy
<1>2. WaitersInv'
  BY DEF WaitersInv, WaitsFor
<1>3. CountInv'
  <2>1. \A p \in Pools : Holders(p)' = Holders(p)
    BY DEF Holders, HeldAt
  <2> QED
    BY <2>1, CountKept
<1>4. RoomInv' /\ BusyInv'
  BY DEF RoomInv, BusyInv, Resumes
<1> QED
  BY <1>1, <1>2, <1>3, <1>4

(* What the theorems about the pools rest on: a woken call's permit is never *)
(* given to another one.                                                    *)
THEOREM Inductive == Spec => []IInv
<1>1. IInv /\ [Next]_vars => IInv'
  BY CallStep, MicrotaskStep, WorkEndsStep, StutterStep DEF Next
<1> QED
  BY InitInductive, <1>1, PTL DEF Spec

(* The variables of the pools keep their types, and no pool gives more      *)
(* permits than it has.                                                     *)
THEOREM TypeCorrect == Spec => []TypeOK
<1>1. IInv => TypeOK
  BY DEF IInv
<1> QED
  BY Inductive, <1>1, PTL

(* Never more scripts in execution than a limit allows: each of them holds  *)
(* a permit of every pool it counts against.                                *)
THEOREM LimitsAlwaysHold == Spec => []LimitsHold
<1>1. IInv => LimitsHold
  <2> SUFFICES ASSUME IInv, NEW p \in Pools PROVE Cardinality(Executing(p)) <= Limit[p]
    BY DEF LimitsHold
  <2>1. Executing(p) \subseteq Holders(p)
    BY DEF Executing, Holders, HeldAt
  <2>2. Cardinality(Executing(p)) \in Nat
        /\ Cardinality(Executing(p)) <= Cardinality(Holders(p))
    BY <2>1, HoldersFinite, FS_Subset, FS_CardinalityType
  <2>3. Cardinality(Holders(p)) <= Limit[p]
    BY DEF IInv, CountInv, TypeOK
  <2> QED
    BY <2>2, <2>3, HoldersFinite, ConcurrencyAssumption
<1> QED
  BY Inductive, <1>1, PTL

(* No wake-up is lost, whatever the limits and however many calls there are. *)
THEOREM NoPermitIdles == Spec => []NoIdlePermit
<1>1. IInv => NoIdlePermit
  <2> SUFFICES ASSUME IInv, micro = <<>>, NEW p \in Pools, waiters[p] # <<>>
               PROVE  ~HasPermit(p)
    BY DEF NoIdlePermit
  <2>1. \A c \in Callers : ~Resumes(c, p)
    BY ShortQueues DEF IInv, QueueInv, Resumes, Due
  <2> QED
    <3>1. inUse[p] >= Limit[p]
      BY <2>1 DEF IInv, BusyInv
    <3>2. inUse[p] \in Nat /\ Limit[p] \in Nat
      BY ConcurrencyAssumption DEF IInv, TypeOK
    <3> QED
      BY <3>1, <3>2 DEF HasPermit
<1> QED
  BY Inductive, <1>1, PTL

-----------------------------------------------------------------------------
(***************************************************************************)
(* The row of a job tells how its entry ended, for any number of attempts,  *)
(* any answers of the scripts and any updates of the progress under way.    *)
(***************************************************************************)

(* The awaits before the script, in the order of any of the stages.         *)
BeforeScript == {"marking", "permit", "preparing", "optimizing", "gate"}

(* process() is in one of its awaits while BullMQ has the entry active, and *)
(* only then; it is never in an await its stage does not have.              *)
AtInv ==
  /\ at # "idle" <=> entry = "active"
  /\ at \in BeforeScript => \E i \in 1..4 : Steps[i] = at

(* The work after the script begins when the script has ended.              *)
QuietInv == at \in Range(Work) \/ entry = "completed" => script = "none"

(* Once marked as completed without an update under way, nothing is left    *)
(* that could write the row.                                                *)
DoneInv ==
  at \in {"quality", "advancing"} \/ entry = "completed" =>
    racing \/ (writes = {} /\ jobRow = [status |-> "COMPLETED", progress |-> 100])

(* BullMQ and the processor count the attempts apart from each other: they  *)
(* agree on which is the last.                                              *)
CountsInv ==
  /\ entry \in {"waiting", "active", "delayed"} => made < StageAttempts
  /\ at = "retrying" => AttemptNumber < StageAttempts

FailedInv ==
  /\ at = "burying" => jobRow.status = "FAILED"
  /\ entry = "failed" /\ ~unsaved => jobRow.status = "FAILED" /\ \E d \in letters : d.attempts = StageAttempts

AttemptInv == StageTypeOK /\ AtInv /\ QuietInv /\ DoneInv /\ CountsInv /\ FailedInv

-----------------------------------------------------------------------------
(* What comes after an await, stage by stage.                               *)
LEMMA WorkFollows ==
  ASSUME NEW a, NEW b, NEW c, NEW d, NEW e
  PROVE  <<a, b, c, d, e>> \o Work
           = <<a, b, c, d, e, "saving", "completing", "quality", "advancing">>
<1> DEFINE s == <<a, b, c, d, e>>
           t == <<"saving", "completing", "quality", "advancing">>
           whole == <<a, b, c, d, e, "saving", "completing", "quality", "advancing">>
           All == {a, b, c, d, e, "saving", "completing", "quality", "advancing"}
<1>1. /\ s \in Seq(All) /\ Len(s) = 5 /\ s[1] = a /\ s[2] = b /\ s[3] = c /\ s[4] = d /\ s[5] = e
      /\ t \in Seq(All) /\ Len(t) = 4 /\ t[1] = "saving" /\ t[2] = "completing" /\ t[3] = "quality" /\ t[4] = "advancing"
  OBVIOUS
<1>2. /\ whole \in Seq(All) /\ Len(whole) = 9
      /\ \A i \in 1..5 : whole[i] = s[i]
      /\ \A i \in 6..9 : whole[i] = t[i - 5]
  OBVIOUS
<1> HIDE DEF s, t, whole, All
<1>3. /\ s \o t \in Seq(All) /\ Len(s \o t) = 9
      /\ \A i \in 1..9 : (s \o t)[i] = IF i <= 5 THEN s[i] ELSE t[i - 5]
  <2>1. Len(s) + Len(t) = 9 /\ Len(s) = 5
    BY <1>1
  <2>2. s \in Seq(All) /\ t \in Seq(All)
    BY <1>1
  <2>3. /\ s \o t \in Seq(All)
        /\ Len(s \o t) = Len(s) + Len(t)
        /\ \A i \in 1 .. Len(s) + Len(t) : (s \o t)[i] = IF i <= Len(s) THEN s[i] ELSE t[i - Len(s)]
    BY ONLY <2>2, ConcatProperties
  <2> QED
    BY ONLY <2>1, <2>3
<1>4. \A i \in 1..9 : (s \o t)[i] = whole[i]
  <2>1. \A i \in 1..9 : (i <= 5 => i \in 1..5) /\ (~(i <= 5) => i \in 6..9)
    OBVIOUS
  <2> QED
    BY ONLY <1>2, <1>3, <2>1
<1>5. s \o t = whole
  BY ONLY <1>2, <1>3, <1>4, SeqEqual
<1> QED
  BY <1>5 DEF s, t, whole, Work

LEMMA StepsAre ==
  ASSUME stage \in Stages
  PROVE  /\ Len(Steps) = 9
         /\ \A i, j \in 1..8 : Steps[i] = Steps[j] => i = j
         /\ \A i \in 1..4 : Steps[i] \in BeforeScript
         /\ Steps[5] = "script"
         /\ Steps[1] = "marking"
<1> DEFINE S(b, c, d) == <<"marking", b, c, d, "script", "saving", "completing", "quality", "advancing">>
<1>1. /\ YoutubeDownload = S("permit", "preparing", "gate")
      /\ Transcription = S("preparing", "gate", "permit")
      /\ Analysis = Transcription /\ VideoRender = Transcription
      /\ ImageGeneration = S("optimizing", "gate", "permit")
  BY WorkFollows DEF YoutubeDownload, Transcription, Analysis, VideoRender, ImageGeneration
<1>2. \/ stage = "YOUTUBE_DOWNLOAD" /\ Steps = YoutubeDownload
      \/ stage = "GENERATE_IMAGES" /\ Steps = ImageGeneration
      \/ stage \in {"TRANSCRIPTION", "ANALYZE_LYRICS", "RENDER_VIDEO"} /\ Steps = Transcription
  <2>1. stage \in {"YOUTUBE_DOWNLOAD", "TRANSCRIPTION", "ANALYZE_LYRICS", "GENERATE_IMAGES", "RENDER_VIDEO"}
    BY StageAssumption
  <2> QED
    BY <1>1, <2>1 DEF Steps
<1>3. ASSUME NEW b, NEW c, NEW d, Steps = S(b, c, d),
             b # c, b # d, c # d, {b, c, d} \subseteq {"permit", "preparing", "gate", "optimizing"}
      PROVE  /\ Len(Steps) = 9
             /\ \A i, j \in 1..8 : Steps[i] = Steps[j] => i = j
             /\ \A i \in 1..4 : Steps[i] \in BeforeScript
             /\ Steps[5] = "script" /\ Steps[1] = "marking"
  <2>1. /\ Len(Steps) = 9
        /\ Steps[1] = "marking" /\ Steps[2] = b /\ Steps[3] = c /\ Steps[4] = d /\ Steps[5] = "script"
        /\ Steps[6] = "saving" /\ Steps[7] = "completing" /\ Steps[8] = "quality"
    BY ONLY <1>3
  <2>2. \A i \in 1..8 : i \in {1, 2, 3, 4, 5, 6, 7, 8}
    OBVIOUS
  <2>3. \A i \in 1..4 : i \in {1, 2, 3, 4}
    OBVIOUS
  <2>4. \A i, j \in 1..8 : Steps[i] = Steps[j] => i = j
    BY ONLY <1>3, <2>1, <2>2
  <2>5. \A i \in 1..4 : Steps[i] \in BeforeScript
    BY ONLY <1>3, <2>1, <2>3 DEF BeforeScript
  <2> QED
    BY <2>1, <2>4, <2>5
<1> HIDE DEF S
<1> QED
  BY <1>1, <1>2, <1>3

LEMMA StepAfterIs ==
  ASSUME stage \in Stages, NEW step \in BeforeScript, \E i \in 1..4 : Steps[i] = step
  PROVE  /\ StepAfter(step) \in BeforeScript \cup {"script"}
         /\ StepAfter(step) \in BeforeScript => \E i \in 1..4 : Steps[i] = StepAfter(step)
<1>1. PICK i \in 1..4 : Steps[i] = step
  OBVIOUS
<1>2. Len(Steps) - 1 = 8
  BY StepsAre
<1>3. \A j \in 1..8 : Steps[j] = step <=> j = i
  BY <1>1, StepsAre
<1>4. (CHOOSE j \in 1..8 : Steps[j] = step) = i
  BY <1>1, <1>3
<1>5. StepAfter(step) = Steps[1 + i]
  BY <1>2, <1>4 DEF StepAfter
<1>6. PICK k \in 1..5 : k = 1 + i
  OBVIOUS
<1>7. StepAfter(step) = Steps[k]
  BY <1>5, <1>6
<1>8. k = 5 \/ k \in 1..4
  OBVIOUS
<1> QED
  BY ONLY <1>7, <1>8, StepsAre, stage \in Stages DEF BeforeScript

LEMMA AwaitsAre ==
  /\ Range(Work) = {"saving", "completing", "quality", "advancing"}
  /\ Awaits = BeforeScript \cup {"script"} \cup Range(Work)
<1>1. Range(Work) = {"saving", "completing", "quality", "advancing"}
  <2>1. DOMAIN Work = {1, 2, 3, 4} /\ Work[1] = "saving" /\ Work[2] = "completing" /\ Work[3] = "quality" /\ Work[4] = "advancing"
    BY DEF Work
  <2> QED
    BY ONLY <2>1 DEF Range
<1>2. YoutubeDownload = <<"marking", "permit", "preparing", "gate", "script",
                          "saving", "completing", "quality", "advancing">>
  BY WorkFollows DEF YoutubeDownload
<1>3. DOMAIN YoutubeDownload = 1..9 /\ \A i \in 1..9 : i \in {1, 2, 3, 4, 5, 6, 7, 8, 9}
  BY <1>2
<1>4. Range(YoutubeDownload) = {"marking", "permit", "preparing", "gate", "script",
                                "saving", "completing", "quality", "advancing"}
  <2>1. \A v : v \in Range(YoutubeDownload) <=> \E i \in 1..9 : YoutubeDownload[i] = v
    BY ONLY <1>3 DEF Range
  <2> HIDE DEF Range
  <2>2. /\ YoutubeDownload[1] = "marking" /\ YoutubeDownload[2] = "permit" /\ YoutubeDownload[3] = "preparing"
        /\ YoutubeDownload[4] = "gate" /\ YoutubeDownload[5] = "script" /\ YoutubeDownload[6] = "saving"
        /\ YoutubeDownload[7] = "completing" /\ YoutubeDownload[8] = "quality" /\ YoutubeDownload[9] = "advancing"
    BY ONLY <1>2
  <2>3. {1, 2, 3, 4, 5, 6, 7, 8, 9} = 1..9
    OBVIOUS
  <2> QED
    BY ONLY <2>1, <2>2, <2>3, <1>3
<1> QED
  BY ONLY <1>1, <1>4 DEF Awaits, BeforeScript

-----------------------------------------------------------------------------
(* Every variable keeps its type.                                           *)
LEMMA Thrown ==
  ASSUME StageTypeOK, NEW text \in Texts, Throw(text)
  PROVE  /\ error' \in Texts /\ breaker' \subseteq {"success", "failure"} /\ at' \in CatchAwaits
         /\ at' \in {"retrying", "failing"} /\ (at' = "retrying" => AttemptNumber < StageAttempts)
BY DEF StageTypeOK, Throw, CatchAwaits, HasRemainingAttempts, AttemptNumber

LEMMA RowsAre ==
  ASSUME StageTypeOK, NEW p \in 0..100, NEW status \in {"PENDING", "PROCESSING", "COMPLETED", "FAILED"}
  PROVE  /\ [jobRow EXCEPT !.progress = p] \in [status : {"PENDING", "PROCESSING", "COMPLETED", "FAILED"}, progress : 0..100]
         /\ [jobRow EXCEPT !.status = status] \in [status : {"PENDING", "PROCESSING", "COMPLETED", "FAILED"}, progress : 0..100]
         /\ [jobRow EXCEPT !.progress = p].status = jobRow.status
         /\ [jobRow EXCEPT !.status = status].status = status
BY DEF StageTypeOK

LEMMA CompletedRowIs ==
  ASSUME StageTypeOK
  PROVE  CompletedRow = [status |-> "COMPLETED", progress |-> 100]
<1>1. PICK a \in {"PENDING", "PROCESSING", "COMPLETED", "FAILED"}, b \in 0..100 :
        jobRow = [status |-> a, progress |-> b]
  BY DEF StageTypeOK
<1>2. CompletedRow = [[status |-> a, progress |-> b] EXCEPT !.status = "COMPLETED", !.progress = 100]
  BY <1>1 DEF CompletedRow
<1> QED
  BY ONLY <1>2

LEMMA Moved ==
  ASSUME StageTypeOK, AtInv, at \in BeforeScript, at' = StepAfter(at)
  PROVE  /\ at' \in BeforeScript \cup {"script"} /\ at' \in Awaits
         /\ at' \in BeforeScript => \E i \in 1..4 : Steps[i] = at'
BY StepAfterIs, AwaitsAre DEF StageTypeOK, AtInv

LEMMA Reported ==
  ASSUME StageTypeOK, ProgressMessage
  PROVE  reported' \in 0..95 /\ messages' \in 0..MaxMessages /\ writes' \subseteq Write
<1>0. reported \in 0..95 /\ messages \in 0..MaxMessages /\ messages < MaxMessages /\ MaxMessages \in Nat
      /\ Segments \subseteq Nat /\ Percents \subseteq 0..100 /\ writes \subseteq Write
      /\ messages' = messages + 1
  BY StageAssumption DEF StageTypeOK, ProgressMessage
<1>1. PICK progress \in
          CASE stage = "TRANSCRIPTION"   -> {AtMost(95, AtLeast(15, 10 + 2 * s)) : s \in Segments}
                                            \cup {AtMost(95, reported + 1)}
            [] stage = "GENERATE_IMAGES" -> Percents
            [] OTHER                     -> {} :
          /\ reported' = IF stage = "TRANSCRIPTION" THEN progress ELSE reported
          /\ writes' = writes \cup {[n |-> messages + 1, progress |-> progress]}
  BY DEF ProgressMessage
<1>2. progress \in 0..100 /\ (stage = "TRANSCRIPTION" => progress \in 0..95)
  <2>1. CASE stage = "TRANSCRIPTION"
    <3>1. \/ \E s \in Segments : progress = AtMost(95, AtLeast(15, 10 + 2 * s))
          \/ progress = AtMost(95, reported + 1)
      BY <1>1, <2>1
    <3>2. ASSUME progress = AtMost(95, reported + 1) PROVE progress \in 0..95
      BY <1>0, <3>2 DEF AtMost
    <3>3. ASSUME NEW s \in Segments, progress = AtMost(95, AtLeast(15, 10 + 2 * s)) PROVE progress \in 0..95
      <4>1. s \in Nat
        BY <1>0
      <4>2. AtLeast(15, 10 + 2 * s) \in Nat
        BY <4>1 DEF AtLeast
      <4> QED
        BY <3>3, <4>2 DEF AtMost
    <3>4. progress \in 0..95
      BY <3>1, <3>2, <3>3 
    <3> QED
      BY <3>4
  <2>2. CASE stage = "GENERATE_IMAGES"
    BY <1>0, <1>1, <2>2
  <2>3. CASE stage \notin {"TRANSCRIPTION", "GENERATE_IMAGES"}
    <3>1. progress \in {}
      BY <1>1, <2>3
    <3> QED
      BY <3>1
  <2> QED
    BY <2>1, <2>2, <2>3
<1>3. messages + 1 \in 1..MaxMessages
  BY <1>0
<1>4. [n |-> messages + 1, progress |-> progress] \in Write
  BY <1>2, <1>3 DEF Write
<1> QED
  BY <1>0, <1>1, <1>2, <1>3, <1>4

(* The attempts of an entry, as BullMQ counts them when process() rejects.  *)
LEMMA Rejected ==
  ASSUME StageTypeOK, CountsInv, entry = "active", Reject
  PROVE  /\ made' \in 0..StageAttempts /\ at' = "idle"
         /\ \/ entry' = "delayed" /\ made' < StageAttempts
            \/ entry' = "failed" /\ AttemptNumber = StageAttempts
         /\ AttemptNumber \in 1..StageAttempts
<1>1. made \in Nat /\ StageAttempts \in Nat /\ made < StageAttempts
  BY StageAssumption DEF StageTypeOK, CountsInv
<1>2. at' = "idle" /\ made' = made + 1 /\ entry' = IF made + 1 < StageAttempts THEN "delayed" ELSE "failed"
  BY DEF Reject
<1> QED
  BY ONLY <1>1, <1>2 DEF AttemptNumber

LEMMA AttemptTypes ==
  ASSUME StageTypeOK, AtInv, CountsInv, [StageNext]_stageVars
  PROVE  StageTypeOK'
<1> DEFINE JobRows == [status : {"PENDING", "PROCESSING", "COMPLETED", "FAILED"}, progress : 0..100]
           Lasts == [status : {"none", "processing", "completed", "failed"}, progress : 0..100]
           Letters == [attempts : 1..StageAttempts, category : {"permanent", "transient", "unknown"}]
<1>0. /\ jobRow \in JobRows /\ last \in Lasts /\ script \in {"none", "running", "orphan"}
      /\ Begun \in 0..100 /\ 100 \in 0..100 /\ 0 \in 0..100 /\ 10 \in 0..95
  BY DEF StageTypeOK, Begun
<1>a. Awaits = {"marking", "permit", "preparing", "optimizing", "gate", "script",
                "saving", "completing", "quality", "advancing"}
  BY AwaitsAre DEF BeforeScript
<1>l. \A status \in {"none", "processing", "completed", "failed"}, p \in 0..100 :
        [status |-> status, progress |-> p] \in Lasts
  OBVIOUS
<1>r. /\ \A p \in 0..100 : [jobRow EXCEPT !.progress = p] \in JobRows
      /\ \A status \in {"PENDING", "PROCESSING", "COMPLETED", "FAILED"} : [jobRow EXCEPT !.status = status] \in JobRows
      /\ CompletedRow \in JobRows
  <2>1. [status |-> "COMPLETED", progress |-> 100] \in JobRows
    OBVIOUS
  <2>2. CompletedRow \in JobRows
    BY ONLY StageTypeOK, <2>1, CompletedRowIs
  <2>3. ASSUME NEW p \in 0..100 PROVE [jobRow EXCEPT !.progress = p] \in JobRows
    BY ONLY <1>0, <2>3
  <2>4. ASSUME NEW status \in {"PENDING", "PROCESSING", "COMPLETED", "FAILED"}
        PROVE  [jobRow EXCEPT !.status = status] \in JobRows
    BY ONLY <1>0, <2>4
  <2> QED
    BY <2>2, <2>3, <2>4
<1>t. {{}, {"permanent"}, {"transient"}} \subseteq Texts /\ \A r \in Results : Assessment(r).text \in Texts
  <2>1. {{}, {"permanent"}, {"transient"}} \subseteq Texts
    BY DEF Texts
  <2>2. \A r \in Results : r.text \in Texts
    BY ResultAssumption DEF ResultType
  <2> QED
    BY <2>1, <2>2 DEF Assessment
<1> HIDE DEF JobRows, Lasts
<1>i. /\ StageTypeOK <=>
           /\ stage \in Stages /\ jobRow \in JobRows /\ last \in Lasts
           /\ entry \in {"waiting", "active", "delayed", "completed", "failed"}
           /\ made \in 0..StageAttempts /\ at \in Awaits \cup CatchAwaits \cup {"idle"}
           /\ error \in Texts /\ script \in {"none", "running", "orphan"}
           /\ reported \in 0..95 /\ messages \in 0..MaxMessages /\ writes \subseteq Write
           /\ breaker \subseteq {"success", "failure"} /\ letters \subseteq Letters
           /\ {racing, unsaved} \subseteq BOOLEAN
      /\ StageTypeOK' <=>
           /\ stage' \in Stages /\ jobRow' \in JobRows /\ last' \in Lasts
           /\ entry' \in {"waiting", "active", "delayed", "completed", "failed"}
           /\ made' \in 0..StageAttempts /\ at' \in Awaits \cup CatchAwaits \cup {"idle"}
           /\ error' \in Texts /\ script' \in {"none", "running", "orphan"}
           /\ reported' \in 0..95 /\ messages' \in 0..MaxMessages /\ writes' \subseteq Write
           /\ breaker' \subseteq {"success", "failure"} /\ letters' \subseteq Letters
           /\ {racing', unsaved'} \subseteq BOOLEAN
  BY DEF StageTypeOK, JobRows, Lasts
<1> HIDE DEF Letters
<1>1. CASE TakeEntry
  BY <1>0, <1>a, <1>i, <1>1 DEF TakeEntry
<1>2. CASE MarkProcessing \/ Prepare
  <2>1. at' = StepAfter(at) /\ at \in BeforeScript
    BY <1>2 DEF MarkProcessing, Prepare, BeforeScript
  <2>2. at' \in Awaits
    BY <2>1, Moved
  <2>3. jobRow' \in JobRows /\ last' \in Lasts
    <3>1. CASE MarkProcessing
      BY <1>0, <1>l, <1>r, <3>1 DEF MarkProcessing, Emit
    <3>2. CASE Prepare
      BY <1>0, <1>l, <1>r, <3>2 DEF Prepare, SaveProgress, Emit
    <3> QED
      BY <1>2, <3>1, <3>2
  <2>4. UNCHANGED <<stage, entry, made, error, script, reported, messages, writes, breaker, letters, racing, unsaved>>
    BY <1>2 DEF MarkProcessing, Prepare
  <2> QED
    BY <1>i, <2>2, <2>3, <2>4
<1>3. CASE Continue
  <2>1. at' = StepAfter(at) /\ at \in BeforeScript
    BY <1>3 DEF Continue, BeforeScript
  <2>2. at' \in Awaits
    BY <2>1, Moved
  <2> QED
    BY <1>0, <1>i, <1>3, <2>2 DEF Continue
<1>4. CASE Gate
  <2>1. CASE at' = StepAfter("gate") /\ UNCHANGED <<error, breaker>>
    <3>1. at' \in Awaits
      BY <1>4, <2>1, Moved DEF Gate, BeforeScript
    <3> QED
      BY <1>0, <1>i, <1>4, <2>1, <3>1 DEF Gate
  <2>2. CASE Throw({"transient"}) /\ UNCHANGED script
    BY <1>0, <1>i, <1>t, <1>4, <2>2, Thrown DEF Gate
  <2> QED
    BY <1>4, <2>1, <2>2 DEF Gate
<1>5. CASE ProgressMessage
  BY <1>i, <1>5, Reported DEF ProgressMessage
<1>6. ASSUME NEW w \in writes, WriteLands(w) PROVE StageTypeOK'
  <2>1. w.progress \in 0..100
    BY <1>i DEF Write
  <2> QED
    BY <1>i, <1>l, <1>r, <1>6, <2>1 DEF WriteLands, SaveProgress, Emit
<1>7. CASE ScriptFails
  <2>1. PICK text \in Texts : Throw(text)
    BY <1>t, <1>7 DEF ScriptFails
  <2> QED
    BY <1>i, <1>7, <2>1, Thrown DEF ScriptFails
<1>8. CASE OrphanEnds
  BY <1>i, <1>8 DEF OrphanEnds
<1>9. CASE ScriptEnds
  <2>1. CASE \E text \in Texts : Throw(text)
    BY <1>i, <1>9, <2>1, Thrown DEF ScriptEnds
  <2>2. CASE at' = "saving" /\ UNCHANGED <<error, breaker>>
    BY <1>a, <1>i, <1>9, <2>2 DEF ScriptEnds
  <2> QED
    BY <1>t, <1>9, <2>1, <2>2 DEF ScriptEnds
<1>10. CASE SaveAll \/ MarkCompleted
  <2>1. CASE SaveAll
    BY <1>0, <1>a, <1>i, <1>r, <2>1 DEF SaveAll, SaveProgress
  <2>2. CASE MarkCompleted
    BY <1>a, <1>i, <1>r, <2>2 DEF MarkCompleted
  <2> QED
    BY <1>10, <2>1, <2>2
<1>11. CASE Announce \/ Advance
  BY <1>0, <1>a, <1>i, <1>l, <1>11 DEF Announce, Advance, Emit
<1>12. CASE CallFails
  <2>1. PICK text \in Texts : Throw(text)
    BY <1>t, <1>12 DEF CallFails
  <2> QED
    BY <1>i, <1>12, <2>1, Thrown DEF CallFails
<1>13. CASE AnnounceRetry \/ CatchFails
  <2>1. entry = "active" /\ Reject
    BY <1>13 DEF AnnounceRetry, CatchFails, CatchAwaits, AtInv
  <2> QED
    BY <1>0, <1>i, <1>l, <1>r, <1>13, <2>1, Rejected DEF AnnounceRetry, CatchFails, SaveProgress, Emit
<1>14. CASE MarkFailed
  BY <1>i, <1>r, <1>14 DEF MarkFailed, CatchAwaits
<1>15. CASE Bury
  <2>1. entry = "active" /\ Reject
    BY <1>15 DEF Bury, AtInv
  <2>2. [attempts |-> AttemptNumber, category |-> Classify(error)] \in Letters
    BY <2>1, Rejected DEF Classify, Letters
  <2> QED
    BY <1>0, <1>i, <1>l, <1>15, <2>1, <2>2, Rejected DEF Bury, Emit
<1>16. CASE Backoff
  BY <1>i, <1>16 DEF Backoff
<1>17. CASE UNCHANGED stageVars
  BY <1>i, <1>17 DEF stageVars
<1> QED
  BY <1>1, <1>2, <1>3, <1>4, <1>5, <1>6, <1>7, <1>8, <1>9, <1>10, <1>11, <1>12, <1>13, <1>14, <1>15,
     <1>16, <1>17 DEF StageNext

-----------------------------------------------------------------------------
(* An await of the try block fails.                                         *)
LEMMA ThrowKeeps ==
  ASSUME AttemptInv, entry = "active", NEW text \in Texts, Throw(text),
         UNCHANGED <<stage, jobRow, entry, made, letters, racing, unsaved>>
  PROVE  AtInv' /\ QuietInv' /\ DoneInv' /\ CountsInv' /\ FailedInv'
<1>1. at' \in {"retrying", "failing"} /\ (at' = "retrying" => AttemptNumber < StageAttempts)
  BY Thrown DEF AttemptInv
<1> QED
  BY <1>1, AwaitsAre DEF AttemptInv, AtInv, QuietInv, DoneInv, CountsInv, FailedInv,
     BeforeScript, AttemptNumber

(* An await before the script is over.                                      *)
LEMMA MoveKeeps ==
  ASSUME AttemptInv, at \in BeforeScript, at' = StepAfter(at), jobRow'.status = jobRow.status \/ at = "marking",
         UNCHANGED <<stage, entry, made, letters, racing, unsaved>>
  PROVE  AtInv' /\ QuietInv' /\ DoneInv' /\ CountsInv' /\ FailedInv'
<1>1. /\ at' \in BeforeScript \cup {"script"}
      /\ at' \in BeforeScript => \E i \in 1..4 : Steps[i] = at'
  BY Moved DEF AttemptInv
<1>2. entry = "active" /\ Steps' = Steps
  BY DEF AttemptInv, AtInv, BeforeScript, Steps
<1> QED
  BY <1>1, <1>2, AwaitsAre DEF AttemptInv, AtInv, QuietInv, DoneInv, CountsInv, FailedInv,
     BeforeScript, AttemptNumber

(* Everything but the row, the writes and the script stays.                 *)
LEMMA ProgressKeeps ==
  ASSUME AttemptInv, UNCHANGED <<stage, at, entry, made, letters, racing, unsaved>>, jobRow'.status = jobRow.status,
         script = "none" => script' = "none",
         writes = {} /\ script = "none" => writes' = {} /\ jobRow' = jobRow
  PROVE  AtInv' /\ QuietInv' /\ DoneInv' /\ CountsInv' /\ FailedInv'
<1>1. Steps' = Steps
  BY DEF Steps
<1>2. AtInv' /\ QuietInv' /\ CountsInv' /\ FailedInv'
  BY <1>1 DEF AttemptInv, AtInv, QuietInv, CountsInv, FailedInv, AttemptNumber
<1>3. DoneInv'
  BY AwaitsAre DEF AttemptInv, QuietInv, DoneInv
<1> QED
  BY <1>2, <1>3

LEMMA AttemptStep == AttemptInv /\ [StageNext]_stageVars => AttemptInv'
<1> SUFFICES ASSUME AttemptInv, [StageNext]_stageVars
             PROVE  AtInv' /\ QuietInv' /\ DoneInv' /\ CountsInv' /\ FailedInv'
  BY AttemptTypes DEF AttemptInv
<1>0. StageTypeOK /\ AtInv /\ QuietInv /\ DoneInv /\ CountsInv /\ FailedInv
  BY DEF AttemptInv
<1>t. {{}, {"permanent"}, {"transient"}} \subseteq Texts /\ \A r \in Results : Assessment(r).text \in Texts
  <2>1. {{}, {"permanent"}, {"transient"}} \subseteq Texts
    BY DEF Texts
  <2>2. \A r \in Results : r.text \in Texts
    BY ResultAssumption DEF ResultType
  <2> QED
    BY <2>1, <2>2 DEF Assessment
<1>e. at # "idle" => entry = "active"
  BY <1>0 DEF AtInv
<1>m. 0 \in 0..100 /\ 100 \in 0..100 /\ Begun \in 0..100
  BY DEF Begun
<1>1. CASE TakeEntry
  <2>1. Steps[1] = "marking" /\ Steps' = Steps
    BY <1>0, <1>1, StepsAre DEF StageTypeOK, TakeEntry, Steps
  <2>2. at' = "marking" /\ entry' = "active" /\ entry = "waiting"
        /\ UNCHANGED <<stage, jobRow, made, script, writes, letters, racing>>
    BY <1>1 DEF TakeEntry
  <2>3. AtInv'
    BY <2>1, <2>2 DEF AtInv
  <2> QED
    BY <1>0, <2>2, <2>3, AwaitsAre DEF QuietInv, DoneInv, CountsInv, FailedInv
<1>2. CASE MarkProcessing \/ Prepare
  <2>1. /\ at' = StepAfter(at) /\ at \in BeforeScript
        /\ jobRow'.status = jobRow.status \/ at = "marking"
    BY <1>0, <1>m, <1>2, RowsAre DEF MarkProcessing, Prepare, BeforeScript, SaveProgress
  <2> QED
    BY <2>1, <1>2, MoveKeeps DEF MarkProcessing, Prepare
<1>3. CASE Continue
  <2>1. at' = StepAfter(at) /\ at \in BeforeScript
    BY <1>3 DEF Continue, BeforeScript
  <2> QED
    BY <2>1, <1>3, MoveKeeps DEF Continue
<1>4. CASE Gate
  <2>1. CASE at' = StepAfter("gate")
    <3>1. at' = StepAfter(at) /\ at \in BeforeScript
      BY <2>1, <1>4 DEF Gate, BeforeScript
    <3> QED
      BY <3>1, <1>4, MoveKeeps DEF Gate
  <2>2. CASE Throw({"transient"})
    BY <1>e, <1>t, <1>4, <2>2, ThrowKeeps DEF Gate
  <2> QED
    BY <1>4, <2>1, <2>2 DEF Gate
<1>5. CASE ProgressMessage
  BY <1>5, ProgressKeeps DEF ProgressMessage
<1>6. ASSUME NEW w \in writes, WriteLands(w)
      PROVE  AtInv' /\ QuietInv' /\ DoneInv' /\ CountsInv' /\ FailedInv'
  <2>1. w.progress \in 0..100
    BY <1>0 DEF StageTypeOK, Write
  <2>2. jobRow'.status = jobRow.status
    BY <1>0, <1>6, <2>1, RowsAre DEF WriteLands, SaveProgress
  <2> QED
    BY <1>6, <2>2, ProgressKeeps DEF WriteLands
<1>7. CASE ScriptFails
  <2>1. PICK text \in Texts : Throw(text)
    BY <1>t, <1>7 DEF ScriptFails
  <2> QED
    BY <1>e, <1>7, <2>1, ThrowKeeps DEF ScriptFails
<1>8. CASE OrphanEnds
  BY <1>8, ProgressKeeps DEF OrphanEnds
<1>9. CASE ScriptEnds
  <2>1. CASE \E text \in Texts : Throw(text)
    BY <1>e, <1>9, <2>1, ThrowKeeps DEF ScriptEnds
  <2>2. CASE at' = "saving" /\ UNCHANGED <<error, breaker>>
    BY <1>0, <1>9, <2>2, AwaitsAre DEF ScriptEnds, AtInv, QuietInv, DoneInv, CountsInv,
       FailedInv, BeforeScript
  <2> QED
    BY <1>t, <1>9, <2>1, <2>2 DEF ScriptEnds
<1>10. CASE SaveAll
  <2>1. jobRow'.status = jobRow.status
    BY <1>0, <1>m, <1>10, RowsAre DEF SaveAll, SaveProgress
  <2> QED
    BY <1>0, <1>10, <2>1, AwaitsAre DEF SaveAll, AtInv, QuietInv, DoneInv, CountsInv, FailedInv, BeforeScript
<1>11. CASE MarkCompleted
  <2>1. jobRow' = [status |-> "COMPLETED", progress |-> 100]
    BY <1>0, <1>11, CompletedRowIs DEF MarkCompleted
  <2>2. racing' \/ writes' = {}
    BY <1>11 DEF MarkCompleted
  <2> QED
    BY <1>0, <1>11, <2>1, <2>2, AwaitsAre
    DEF MarkCompleted, AtInv, QuietInv, DoneInv, CountsInv, FailedInv, BeforeScript
<1>12. CASE Announce \/ Advance
  BY <1>0, <1>12, AwaitsAre DEF Announce, Advance, AtInv, QuietInv, DoneInv, CountsInv,
     FailedInv, BeforeScript
<1>13. CASE CallFails
  <2>1. PICK text \in Texts : Throw(text)
    BY <1>t, <1>13 DEF CallFails
  <2>2. at # "idle"
    BY <1>13, AwaitsAre DEF CallFails, BeforeScript
  <2> QED
    BY <1>e, <1>13, <2>1, <2>2, ThrowKeeps DEF CallFails
<1>14. CASE AnnounceRetry \/ CatchFails \/ Bury
  <2>1. entry = "active" /\ Reject /\ at \in CatchAwaits
    BY <1>e, <1>14 DEF AnnounceRetry, CatchFails, Bury, CatchAwaits
  <2>2. /\ at' = "idle"
        /\ \/ entry' = "delayed" /\ made' < StageAttempts
           \/ entry' = "failed" /\ AttemptNumber = StageAttempts
    BY <1>0, <2>1, Rejected
  <2>3. AtInv' /\ QuietInv' /\ DoneInv' /\ CountsInv'
    BY <2>2, AwaitsAre DEF AtInv, QuietInv, DoneInv, CountsInv, BeforeScript
  <2>4. FailedInv'
    <3>1. CASE AnnounceRetry
      <4>1. AttemptNumber < StageAttempts /\ AttemptNumber \in Nat /\ StageAttempts \in Nat
        BY <1>0, <3>1, StageAssumption DEF AnnounceRetry, CountsInv, AttemptNumber, StageTypeOK
      <4>2. entry' = "delayed"
        BY <2>2, <4>1
      <4> QED
        BY <2>2, <4>2 DEF FailedInv
    <3>2. CASE CatchFails
      BY <2>2, <3>2 DEF CatchFails, FailedInv
    <3>3. CASE Bury
      <4>1. [attempts |-> AttemptNumber, category |-> Classify(error)] \in letters' /\ jobRow' = jobRow /\ jobRow.status = "FAILED"
        BY <1>0, <3>3 DEF Bury, FailedInv
      <4> QED
        BY <2>2, <4>1 DEF FailedInv
    <3> QED
      BY <1>14, <3>1, <3>2, <3>3
  <2> QED
    BY <2>3, <2>4
<1>15. CASE MarkFailed
  <2>1. jobRow'.status = "FAILED"
    BY <1>0, <1>m, <1>15, RowsAre DEF MarkFailed
  <2> QED
    BY <1>0, <1>e, <1>15, <2>1, AwaitsAre DEF MarkFailed, AtInv, QuietInv, DoneInv, CountsInv,
       FailedInv, BeforeScript
<1>16. CASE Backoff
  <2>1. Steps' = Steps
    BY <1>16 DEF Backoff, Steps
  <2> QED
    BY <1>0, <1>16, <2>1, AwaitsAre DEF Backoff, AtInv, QuietInv, DoneInv, CountsInv, FailedInv, AttemptNumber
<1>17. CASE UNCHANGED stageVars
  BY <1>17, ProgressKeeps DEF stageVars
<1> QED
  BY <1>1, <1>2, <1>3, <1>4, <1>5, <1>6, <1>7, <1>8, <1>9, <1>10, <1>11, <1>12, <1>13, <1>14, <1>15,
     <1>16, <1>17 DEF StageNext

(* The row of a job tells in the end how its entry ended, for any number of *)
(* attempts and progress messages and whatever a script may answer.         *)
THEOREM RowAlwaysTells == StageSpec => []RowTellsOutcome
<1>1. StageInit => AttemptInv
  <2> SUFFICES ASSUME StageInit PROVE AttemptInv
    OBVIOUS
  <2>1. StageTypeOK
    <3>1. /\ jobRow \in [status : {"PENDING", "PROCESSING", "COMPLETED", "FAILED"}, progress : 0..100]
          /\ last \in [status : {"none", "processing", "completed", "failed"}, progress : 0..100]
      BY DEF StageInit
    <3>2. made \in 0..StageAttempts /\ messages \in 0..MaxMessages /\ reported \in 0..95
      BY StageAssumption DEF StageInit
    <3>3. error \in Texts
      BY DEF StageInit, Texts
    <3> QED
      BY <3>1, <3>2, <3>3 DEF StageInit, StageTypeOK
  <2> QED
    BY <2>1, StageAssumption, AwaitsAre
    DEF StageInit, AttemptInv, AtInv, QuietInv, DoneInv, CountsInv, FailedInv, BeforeScript
<1>2. AttemptInv => RowTellsOutcome
  BY DEF AttemptInv, DoneInv, FailedInv, RowTellsOutcome
<1> QED
  BY <1>1, <1>2, AttemptStep, PTL DEF StageSpec
=============================================================================
