--------------------------- MODULE JobConcurrency ---------------------------
(***************************************************************************)
(* JobConcurrencyService: how many scripts may run at once. A call of       *)
(* runWithLimits takes a permit of the heavy pool if its job is a heavy     *)
(* one, then a permit of its job type's pool, runs its script, and gives    *)
(* the permits back in the opposite order.                                  *)
(*                                                                          *)
(* The pools are plain fields of one Node process: what keeps them right is *)
(* the order of its microtasks. `micro` is the queue of the calls whose     *)
(* continuation is due; a call from outside and the end of a script are     *)
(* events of their own and find it empty.                                   *)
(***************************************************************************)
EXTENDS Naturals, Sequences, FiniteSets

CONSTANTS
  Callers,    \* calls that may be in progress at the same time
  Types,      \* job types
  Heavy,      \* the types that also count against the global cap
  HeavyPool,  \* the pool of that cap
  typeOf,     \* the job type of every caller
  Limit       \* the permits of every pool

Pools == Types \cup {HeavyPool}

ASSUME ConcurrencyAssumption ==
  /\ IsFiniteSet(Callers)
  /\ Heavy \subseteq Types
  /\ HeavyPool \notin Types
  /\ typeOf \in [Callers -> Types]
  /\ Limit \in [Pools -> Nat \ {0}]

VARIABLES
  inUse,    \* PermitPool.inUse
  waiters,  \* PermitPool.waiters, the callers whose resolve function it holds
  pc,       \* of every call: the await it is in, or what its continuation is
  micro     \* the microtask queue

vars == <<inUse, waiters, pc, micro>>

(* resume*: inside acquire, past the await of the waiter's promise;         *)
(* after*: in runWithLimits, past the await of acquire.                     *)
PC == {"idle", "waitHeavy", "resumeHeavy", "afterHeavy",
       "waitType", "resumeType", "afterType", "running"}

TypeOK ==
  /\ inUse \in [Pools -> Nat]
  /\ \A p \in Pools : inUse[p] <= Limit[p]
  /\ waiters \in [Pools -> Seq(Callers)]
  /\ pc \in [Callers -> PC]
  /\ micro \in Seq(Callers)

Init ==
  /\ inUse = [p \in Pools |-> 0]
  /\ waiters = [p \in Pools |-> <<>>]
  /\ pc = [c \in Callers |-> "idle"]
  /\ micro = <<>>

IsHeavy(c) == typeOf[c] \in Heavy

(* The pools a call takes a permit of.                                      *)
Needs(c) == IF IsHeavy(c) THEN {typeOf[c], HeavyPool} ELSE {typeOf[c]}

(* Mutation: the last to come is the first to be served.                    *)
Queued_front(p, c) == [waiters EXCEPT ![p] = <<c>> \o @]

(* waiters.push                                                             *)
Queued(p, c) == [waiters EXCEPT ![p] = Append(@, c)]

HasPermit(p) == inUse[p] < Limit[p]

Take(p) == inUse' = [inUse EXCEPT ![p] = @ + 1]

Goto(c, at) == pc' = [pc EXCEPT ![c] = at]

(* PermitPool.acquire up to its first await, or to its return.              *)
Acquire(p, c, after, wait, rest) ==
  \/ /\ HasPermit(p)
     /\ Take(p)
     /\ Goto(c, after)
     /\ micro' = Append(rest, c)
     /\ UNCHANGED waiters
  \/ /\ ~HasPermit(p)
     /\ waiters' = Queued(p, c)
     /\ Goto(c, wait)
     /\ micro' = rest
     /\ UNCHANGED inUse

AcquireType(c, rest) == Acquire(typeOf[c], c, "afterType", "waitType", rest)

-----------------------------------------------------------------------------
(* A processor calls runWithLimits.                                         *)
Call(c) ==
  /\ micro = <<>>
  /\ pc[c] = "idle"
  /\ \/ /\ IsHeavy(c)
        /\ Acquire(HeavyPool, c, "afterHeavy", "waitHeavy", <<>>)
     \/ /\ ~IsHeavy(c)
        /\ AcquireType(c, <<>>)

(* Mutation: a woken waiter does not count its permit.                      *)
Resume_uncounted(p, c, after) ==
  /\ Goto(c, after)
  /\ micro' = Append(Tail(micro), c)
  /\ UNCHANGED <<inUse, waiters>>

(* The head of the microtask queue continues: a waiter takes its permit.    *)
Resume(p, c, after) ==
  /\ Take(p)
  /\ Goto(c, after)
  /\ micro' = Append(Tail(micro), c)
  /\ UNCHANGED waiters

ResumeHeavy(c) == pc[c] = "resumeHeavy" /\ Resume(HeavyPool, c, "afterHeavy")
ResumeType(c)  == pc[c] = "resumeType" /\ Resume(typeOf[c], c, "afterType")

AfterHeavy(c) == pc[c] = "afterHeavy" /\ AcquireType(c, Tail(micro))

AfterType(c) ==
  /\ pc[c] = "afterType"
  /\ Goto(c, "running")
  /\ micro' = Tail(micro)
  /\ UNCHANGED <<inUse, waiters>>

Microtask ==
  /\ micro # <<>>
  /\ \/ ResumeHeavy(Head(micro)) \/ AfterHeavy(Head(micro))
     \/ ResumeType(Head(micro)) \/ AfterType(Head(micro))

(* waiters.shift: the caller that a release of p wakes, if any.             *)
Woken(p) == IF waiters[p] = <<>> THEN <<>> ELSE <<Head(waiters[p])>>

(* The script ends, in success or not: the finally block gives the permit   *)
(* of the type back, then the heavy one.                                    *)
WorkEnds(c) ==
  /\ micro = <<>>
  /\ pc[c] = "running"
  /\ inUse' = [p \in Pools |-> IF p \in Needs(c) /\ inUse[p] > 0 THEN inUse[p] - 1 ELSE inUse[p]]
  /\ waiters' = [p \in Pools |-> IF p \in Needs(c) /\ Woken(p) # <<>> THEN Tail(waiters[p])
                                                                     ELSE waiters[p]]
  /\ micro' = Woken(typeOf[c]) \o (IF IsHeavy(c) THEN Woken(HeavyPool) ELSE <<>>)
  /\ pc' = [d \in Callers |->
              IF d = c THEN "idle"
              ELSE IF Woken(typeOf[c]) = <<d>> THEN "resumeType"
              ELSE IF IsHeavy(c) /\ Woken(HeavyPool) = <<d>> THEN "resumeHeavy"
              ELSE pc[d]]

Next ==
  \/ \E c \in Callers : Call(c)
  \/ Microtask
  \/ \E c \in Callers : WorkEnds(c)

(* Node drains the microtask queue. A script ends, at its timeout at the    *)
(* latest, and the event loop comes to its end although other events keep   *)
(* coming first (strong fairness: between them the queue is not empty).     *)
(* Nobody has to call.                                                      *)
Fairness == WF_vars(Microtask) /\ \A c \in Callers : SF_vars(WorkEnds(c))

Spec     == Init /\ [][Next]_vars
FairSpec == Spec /\ Fairness

-----------------------------------------------------------------------------
(* Scripts in execution that count against the limit of p.                  *)
Executing(p) == {c \in Callers : pc[c] = "running" /\ p \in Needs(c)}

(* No more scripts of a type, and no more heavy scripts, are in execution   *)
(* than the configured limits, although a woken waiter takes its permit     *)
(* without looking at the limit again.                                      *)
LimitsHold == \A p \in Pools : Cardinality(Executing(p)) <= Limit[p]

(* No wake-up is lost: when Node is idle, nobody waits for a pool that has  *)
(* a permit to give.                                                        *)
NoIdlePermit == micro = <<>> => \A p \in Pools : waiters[p] # <<>> => ~HasPermit(p)

(* Every call gets to run its script, however many calls keep coming: the   *)
(* waiters are served in the order in which they came, and holding a heavy  *)
(* permit while waiting for a type's cannot block both.                     *)
EveryCallRuns == \A c \in Callers : pc[c] # "idle" ~> pc[c] = "running"

=============================================================================
