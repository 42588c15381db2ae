---------------------------- MODULE HealthAlerting ----------------------------
(***************************************************************************)
(* health-alerting.service.ts as the health endpoints call it: a request   *)
(* without filter reads the snapshot of degraded stages and then lets the  *)
(* service decide whether the webhook is told of an alert or a recovery.   *)
(* What was last told is noted after the POST, which takes up to its       *)
(* timeout and whose failure is logged and otherwise ignored, so that one  *)
(* outcome stands for both.                                                *)
(***************************************************************************)
EXTENDS HealthRates

CONSTANTS
    Worlds,       \* snapshots of the job table, [byType |-> tallies, bySource |-> tallies]
    Probes,       \* requests that may be under way at once
    AlertPause,   \* HEALTH_DEGRADED_ALERT_COOLDOWN_MS
    PostTimeout,  \* HEALTH_ALERT_WEBHOOK_TIMEOUT_MS
    MaxTime, MaxAlerts \* bounds, of one start of the backend

ASSUME AlertingAssumption ==
    /\ AlertPause \in Nat \ {0} /\ PostTimeout \in Nat \ {0}
    /\ MaxTime \in Nat /\ MaxAlerts \in Nat

(* buildSignature: every critical type and source with its numbers; {} when *)
(* nothing is critical.                                                    *)
Signature(world) ==
    UNION {{<<k, WindowRate(tallies[k]), tallies[k].completedWindow>> : k \in CriticalKeys(tallies)} :
              tallies \in {world.byType, world.bySource}}

Signatures == {Signature(w) : w \in Worlds}
None == {}

VARIABLES
    world,        \* what the job table would show now
    time,         \* since the backend was started
    lastSentAt,   \* lastSentAtBySignature, a function on the signatures told
    lastCritical, \* lastCriticalSignature
    probe,        \* where each request is
    lastPost,     \* history: the last webhook call that has ended, of this start
    told          \* history: the alerts told in this start, as their POSTs ended

alertVars == <<world, time, lastSentAt, lastCritical, probe, lastPost, told>>

(* after is a ghost: how many alerts had been told when a call was decided. *)
Resting == [at |-> "idle", sig |-> None, decided |-> 0, after |-> 0]

AlertTypeOK ==
    /\ world \in Worlds /\ time \in 0..MaxTime
    /\ DOMAIN lastSentAt \subseteq Signatures /\ \A s \in DOMAIN lastSentAt : lastSentAt[s] \in 0..time
    /\ lastCritical \in Signatures \cup {None}
    /\ probe \in [Probes -> [at : {"idle", "read", "alert", "recovery"}, sig : Signatures \cup {None},
                             decided : 0..MaxTime, after : 0..Len(told)]]
    /\ lastPost \in {"none", "alert", "recovery"}
    /\ told \in Seq([sig : Signatures, decided : 0..time, after : Nat])

AlertInit ==
    /\ world \in Worlds /\ time = 0
    /\ lastSentAt = [s \in {} |-> 0]
    /\ lastCritical = None
    /\ probe = [p \in Probes |-> Resting]
    /\ lastPost = "none" /\ told = <<>>

Alerts == Cardinality({p \in Probes : probe[p].at \in {"read", "alert"} /\ probe[p].sig # None}) + Len(told)

-----------------------------------------------------------------------------
(* getDegradedStageSnapshotWithAlerts: the query.  A request with a filter *)
(* ends here.                                                              *)
Ask(p) ==
    /\ probe[p].at = "idle"
    /\ Signature(world) = None \/ Alerts < MaxAlerts
    /\ probe' = [probe EXCEPT ![p] = [Resting EXCEPT !.at = "read", !.sig = Signature(world)]]
    /\ UNCHANGED <<world, time, lastSentAt, lastCritical, lastPost, told>>

(* Mutation: only the alert that is still critical is held back.            *)
InPause_criticalOnly(sig) == sig = lastCritical /\ time - lastSentAt[sig] < AlertPause

InPause(sig) == sig \in DOMAIN lastSentAt /\ time - lastSentAt[sig] < AlertPause

Told(p, event, sig) ==
    probe' = [probe EXCEPT ![p] = [at |-> event, sig |-> sig, decided |-> time, after |-> Len(told)]]

(* notifyDegradedStageIfNeeded up to its POST. *)
Notify(p) ==
    /\ probe[p].at = "read"
    /\ LET sig == probe[p].sig IN
       \/ /\ sig = None /\ lastCritical # None
          /\ Told(p, "recovery", lastCritical)
       \/ /\ sig # None /\ ~InPause(sig)
          /\ Told(p, "alert", sig)
       \/ /\ IF sig = None THEN lastCritical = None ELSE InPause(sig)
          /\ probe' = [probe EXCEPT ![p] = Resting]
    /\ UNCHANGED <<world, time, lastSentAt, lastCritical, lastPost, told>>

(* Mutation: an alert is noted for the pause alone. *)
CriticalAfter_kept(call) == IF call.at = "alert" THEN lastCritical ELSE None

CriticalAfter(call) == IF call.at = "alert" THEN call.sig ELSE None

(* The POST has been answered, refused or has timed out. *)
PostEnds(p) ==
    /\ probe[p].at \in {"alert", "recovery"}
    /\ lastCritical' = CriticalAfter(probe[p])
    /\ lastSentAt' = IF probe[p].at = "recovery" THEN lastSentAt
                     ELSE [s \in DOMAIN lastSentAt \cup {probe[p].sig} |->
                              IF s = probe[p].sig THEN probe[p].decided ELSE lastSentAt[s]]
    /\ lastPost' = probe[p].at
    /\ told' = IF probe[p].at = "recovery" THEN told
               ELSE Append(told, [sig |-> probe[p].sig, decided |-> probe[p].decided, after |-> probe[p].after])
    /\ probe' = [probe EXCEPT ![p] = Resting]
    /\ UNCHANGED <<world, time>>

(* Jobs complete, degraded or not, and old ones leave the window. *)
WorldChanges == world' \in Worlds /\ UNCHANGED <<time, lastSentAt, lastCritical, probe, lastPost, told>>

(* A POST ends by its timeout.                                             *)
TimePasses ==
    /\ time < MaxTime /\ time' = time + 1
    /\ \A p \in Probes : probe[p].at \in {"alert", "recovery"} => time < probe[p].decided + PostTimeout
    /\ UNCHANGED <<world, lastSentAt, lastCritical, probe, lastPost, told>>

(* The service keeps its state in memory. *)
Reboot ==
    /\ time' = 0
    /\ lastSentAt' = [s \in {} |-> 0] /\ lastCritical' = None
    /\ probe' = [p \in Probes |-> Resting] /\ lastPost' = "none" /\ told' = <<>>
    /\ UNCHANGED world

ProbeStep(p) == Ask(p) \/ Notify(p) \/ PostEnds(p)

AlertNext ==
    \/ \E p \in Probes : ProbeStep(p)
    \/ WorldChanges \/ TimePasses \/ Reboot

(* The endpoint is polled, and a request that has begun goes on. *)
AlertFairness == \A p \in Probes : WF_alertVars(ProbeStep(p))

AlertSpec == AlertInit /\ [][AlertNext]_alertVars /\ AlertFairness

-----------------------------------------------------------------------------
(* An alert decided after the same one had been told comes later than it by *)
(* the pause, less what a POST may take: calls that are under way at once   *)
(* end in any order, and the last one to end says when it was decided       *)
(* (lastSentAtBySignature).                                                 *)
AlertsPaced ==
    \A i, j \in DOMAIN told :
        told[i].sig = told[j].sig /\ i <= told[j].after
          => told[j].decided - told[i].decided >= AlertPause - PostTimeout

(* An alert is followed by a recovery, unless the condition comes back or   *)
(* the backend is started again, which forgets that one is owed             *)
(* (docs/source-mode-alert-runbook.md, Recovery Verification).              *)
RecoveryFollows ==
    (lastPost = "alert") ~> (lastPost # "alert" \/ Signature(world) # None)
=============================================================================
