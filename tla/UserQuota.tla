------------------------------ MODULE UserQuota ------------------------------
(***************************************************************************)
(* UserQuotaGuard and UserQuotaService.checkAndIncrement for one resource, *)
(* with quotas enabled: the daily counters of the users and of all users   *)
(* together live in Redis, any number of backends count on them, and every *)
(* read and every INCR is a round trip of its own.  The name of a counter  *)
(* holds the day of that round trip, so a request may begin on one day and *)
(* be counted on the next.                                                 *)
(***************************************************************************)
EXTENDS Integers, FiniteSets

CONSTANTS
    Users,
    Requests,    \* requests under way at one time
    UserLimit,   \* QUOTA_DAILY_*
    GlobalLimit, \* QUOTA_GLOBAL_DAILY_*
    MaxDay       \* bound: days of a behaviour

ASSUME QuotaAssumption == {UserLimit, GlobalLimit} \subseteq Nat \ {0}
ASSUME DayAssumption == MaxDay \in Nat
ASSUME RequestsAssumption == IsFiniteSet(Requests)
ASSUME UsersAssumption == Users # {}

Days == 0..MaxDay
Steps == {"none", "checkGlobal", "countUser", "countGlobal"}
NoRequest == [at |-> "none", user |-> CHOOSE u \in Users : TRUE, day |-> 0, n |-> 0]

VARIABLES
    day,         \* the date, of getTodayKey
    userCount,   \* quota:user:<user>:<day>
    globalCount, \* quota:global:<day>
    request,     \* where each request stands, and what its INCR returned
    userAccepted,  \* history: requests let through, by the day their user counted
    globalAccepted \* history: and by the day they were counted globally

quotaVars == <<day, userCount, globalCount, request, userAccepted, globalAccepted>>

QuotaTypeOK ==
    /\ day \in Days
    /\ userCount \in [Users -> [Days -> Nat]]
    /\ globalCount \in [Days -> Nat]
    /\ request \in [Requests -> [at : Steps, user : Users, day : Days, n : Nat]]
    /\ userAccepted \in [Users -> [Days -> Nat]]
    /\ globalAccepted \in [Days -> Nat]

QuotaInit ==
    /\ day = 0
    /\ userCount = [u \in Users |-> [d \in Days |-> 0]]
    /\ globalCount = [d \in Days |-> 0]
    /\ request = [r \in Requests |-> NoRequest]
    /\ userAccepted = [u \in Users |-> [d \in Days |-> 0]]
    /\ globalAccepted = [d \in Days |-> 0]

-----------------------------------------------------------------------------
(* checkUserQuota: a request over the limit is refused and not counted. *)
CheckUser(r, u) ==
    /\ request[r].at = "none"
    /\ userCount[u][day] < UserLimit
    /\ request' = [request EXCEPT ![r] = [NoRequest EXCEPT !.at = "checkGlobal", !.user = u]]
    /\ UNCHANGED <<day, userCount, globalCount, userAccepted, globalAccepted>>

(* checkGlobalQuota, likewise. *)
CheckGlobal(r) ==
    /\ request[r].at = "checkGlobal"
    /\ request' = [request EXCEPT ![r] = IF globalCount[day] < GlobalLimit
                                         THEN [@ EXCEPT !.at = "countUser"] ELSE NoRequest]
    /\ UNCHANGED <<day, userCount, globalCount, userAccepted, globalAccepted>>

IncrementUser(r) ==
    LET u == request[r].user IN
    /\ request[r].at = "countUser"
    /\ userCount' = [userCount EXCEPT ![u][day] = @ + 1]
    /\ request' = [request EXCEPT ![r] =
                      [at |-> "countGlobal", user |-> u, day |-> day, n |-> userCount[u][day] + 1]]
    /\ UNCHANGED <<day, globalCount, userAccepted, globalAccepted>>

(* Mutation: The check before the count taken to be enough. *)
WithinLimits_checkedBefore(userValue, globalValue) == TRUE

WithinLimits(userValue, globalValue) ==
    userValue <= UserLimit /\ globalValue <= GlobalLimit

(* incrementGlobal, and then the verdict on the two values returned.  A
   request refused here, or whose reply is lost, stays counted in both. *)
IncrementGlobal(r) ==
    LET u == request[r].user
        d == request[r].day IN
    /\ request[r].at = "countGlobal"
    /\ globalCount' = [globalCount EXCEPT ![day] = @ + 1]
    /\ request' = [request EXCEPT ![r] = NoRequest]
    /\ \/ /\ WithinLimits(request[r].n, globalCount[day] + 1)
          /\ userAccepted' = [userAccepted EXCEPT ![u][d] = @ + 1]
          /\ globalAccepted' = [globalAccepted EXCEPT ![day] = @ + 1]
       \/ UNCHANGED <<userAccepted, globalAccepted>>
    /\ UNCHANGED <<day, userCount>>

(* Mutation: A request that fails gives back what it may not have counted. *)
Fails_givesBack(r) ==
    /\ request[r].at # "none"
    /\ request' = [request EXCEPT ![r] = NoRequest]
    /\ userCount' = [userCount EXCEPT ![request[r].user][request[r].day] = @ - 1]
    /\ UNCHANGED <<day, globalCount, userAccepted, globalAccepted>>

(* An error of Redis, or the end of the backend: the request is not served
   and what it has counted stays counted. *)
Fails(r) ==
    /\ request[r].at # "none"
    /\ request' = [request EXCEPT ![r] = NoRequest]
    /\ UNCHANGED <<day, userCount, globalCount, userAccepted, globalAccepted>>

Midnight ==
    /\ day < MaxDay
    /\ day' = day + 1
    /\ UNCHANGED <<userCount, globalCount, request, userAccepted, globalAccepted>>

QuotaNext ==
    \/ \E r \in Requests :
          \/ \E u \in Users : CheckUser(r, u)
          \/ CheckGlobal(r)
          \/ IncrementUser(r)
          \/ IncrementGlobal(r)
          \/ Fails(r)
    \/ Midnight

QuotaSpec == QuotaInit /\ [][QuotaNext]_quotaVars

-----------------------------------------------------------------------------
(* However many requests check at once and whatever day each is counted on,
   no more are let through than the limits of a user and of all users. *)
QuotasHold ==
    \A d \in Days :
        /\ \A u \in Users : userAccepted[u][d] <= UserLimit
        /\ globalAccepted[d] <= GlobalLimit

(* Refused requests use up quota too, but little: past its limit a counter
   only counts the other requests that had been checked before it was
   reached, so one user's refused requests never eat up the global quota. *)
OverrunIsBounded ==
    \A d \in Days :
        /\ \A u \in Users : userCount[u][d] < UserLimit + Cardinality(Requests)
        /\ globalCount[d] < GlobalLimit + Cardinality(Requests)
=============================================================================
