-------------------------- MODULE RequestThrottler --------------------------
(***************************************************************************)
(* RedisThrottlerStorageService.increment for one client: a counter with   *)
(* a time to live, the window, and a block that outlasts it.  One MULTI    *)
(* counts the request and reads both times to live; setting the window's   *)
(* end and the block are separate round trips, and any error in between    *)
(* hands the request to the storage in memory.                             *)
(***************************************************************************)
EXTENDS Naturals

CONSTANTS
    Hits, \* requests of the client under way at one time
    Limit

ASSUME LimitAssumption == Limit \in Nat \ {0}

(* Hits beyond the limit are all treated alike. *)
HitCount == 0..(Limit + 1)

VARIABLES
    hits,     \* the counter, 0 when the key is not there
    windowed, \* the counter has a time to live
    blocked,  \* the block key is there
    hit       \* where each request stands: what its MULTI returned

throttleVars == <<hits, windowed, blocked, hit>>

Away == [at |-> "none", total |-> 0, blocked |-> FALSE]

ThrottleTypeOK ==
    /\ hits \in HitCount
    /\ {windowed, blocked} \subseteq BOOLEAN
    /\ hit \in [Hits -> [at : {"none", "expire", "block"}, total : HitCount, blocked : BOOLEAN]]

ThrottleInit ==
    /\ hits = 0 /\ windowed = FALSE /\ blocked = FALSE
    /\ hit = [h \in Hits |-> Away]

More(n) == IF n <= Limit THEN n + 1 ELSE n

-----------------------------------------------------------------------------
(* Mutation: The expiry set by the first request of a window alone. *)
Count_firstSetsExpiry(h) ==
    LET total == More(hits) IN
    /\ hit[h].at = "none"
    /\ hits' = total
    /\ hit' = [hit EXCEPT ![h] = [at |-> IF total = 1 THEN "expire" ELSE "block",
                                  total |-> total, blocked |-> blocked]]
    /\ UNCHANGED <<windowed, blocked>>

(* incr, pttl and pttl in one MULTI. *)
Count(h) ==
    LET total == More(hits) IN
    /\ hit[h].at = "none"
    /\ hits' = total
    /\ hit' = [hit EXCEPT ![h] = [at |-> IF windowed THEN "block" ELSE "expire",
                                  total |-> total, blocked |-> blocked]]
    /\ UNCHANGED <<windowed, blocked>>

(* pexpire whenever the counter was seen without a time to live. *)
SetWindow(h) ==
    /\ hit[h].at = "expire"
    /\ windowed' = (hits > 0)
    /\ hit' = [hit EXCEPT ![h].at = "block"]
    /\ UNCHANGED <<hits, blocked>>

OverLimit(h) == ~hit[h].blocked /\ hit[h].total > Limit

(* SET NX, and the verdict: refused when a block was there or is set now. *)
Judge(h) ==
    /\ hit[h].at = "block"
    /\ blocked' = (blocked \/ OverLimit(h))
    /\ hit' = [hit EXCEPT ![h] = Away]
    /\ UNCHANGED <<hits, windowed>>

(* An error of Redis: the storage in memory decides. *)
FallBack(h) ==
    /\ hit[h].at # "none"
    /\ hit' = [hit EXCEPT ![h] = Away]
    /\ UNCHANGED <<hits, windowed, blocked>>

WindowExpires ==
    /\ windowed
    /\ hits' = 0 /\ windowed' = FALSE
    /\ UNCHANGED <<blocked, hit>>

BlockExpires ==
    /\ blocked
    /\ blocked' = FALSE
    /\ UNCHANGED <<hits, windowed, hit>>

ThrottleNext ==
    \/ \E h \in Hits : Count(h) \/ SetWindow(h) \/ Judge(h) \/ FallBack(h)
    \/ WindowExpires
    \/ BlockExpires

(* Keys expire, the client goes on asking, and not every one of its requests
   meets an error. *)
ThrottleFairness ==
    /\ WF_throttleVars(WindowExpires)
    /\ WF_throttleVars(BlockExpires)
    /\ \A h \in Hits :
          /\ WF_throttleVars(Count(h) \/ Judge(h))
          /\ SF_throttleVars(SetWindow(h))

ThrottleSpec ==
    ThrottleInit /\ [][ThrottleNext]_throttleVars /\ ThrottleFairness

-----------------------------------------------------------------------------
(* Every window ends, also one whose first request has met an error between
   the count and the expiry: a later request sees the missing time to live
   and sets it, so no client stays counted for ever. *)
WindowEnds == hits > 0 ~> hits = 0
=============================================================================
