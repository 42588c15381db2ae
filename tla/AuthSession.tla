----------------------------- MODULE AuthSession -----------------------------
(***************************************************************************)
(* The sessions of one browser (AuthService, AuthController, and the       *)
(* interceptors of the API client).  A request refused for its access      *)
(* token makes its tab ask for another with the refresh token.  That token *)
(* names its session and is rotated by every refresh, the session keeps    *)
(* the hash of the last one, and one that does not match revokes it.  The  *)
(* tabs of the browser share the cookie and do not know of each other's    *)
(* requests; within a tab the requests share a refresh (refreshInFlight).  *)
(* Two tokens signed for a session in the same second are the same token.  *)
(***************************************************************************)
EXTENDS Naturals

CONSTANTS
    Tabs,
    MaxLogins, \* bound: sessions
    MaxSecond  \* bound: seconds

ASSUME LoginsAssumption == MaxLogins \in Nat \ {0}
ASSUME SecondsAssumption == MaxSecond \in Nat

VARIABLES
    session,   \* AuthSession rows; signed is the second of the token whose hash is kept
    over,      \* sessions whose last token has expired
    cookie,    \* the browser's refresh token: its session, 0 for none, and its second
    exchange,  \* the request of each tab
    second,    \* the clock that tokens are signed by
    loggedOut, \* history: sessions a logout has revoked
    raced,     \* history: sessions with two refreshes at a time, or whose new token was lost
    crossed    \* history: sessions a logout has revoked while a refresh was past its test

rows    == <<session, over>>
history == <<loggedOut, raced, crossed>>
authVars == <<rows, cookie, exchange, second, history>>

Sessions == 1..MaxLogins
NoRow == [row |-> "none", signed |-> 0, revoked |-> FALSE]
Pruned == [NoRow EXCEPT !.row = "pruned"]
NoCookie == [session |-> 0, signed |-> 0]
AtRest == [at |-> "rest", session |-> 0, signed |-> 0]

(* The tokens of a session are told apart by the second of their signature. *)
Token(s) == [session |-> s, signed |-> second]

Holding(token, at) == [at |-> at, session |-> token.session, signed |-> token.signed]

(* issueTokenPair *)
NewSession == [NoRow EXCEPT !.row = "kept", !.signed = second]

(* The request carries the token that is in the cookie when it is sent. *)
Sent(at) == Holding(cookie, at)

SessionRows == [row : {"none", "kept", "pruned"}, signed : 0..MaxSecond, revoked : BOOLEAN]

Exchanges ==
    [at : {"rest", "find", "rotate", "revoke", "refreshed", "logout", "loggedIn", "signedOut"},
     session : 0..MaxLogins, signed : 0..MaxSecond]

AuthTypeOK ==
    /\ session \in [Sessions -> SessionRows]
    /\ over \subseteq Sessions
    /\ cookie \in [session : 0..MaxLogins, signed : 0..MaxSecond]
    /\ exchange \in [Tabs -> Exchanges]
    /\ second \in 0..MaxSecond
    /\ {loggedOut, raced, crossed} \subseteq SUBSET Sessions

AuthInit ==
    /\ session = [s \in Sessions |-> NoRow]
    /\ over = {}
    /\ cookie = NoCookie
    /\ exchange = [t \in Tabs |-> AtRest]
    /\ second = 0
    /\ loggedOut = {} /\ raced = {} /\ crossed = {}

Refreshing(t) == exchange[t].at \in {"find", "rotate", "revoke", "refreshed"}

Moves(t, at) == exchange' = [exchange EXCEPT ![t].at = at]
Rests(t) == exchange' = [exchange EXCEPT ![t] = AtRest]

-----------------------------------------------------------------------------
(* A page is loaded: the bootstrap of a development build signs in anew, and
   the token of its session is on the way to the browser. *)
Login(t) ==
    /\ exchange[t] = AtRest
    /\ \E s \in Sessions :
          /\ session[s] = NoRow /\ \A u \in Sessions : u < s => session[u] # NoRow
          /\ session' = [session EXCEPT ![s] = NewSession]
          /\ exchange' = [exchange EXCEPT ![t] = Holding(Token(s), "loggedIn")]
    /\ UNCHANGED <<over, cookie, second, history>>

(* A request is refused with 401, the first time for its access token: those
   outlive their session and may end at any time.  The tab asks for another
   with the cookie there is.  Sent again, the request changes nothing here,
   whether it is answered or given up. *)
Refresh(t) ==
    LET s == cookie.session IN
    /\ exchange[t] = AtRest /\ s # 0
    /\ exchange' = [exchange EXCEPT ![t] = Sent("find")]
    /\ raced' = IF \E q \in Tabs : Refreshing(q) /\ exchange[q].session = s
                THEN raced \cup {s} ELSE raced
    /\ UNCHANGED <<rows, cookie, second, loggedOut, crossed>>

(* Mutation: The test of revokedAt left out. *)
Usable_revokedToo(s) == session[s].row = "kept" /\ s \notin over

Usable(s) == session[s].row = "kept" /\ ~session[s].revoked /\ s \notin over

(* refreshSession up to its write: refused, answered with a revocation, or a
   new token. *)
FindSession(t) ==
    LET s == exchange[t].session IN
    /\ exchange[t].at = "find"
    /\ exchange' = [exchange EXCEPT ![t] =
          IF ~Usable(s) THEN AtRest
          ELSE IF @.signed # session[s].signed THEN [@ EXCEPT !.at = "revoke"]
          ELSE Holding(Token(s), "rotate")]
    /\ UNCHANGED <<rows, cookie, second, history>>

(* Mutation: The hash of the new token not written. *)
Rotate_hashKept(t) ==
    LET s == exchange[t].session IN
    /\ exchange[t].at = "rotate" /\ session[s].row = "kept"
    /\ session' = [session EXCEPT ![s].revoked = FALSE]
    /\ over' = over \ {s}
    /\ Moves(t, "refreshed")
    /\ loggedOut' = loggedOut \ {s}
    /\ UNCHANGED <<cookie, second, raced, crossed>>

(* The write sets revokedAt to null, whatever it has become since the read;
   it throws when the row has been pruned. *)
Rotate(t) ==
    LET s == exchange[t].session IN
    /\ exchange[t].at = "rotate" /\ session[s].row = "kept"
    /\ session' = [session EXCEPT ![s].signed = exchange[t].signed, ![s].revoked = FALSE]
    /\ over' = over \ {s}
    /\ Moves(t, "refreshed")
    /\ loggedOut' = loggedOut \ {s}
    /\ UNCHANGED <<cookie, second, raced, crossed>>

RevokeMismatched(t) ==
    LET s == exchange[t].session IN
    /\ exchange[t].at = "revoke" /\ session[s].row = "kept"
    /\ session' = [session EXCEPT ![s].revoked = TRUE]
    /\ Rests(t)
    /\ UNCHANGED <<over, cookie, second, history>>

Logout(t) ==
    /\ exchange[t] = AtRest /\ cookie # NoCookie
    /\ exchange' = [exchange EXCEPT ![t] = Sent("logout")]
    /\ UNCHANGED <<rows, cookie, second, history>>

(* logout: an updateMany, so nothing happens to a session that is revoked,
   and the hash does not matter.  An expired token does not verify. *)
EndSession(t) ==
    LET s == exchange[t].session IN
    /\ exchange[t].at = "logout"
    /\ Moves(t, "signedOut")
    /\ IF Usable(s)
       THEN /\ session' = [session EXCEPT ![s].revoked = TRUE]
            /\ loggedOut' = loggedOut \cup {s}
            /\ crossed' = IF \E q \in Tabs : exchange[q].at = "rotate" /\ exchange[q].session = s
                          THEN crossed \cup {s} ELSE crossed
       ELSE UNCHANGED <<session, loggedOut, crossed>>
    /\ UNCHANGED <<over, cookie, second, raced>>

(* The reply sets the cookie, or clears it whatever it holds by now. *)
Reply(t) ==
    /\ exchange[t].at \in {"loggedIn", "refreshed", "signedOut"}
    /\ cookie' = IF exchange[t].at = "signedOut" THEN NoCookie
                 ELSE [session |-> exchange[t].session, signed |-> exchange[t].signed]
    /\ Rests(t)
    /\ UNCHANGED <<rows, second, history>>

(* A reply lost, or a query that throws before it has changed anything. *)
RequestFails(t) ==
    /\ exchange[t].at # "rest"
    /\ Rests(t)
    /\ raced' = IF exchange[t].at \in {"loggedIn", "refreshed"}
                THEN raced \cup {exchange[t].session} ELSE raced
    /\ UNCHANGED <<rows, cookie, second, loggedOut, crossed>>

-----------------------------------------------------------------------------
SessionExpires(s) ==
    /\ session[s].row = "kept" /\ s \notin over
    /\ over' = over \cup {s}
    /\ UNCHANGED <<session, cookie, exchange, second, history>>

(* One deleteMany, begun by a login, refresh or logout when it is due: every
   expired session, and those revoked long enough ago. *)
PruneStaleSessions ==
    /\ \E old \in SUBSET {s \in Sessions : session[s].revoked} :
          session' = [s \in Sessions |->
              IF session[s].row = "kept" /\ s \in over \cup old
              THEN Pruned ELSE session[s]]
    /\ over' = {s \in over : session'[s].row = "kept"}
    /\ UNCHANGED <<cookie, exchange, second, history>>

AuthTick ==
    /\ second < MaxSecond
    /\ second' = second + 1
    /\ UNCHANGED <<rows, cookie, exchange, history>>

AuthNext ==
    \/ \E t \in Tabs :
          \/ Login(t)
          \/ Refresh(t)
          \/ FindSession(t)
          \/ Rotate(t)
          \/ RevokeMismatched(t)
          \/ Logout(t)
          \/ EndSession(t)
          \/ Reply(t)
          \/ RequestFails(t)
    \/ \E s \in Sessions : SessionExpires(s)
    \/ PruneStaleSessions
    \/ AuthTick

AuthSpec == AuthInit /\ [][AuthNext]_authVars

-----------------------------------------------------------------------------
(* The user is not signed out by the rotation: whichever tabs ask and in
   whatever order, a session is revoked only by a logout, unless two refreshes
   of it were under way at once or the browser never got a token it had been
   given; the token it sends next is then not the one the session expects. *)
SignedOutOnPurpose ==
    \A s \in Sessions : session[s].revoked => s \in loggedOut \cup raced

(* A revoked session stays so until it is pruned.  A refresh writes revokedAt
   without looking again, which undoes a logout that came between its read and
   its write, or the revocation by another refresh at the same time; nothing
   else does. *)
RevocationsLast ==
    [][\A s \in Sessions : session[s].revoked /\ session'[s].row = "kept" /\ ~session'[s].revoked
          => s \in crossed \cup raced]_authVars
=============================================================================
