------------------------------- MODULE Events -------------------------------
(***************************************************************************)
(* The event stream between the backend and a page (EventsGateway,         *)
(* EventsService, useProjectSocket).  A page opens a connection for the    *)
(* project it shows, asks for the project's room once it is greeted, and   *)
(* says it is connected when the room is granted; the gateway looks the    *)
(* project up in between.  Either side may find the connection lost while  *)
(* the other still uses it, and the client then opens the next one.        *)
(*                                                                         *)
(* ProjectPage is the page with what it makes of its stream; here are the  *)
(* connections themselves, and every kind of message of the scripts.       *)
(***************************************************************************)
EXTENDS Naturals, Sequences, FiniteSets

CONSTANTS
    Shown,          \* the projects the page may show
    Own,            \* those of its user
    Malformed,      \* those whose id in the address is not a UUID
    Nothing,
    MaxConnections, \* bound: connections of the page, one after the other
    MaxDown,        \* bound: messages on their way to the page, of one connection
    MaxScene        \* bound: scenes of a project

ASSUME StreamAssumption ==
    /\ Own \subseteq Shown /\ Malformed \subseteq Shown /\ Own \cap Malformed = {}
    /\ Nothing \notin Shown
    /\ MaxConnections \in Nat /\ MaxDown \in Nat /\ MaxScene \in Nat

VARIABLES
    line,       \* both ends of every connection
    up,         \* requests on their way to the gateway
    down,       \* answers and events on their way to the page
    screen,     \* the page: its project, its connection (0 for none) and isConnected
    stream,     \* jobUpdate at 0, the image of each scene: whose it is
    active,     \* EventsMetricsService.activeConnections
    redis       \* EventsService's subscription to job_events

eventVars == <<line, up, down, screen, stream, active, redis>>

Connections == 1..MaxConnections
Slots == 0..MaxScene
Word(w) == [say |-> w, project |-> Nothing, slot |-> 0]
Event(p, s) == [say |-> "event", project |-> p, slot |-> s]
Unopened == [project |-> Nothing, admitted |-> FALSE, client |-> "unused",
             server |-> "none", joined |-> FALSE, lookup |-> FALSE]

(* What a page may be sent: the answers of the gateway, and the events.    *)
ToPage == {Word(w) : w \in {"welcome", "unauthorized", "bye", "granted", "refused"}}
          \cup {Event(p, s) : p \in Shown, s \in Slots}

EventsTypeOK ==
    /\ line \in [Connections -> [project : Shown \cup {Nothing}, admitted : BOOLEAN,
                                 client : {"unused", "live", "gone"},
                                 server : {"none", "open", "closed", "refused"},
                                 joined : BOOLEAN, lookup : BOOLEAN]]
    /\ \A c \in Connections :
          /\ up[c] \in Seq({"join", "leave", "bye"})
          /\ down[c] \in Seq(ToPage)
          /\ line[c].lookup => line[c].server \in {"open", "closed"}
    /\ screen \in [project : Shown, conn : 0..MaxConnections, isConnected : BOOLEAN]
    /\ stream \in [Slots -> Shown \cup {Nothing}]
    /\ active \in 0..MaxConnections
    /\ redis \in {"subscribed", "reconnecting", "off"}

(* connectRedis runs before any page connects, and is not tried again.      *)
ConnectRedis == redis \in {"subscribed", "off"}

EventsInit ==
    /\ line = [c \in Connections |-> Unopened]
    /\ up = [c \in Connections |-> <<>>] /\ down = [c \in Connections |-> <<>>]
    /\ \E p \in Shown : screen = [project |-> p, conn |-> 0, isConnected |-> FALSE]
    /\ stream = [s \in Slots |-> Nothing]
    /\ active = 0
    /\ ConnectRedis

Open == {c \in Connections : line[c].server = "open"}

(* Nothing reaches a client that has gone. *)
Hears(c) == line[c].client = "live"

Send(c, words) ==
    down' = IF Hears(c) THEN [down EXCEPT ![c] = @ \o [i \in DOMAIN words |-> Word(words[i])]] ELSE down

-----------------------------------------------------------------------------
(* The page. *)

(* The next connection, for the project of the effect and with its token. *)
Opened(lines, c, project, admitted) ==
    [lines EXCEPT ![c] = [@ EXCEPT !.project = project, !.admitted = admitted, !.client = "live"]]

NextSocket(c) == line[c] = Unopened /\ \A d \in Connections : d < c => line[d] # Unopened

(* The effect of useProjectSocket, while the project is PROCESSING. *)
Connect ==
    /\ screen.conn = 0
    /\ \E c \in Connections, admitted \in BOOLEAN :
          /\ NextSocket(c)
          /\ line' = Opened(line, c, screen.project, admitted)
          /\ screen' = [screen EXCEPT !.conn = c]
    /\ UNCHANGED <<up, down, stream, active, redis>>

(* Mutation: The socket left open, as if leaving the room were enough. *)
CleanUp_staysOpen ==
    IF screen.conn = 0 THEN UNCHANGED <<line, up, down>>
    ELSE /\ up' = [up EXCEPT ![screen.conn] = Append(@, "leave")]
         /\ UNCHANGED <<line, down>>

(* The cleanup of the effect: nothing of this connection is heard any more. *)
CleanUp ==
    LET c == screen.conn IN
    IF c = 0 THEN UNCHANGED <<line, up, down>>
    ELSE /\ up' = IF line[c].server = "open" THEN [up EXCEPT ![c] = @ \o <<"leave", "bye">>] ELSE up
         /\ line' = [line EXCEPT ![c].client = "gone"]
         /\ down' = [down EXCEPT ![c] = <<>>]

(* The page goes on to another project: cleanup, and the reset of the state. *)
Show(p) ==
    /\ p # screen.project
    /\ CleanUp
    /\ screen' = [project |-> p, conn |-> 0, isConnected |-> FALSE]
    /\ stream' = [s \in Slots |-> Nothing]
    /\ UNCHANGED <<active, redis>>

(* The project is no longer PROCESSING: what has come stays on the page. *)
StopWatching ==
    /\ screen.conn # 0
    /\ CleanUp
    /\ screen' = [screen EXCEPT !.conn = 0, !.isConnected = FALSE]
    /\ UNCHANGED <<stream, active, redis>>

(* The handlers of the socket, by the message they are for.  A client that
   has been sent away by the server does not call again. *)
Hear(c) ==
    LET word == Head(down[c]).say IN
    /\ Hears(c) /\ down[c] # <<>>
    /\ word # "event"
    /\ down' = [down EXCEPT ![c] = Tail(@)]
    /\ screen' = [screen EXCEPT !.isConnected = word = "granted"]
    /\ up' = IF word = "welcome" /\ line[c].server = "open" THEN [up EXCEPT ![c] = Append(@, "join")] ELSE up
    /\ line' = IF word = "bye" THEN [line EXCEPT ![c].client = "gone"] ELSE line
    /\ UNCHANGED <<stream, active, redis>>

(* image:generated keeps the first image of a scene, job:update the last. *)
HearEvent(c) ==
    LET event == Head(down[c]) IN
    /\ Hears(c) /\ down[c] # <<>>
    /\ event.say = "event"
    /\ down' = [down EXCEPT ![c] = Tail(@)]
    /\ stream' = [stream EXCEPT ![event.slot] =
          IF event.slot = 0 \/ @ = Nothing THEN event.project ELSE @]
    /\ UNCHANGED <<line, up, screen, active, redis>>

(* The client finds the connection broken and calls again. *)
ClientLoses(c) ==
    /\ line[c].client = "live" /\ c = screen.conn
    /\ \E d \in Connections :
          /\ NextSocket(d)
          /\ line' = Opened([line EXCEPT ![c].client = "gone"], d, line[c].project, line[c].admitted)
          /\ screen' = [screen EXCEPT !.conn = d, !.isConnected = FALSE]
    /\ up' = [up EXCEPT ![c] = <<>>] /\ down' = [down EXCEPT ![c] = <<>>]
    /\ UNCHANGED <<stream, active, redis>>

-----------------------------------------------------------------------------
(* The gateway. *)

ConnectionClosed == IF active = 0 THEN 0 ELSE active - 1

(* A refused socket is closed inside the handler, and it is left open whether
   NestJS calls handleDisconnect for it: the count then drops for a connection
   it has never counted. *)
HandleConnection(c) ==
    /\ line[c].client # "unused" /\ line[c].server = "none"
    /\ IF line[c].admitted
       THEN /\ line' = [line EXCEPT ![c].server = "open"]
            /\ active' = active + 1
            /\ Send(c, <<"welcome">>)
       ELSE /\ line' = [line EXCEPT ![c].server = "refused"]
            /\ active' \in {active, ConnectionClosed}
            /\ Send(c, <<"welcome", "unauthorized", "bye">>)
    /\ UNCHANGED <<up, screen, stream, redis>>

(* By request of the page, or because the gateway finds the connection lost. *)
HandleDisconnect(c) ==
    /\ line[c].server = "open"
    /\ up' = [up EXCEPT ![c] = <<>>]
    /\ line' = [line EXCEPT ![c].server = "closed", ![c].joined = FALSE]
    /\ active' = ConnectionClosed
    /\ UNCHANGED <<down, screen, stream, redis>>

HandleJoinProject(c) ==
    /\ line[c].server = "open" /\ up[c] # <<>> /\ Head(up[c]) = "join"
    /\ up' = [up EXCEPT ![c] = Tail(@)]
    /\ IF line[c].project \in Malformed
       THEN Send(c, <<"refused">>) /\ UNCHANGED line
       ELSE line' = [line EXCEPT ![c].lookup = TRUE] /\ UNCHANGED down
    /\ UNCHANGED <<screen, stream, active, redis>>

(* The rest of handleJoinProject.  By now the page may have left, or be gone:
   a socket that is closed enters no room. *)
JoinAnswered(c, found) ==
    /\ line[c].lookup
    /\ found => line[c].project \in Own
    /\ line' = [line EXCEPT ![c].lookup = FALSE, ![c].joined = found /\ line[c].server = "open"]
    /\ IF line[c].server = "open"
       THEN Send(c, IF found THEN <<"granted">> ELSE <<"refused">>)
       ELSE UNCHANGED down
    /\ UNCHANGED <<up, screen, stream, active, redis>>

(* The query throws: the client gets no answer that it listens for. *)
JoinThrows(c) ==
    /\ line[c].lookup
    /\ line' = [line EXCEPT ![c].lookup = FALSE]
    /\ UNCHANGED <<up, down, screen, stream, active, redis>>

HandleLeaveProject(c) ==
    /\ line[c].server = "open" /\ up[c] # <<>> /\ Head(up[c]) = "leave"
    /\ up' = [up EXCEPT ![c] = Tail(@)]
    /\ line' = [line EXCEPT ![c].joined = FALSE]
    /\ UNCHANGED <<down, screen, stream, active, redis>>

-----------------------------------------------------------------------------
(* The events. *)

(* The connection to Redis is lost, and what is published then is not kept. *)
RedisReconnecting ==
    /\ redis = "subscribed"
    /\ redis' = "reconnecting"
    /\ UNCHANGED <<line, up, down, screen, stream, active>>

(* retryStrategy never gives up; the client subscribes again by itself.     *)
RedisReady ==
    /\ redis = "reconnecting"
    /\ redis' = "subscribed"
    /\ UNCHANGED <<line, up, down, screen, stream, active>>

(* quit, or disconnect when that fails: the client does not come back.      *)
ReleaseClient == redis' = "off"

DisconnectRedis ==
    /\ redis # "off"
    /\ ReleaseClient
    /\ UNCHANGED <<line, up, down, screen, stream, active>>

(* emitImageGenerated and emitJobUpdate, to whoever is in the room. *)
EmitTo(p, slots) ==
    /\ \A c \in Connections : Len(down[c]) < MaxDown
    /\ \E s \in slots :
          down' = [c \in Connections |->
              IF line[c].joined /\ line[c].project = p /\ Hears(c)
              THEN Append(down[c], Event(p, s)) ELSE down[c]]

(* The processors emit by themselves what a script prints. *)
ProcessorEmits(p) ==
    /\ EmitTo(p, Slots)
    /\ UNCHANGED <<line, up, screen, stream, active, redis>>

(* What the service calls for a message of a script: frames that are skipped
   and those that pass are both announced as images too. *)
CallsFor(type, exposed) ==
    CASE type = "image_generated" -> {IF exposed THEN "ImageExposed" ELSE "FrameSkipped",
                                      "ImageGenerated"}
      [] type = "frame_skipped" -> {"FrameSkipped"}
      [] type = "verse_classified" -> {"VerseClassified"}
      [] type = "progress" -> {"JobUpdate"}
      [] type = "steering_applied" -> {"SteeringApplied"}
      [] type = "steering_received" -> {"SteeringReceived"}
      [] OTHER -> {}

(* The event the gateway sends for a call; the page listens to the first two. *)
SentAs(call) ==
    CASE call = "ImageGenerated" -> "image:generated"
      [] call = "JobUpdate" -> "job:update"
      [] call = "SteeringApplied" -> "steering:applied"
      [] call = "SteeringReceived" -> "steering:received"
      [] OTHER -> "pipeline:progress"

MessageTypes == {"image_generated", "frame_skipped", "verse_classified", "progress",
                 "steering_applied", "steering_received", "pipeline_complete"}

HandlePipelineMessage(p) ==
    /\ redis = "subscribed"
    /\ \E type \in MessageTypes, exposed \in BOOLEAN :
          LET emitted == {SentAs(call) : call \in CallsFor(type, exposed)} IN
          \/ "image:generated" \in emitted /\ EmitTo(p, Slots \ {0})
          \/ "job:update" \in emitted /\ EmitTo(p, {0})
    /\ UNCHANGED <<line, up, screen, stream, active, redis>>

-----------------------------------------------------------------------------
EventsNext ==
    \/ Connect
    \/ StopWatching
    \/ \E p \in Shown : Show(p)
    \/ \E c \in Connections :
          \/ Hear(c)
          \/ HearEvent(c)
          \/ ClientLoses(c)
          \/ HandleConnection(c)
          \/ HandleDisconnect(c)
          \/ HandleJoinProject(c)
          \/ \E found \in BOOLEAN : JoinAnswered(c, found)
          \/ JoinThrows(c)
          \/ HandleLeaveProject(c)
    \/ RedisReconnecting
    \/ RedisReady
    \/ DisconnectRedis
    \/ \E p \in Own : ProcessorEmits(p) \/ HandlePipelineMessage(p)

EventsSpec == EventsInit /\ [][EventsNext]_eventVars

-----------------------------------------------------------------------------
(* What the page shows is the stream of its project: it says it is connected
   only while its connection is in the room of the project it shows, or has
   been closed by a gateway it has not heard of yet, and it never shows an
   event of a project it has left. *)
StreamIsTheProjects ==
    /\ screen.isConnected =>
          /\ screen.conn # 0 /\ line[screen.conn].project = screen.project
          /\ line[screen.conn].joined \/ line[screen.conn].server = "closed"
    /\ \A s \in Slots : stream[s] \in {Nothing, screen.project}

(* The gauge of active connections never counts one that is not open, and is
   exact as long as no socket has been refused (recordConnectionOpened,
   recordConnectionClosed): the count is kept by two handlers, and stays at 0
   when it would drop below. *)
GaugeNeverOvercounts ==
    /\ active <= Cardinality(Open)
    /\ active = Cardinality(Open) \/ \E c \in Connections : line[c].server = "refused"
=============================================================================
