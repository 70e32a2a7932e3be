-------------------------------- MODULE RtspUdp --------------------------------
(***************************************************************************)
(* SETUP over UDP (interact_rtsp, build_string): what handleRequest would  *)
(* do if its call of interact_rtsp were not commented out.  The handlers   *)
(* allocate ports step by step (PortManager), while other processes take   *)
(* and leave some, and enter them in the tables of sessions that           *)
(* RtspServer has for TCP.                                                 *)
(*                                                                         *)
(* A caller is the handler of one SETUP.  The requests of a connection are *)
(* handled one after the other; the server has one thread for them all,    *)
(* but PortManager and both tables have mutexes for more.  Requests other  *)
(* than SETUP and the state of a session are as in RtspServer.             *)
(***************************************************************************)
EXTENDS PortManager

CONSTANTS Conns,    \* the connections of clients
          Threads   \* how many requests can be handled at the same time

ASSUME NoneNotConn == None \notin Conns
ASSUME ThreadsAssumption == Threads \in Nat \ {0}

Tracks == {"video", "audio"}
NoSession == 0
Request == [conn : Conns, track : Tracks, id : Nat]

\* The video track comes first.
Session == [conn : Conns, ports : [{"video"} -> Even] \cup [Tracks -> Even]]

ASSUME NoneNotRequest == None \notin Request

VARIABLES
  request,       \* what each SETUP is about: connection, track and session_
  answer,        \* what was answered
  generated,     \* number of session ids generated; the n-th is n
  avSessionIds,  \* avSessionIds_
  sessions       \* SessionManager: id -> connection, and the port of each track

tableVars == <<request, answer, generated, avSessionIds, sessions>>
udpVars == <<vars, tableVars>>

UdpTypeOK ==
  /\ request \in [Callers -> Request \cup {None}]
  /\ answer \in [Callers -> {"none", "ok", "error"}]
  /\ generated \in Nat
  /\ avSessionIds \in [Conns -> 0..generated]
  /\ DOMAIN sessions \subseteq 1..generated
  /\ \A id \in DOMAIN sessions : sessions[id] \in Session

UdpInit ==
  /\ Init
  /\ request = [c \in Callers |-> None]
  /\ answer = [c \in Callers |-> "none"]
  /\ generated = 0
  /\ avSessionIds = [conn \in Conns |-> NoSession]
  /\ sessions = [id \in {} |-> id]

-----------------------------------------------------------------------------
Running == {c \in Callers : request[c] # None /\ answer[c] = "none"}

\* Handlers are alike: any one that did nothing yet.
NewHandler == CHOOSE c \in Callers : pc[c] = "idle"

\* The lines of a SETUP are parsed.  For the video track an id is generated and
\* recorded for the descriptor, before there are ports.
SetupBegins(c, conn, track) ==
  /\ Cardinality(Running) < Threads
  /\ \A d \in Running : request[d].conn # conn
  /\ Call(c) /\ c = NewHandler
  /\ \/ /\ track = "video"
        /\ generated' = generated + 1
        /\ avSessionIds' = [avSessionIds EXCEPT ![conn] = generated + 1]
     \/ /\ track = "audio"
        /\ UNCHANGED <<generated, avSessionIds>>
  /\ request' = [request EXCEPT
       ![c] = [conn |-> conn, track |-> track, id |-> avSessionIds'[conn]]]
  /\ UNCHANGED <<answer, sessions>>

SetupGoesOn(c) == (GeneratePorts(c) \/ Setup(c)) /\ UNCHANGED tableVars

\* handleRequest looks the session up again, whatever was answered, and acts on
\* its state; the lookup is not checked.
ActOnSession(id) ==
  \/ id \in {NoSession} \cup DOMAIN sessions' /\ UNCHANGED vars
  \/ id \notin {NoSession} \cup DOMAIN sessions' /\ ProcessEnds

Answer(c, what) ==
  /\ c \in Running
  /\ answer' = [answer EXCEPT ![c] = what]
  /\ UNCHANGED <<request, generated, avSessionIds>>

With(f, x, y) == [z \in DOMAIN f \cup {x} |-> IF z = x THEN y ELSE f[z]]

NewSession(c) ==
  [conn |-> request[c].conn, ports |-> [track \in {request[c].track} |-> rtpPort[c]]]

\* Mutation: the session is made before the sockets are bound.
VideoDoneEarly(c) ==
  /\ pc[c] \in {"bind", "ready"} /\ ~died /\ request[c].track = "video"
  /\ sessions' = With(sessions, request[c].id, NewSession(c))
  /\ Answer(c, "ok")
  /\ ActOnSession(request[c].id)

\* Both sockets are bound: a new session for the video track.
VideoDone(c) ==
  /\ At(c, "ready") /\ request[c].track = "video"
  /\ sessions' = With(sessions, request[c].id, NewSession(c))
  /\ Answer(c, "ok")
  /\ ActOnSession(request[c].id)

\* The audio track joins the session recorded for the descriptor, in place of the
\* ports it had.
AudioDone(c) ==
  /\ At(c, "ready") /\ request[c].track = "audio"
  /\ request[c].id \in DOMAIN sessions
  /\ sessions' = [sessions EXCEPT ![request[c].id].ports = With(@, "audio", rtpPort[c])]
  /\ Answer(c, "ok")
  /\ ActOnSession(request[c].id)

\* Mutation: the table is read with operator[], as getSession does once it has
\* found the id.
AudioMakesSession(c) ==
  /\ At(c, "ready") /\ request[c].track = "audio"
  /\ request[c].id \notin DOMAIN sessions
  /\ sessions' = With(sessions, request[c].id, NewSession(c))
  /\ Answer(c, "ok")
  /\ ActOnSession(request[c].id)

\* setInfo is called on the null that getSession returned.
AudioWithoutSession(c) ==
  /\ At(c, "ready") /\ request[c].track = "audio"
  /\ request[c].id \notin DOMAIN sessions
  /\ ProcessEnds
  /\ UNCHANGED tableVars

\* Mutation: after a 500 handleRequest returns.
SetupFailsReturn(c) ==
  /\ At(c, "failed")
  /\ Answer(c, "error")
  /\ UNCHANGED <<vars, sessions>>

\* No descriptor or no bind: a 500.
SetupFails(c) ==
  /\ At(c, "failed")
  /\ Answer(c, "error")
  /\ UNCHANGED sessions
  /\ ActOnSession(request[c].id)

SetupEnds(c) == VideoDone(c) \/ AudioDone(c) \/ AudioWithoutSession(c) \/ SetupFails(c)

OtherProcesses ==
  /\ \E port \in Contested : ForeignBind(port) \/ ForeignClose(port)
  /\ UNCHANGED tableVars

UdpNext ==
  \/ \E c \in Callers :
       \/ \E conn \in Conns, track \in Tracks : SetupBegins(c, conn, track)
       \/ SetupGoesOn(c) \/ SetupEnds(c)
  \/ OtherProcesses

UdpSpec == UdpInit /\ [][UdpNext]_udpVars /\ Fairness

-----------------------------------------------------------------------------
\* What a session says is true: the ports of each of its tracks are bound, by
\* a SETUP of the session's own connection, and are those of no other session
\* or track.
TracksOf(id) == {id} \X DOMAIN sessions[id].ports
SessionPorts ==
  /\ \A id \in DOMAIN sessions : \A track \in DOMAIN sessions[id].ports :
       LET port == sessions[id].ports[track] IN
       \E c \in Callers :
         /\ answer[c] = "ok" /\ bound[c] = {port, port + 1}
         /\ request[c] = [conn |-> sessions[id].conn, track |-> track, id |-> id]
  /\ \A x, y \in UNION {TracksOf(id) : id \in DOMAIN sessions} :
       x # y => sessions[x[1]].ports[x[2]] # sessions[y[1]].ports[y[2]]

\* The id recorded for a descriptor at the start of a SETUP names a session once
\* that SETUP is over: when it fails, the 500 is followed by the lookup of
\* rtsp_handler.cpp:67 and the end of the server, so that no later request finds
\* an id without a session.
IdsStand ==
  died \/ \A conn \in Conns :
    \/ avSessionIds[conn] \in {NoSession} \cup DOMAIN sessions
    \/ \E c \in Running : request[c].conn = conn /\ request[c].id = avSessionIds[conn]
=============================================================================
