---------------------------- MODULE RtspClients ----------------------------
(***************************************************************************)
(* The server with clients that keep to the protocol, in two degrees.      *)
(*                                                                         *)
(* A conforming client sends whole requests, sets up the video track       *)
(* first, and uses only the session id the server gave it; it may pipeline *)
(* requests and, once it has a session, send RTCP data between them.       *)
(*                                                                         *)
(* A dialog client also goes through the requests in the order players do, *)
(* each after the answer to the one before.                                *)
(***************************************************************************)
EXTENDS RtspServer

HasSession(c) == learned[c] # NoSession

\* A whole request that names one of these ids, if any.
WholeRequest(c, ids) ==
  {seg \in [binary : {FALSE}, method : Spoken, track : Tracks \cup {None},
            cseq : {NextCSeq(c)}, session : {None} \cup ids] :
     /\ seg.method = "SETUP" => seg.track # None
     /\ seg.track = Audio => HasSession(c)}

ConformingSegment(c) ==
  WholeRequest(c, {learned[c]} \ {NoSession}) \cup {seg \in {Rtcp} : HasSession(c)}

SendConforming ==
  pc # "dead" /\ \E c \in Conns : \E seg \in ConformingSegment(c) : Send(c, seg)

ConformingNext == ServerStep \/ ClientStep \/ SendConforming
ConformingSpec == Init /\ [][ConformingNext]_vars

\* The server never dereferences the null that getSession returns for an
\* unknown id: not in handleRequest (line 68), not in SETUP (line 756).
NoNullSession == fault # "null"

\* A session is changed only while a request of its own client is in hand,
\* although the audio SETUP finds it through the number of the descriptor,
\* whose entry may be left from an earlier connection.
SessionIsolation ==
  [][\A n \in DOMAIN sessions :
       sessions'[n] # sessions[n] =>
         fdConn[Head(batch).fd] = sessions[n].conn]_vars

\* What is streamed to a client is that client's session.
StreamToOwner ==
  pc = "stream" => sessions[stream.session].conn = stream.conn

\* rtsp_handler.cpp:64 says that play, pause and teardown requests are executed
\* there: a TEARDOWN does not start a stream.
TeardownEndsStreaming == pc = "stream" => stream.cause # "TEARDOWN"

-----------------------------------------------------------------------------
\* Clients that were connected before the server was restarted: sessions are
\* in memory only, so the server does not know the ids they hold.
SendOfBefore ==
  pc # "dead" /\ \E c \in Conns : \E seg \in WholeRequest(c, {UnknownId}) : Send(c, seg)

RestartedSpec == Init /\ [][ServerStep \/ ClientStep \/ SendOfBefore]_vars

\* rtsp_handler.cpp:323-326 answer what cannot be served with a 500, and lines
\* 771-775 make PLAY of a session that does not exist such a case: the server
\* outlives a request it has answered.
AnsweredRequestSurvives == [][fault' = "null" => awaited' = awaited]_vars

-----------------------------------------------------------------------------
\* The n-th request of a player, from whatever number it counts.
Step(n) ==
  CASE n = 1 -> {"OPTIONS"}
    [] n = 2 -> {"DESCRIBE"}
    [] n \in {3, 4} -> {"SETUP"}
    [] OTHER -> {"PLAY", "PAUSE", "TEARDOWN"}

TrackOf(n) == CASE n = 3 -> Video [] n = 4 -> Audio [] OTHER -> None

DialogSegment(c) ==
  [binary : {FALSE}, method : Step(sent[c] + 1), track : {TrackOf(sent[c] + 1)},
   cseq : {NextCSeq(c)},
   session : IF HasSession(c) THEN {learned[c]} ELSE {None}]

SendDialog ==
  /\ pc # "dead"
  /\ \E c \in Conns : /\ awaited[c] = {}
                      /\ \E seg \in DialogSegment(c) : Send(c, seg)

DialogNext == ServerStep \/ ClientStep \/ SendDialog

\* The server is one thread that never rests while it can act.  A stream is two
\* files of finite length: it ends if its client reads again and again, even
\* with pauses (TcpStreaming shows it).  Nothing is assumed of what the clients
\* do.
DialogSpec ==
  Init /\ [][DialogNext]_vars /\ WF_vars(pc = "loop" /\ ServerStep) /\ SF_vars(StreamFlows)

\* The CSeqs of the SETUPs that a player has sent.
SetupCSeqs(c) == {FirstCSeq[c] + n - 1 : n \in {3, 4} \cap 1..sent[c]}

\* Those that handleCmd_SETUP_TCP has no answer for (lines 482-506): all but 3 and
\* 4, so that only a player that counts from 1 gets both of its answers.
Ignored(c) == SetupCSeqs(c) \ {3, 4}

\* A request that was read was answered, except such a SETUP, for whose answer the
\* player waits in vain.
AllAnswered ==
  \A c \in Conns :
    LET unread == {inbox[c][i].cseq : i \in DOMAIN inbox[c]} IN
    awaited[c] = unread \cup Ignored(c)

Stuck == pc = "dead" \/ (pc = "stream" /\ stream.conn \in stalled)

\* accept() has no descriptor for the client.
Pending(c) == c \in ToSet(backlog) /\ Free = {}

\* Every other request is answered unless its client leaves, the process died, the
\* one thread is held for ever by a client that does not read its stream, or there
\* is never a descriptor for the connection.
Answered ==
  (<>[]Stuck) \/
    (\A c \in Conns :
       (<>[]Pending(c)) \/
         (~(awaited[c] \subseteq Ignored(c)) ~> (awaited[c] \subseteq Ignored(c) \/ link[c] # "up")))
=============================================================================
