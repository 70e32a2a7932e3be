----------------------------- MODULE RtspServer -----------------------------
(***************************************************************************)
(* The server as main() runs it: EpollServer's event loop on one thread,   *)
(* a fresh RtspHandler per ready descriptor, and the two singletons the    *)
(* handlers share, SessionManager (session id -> Session) and              *)
(* ClientFdManager (descriptor -> audio/video flag and session id).        *)
(*                                                                         *)
(* The clients and the kernel's sockets are the environment.  A connection *)
(* is used once; descriptors are reused, which is what makes the tables    *)
(* keyed by descriptor interesting.                                        *)
(***************************************************************************)
EXTENDS RtspMessages, FiniteSets, SequencesExt

CONSTANTS Conns,         \* the connections clients open
          Fds,           \* the descriptors accept() can return
          Listener,      \* serverFd_
          Backlog,       \* pending connections the kernel keeps (listen)
          MaxSegments,   \* bound: segments a client sends on a connection
          FirstCSeq,     \* the CSeq of each client's first request
          Spoken,        \* the methods clients use
          StateGarbage   \* what an uninitialised state_ can hold

ASSUME FdsFinite == IsFiniteSet(Fds)
ASSUME ListenerNotFd == Listener \notin Fds
ASSUME NoneNotConn == None \notin Conns
ASSUME BoundsAssumption ==
  Backlog \in Nat /\ MaxSegments \in Nat /\ FirstCSeq \in [Conns -> Nat]
ASSUME SpokenAssumption == Spoken \subseteq Methods

SessionStaus == {"NONE", "PLAYING", "PAUSE", "TEARDOWN"}

ASSUME GarbageAssumption == StateGarbage \subseteq SessionStaus

VARIABLES
  \* kernel and clients
  link,           \* state of each connection, seen from the client
  backlog,        \* connections waiting for accept()
  inbox,          \* bytes that arrived and were not read, per connection
  sent,           \* number of segments each client has sent
  awaited,        \* CSeqs a client has asked with and has no answer to
  learned,        \* the session id an answer to SETUP gave the client
  stalled,        \* clients that do not read what is streamed to them
  \* EpollServer
  fdConn,         \* the connection behind each open descriptor, or None
  leaked,         \* the descriptors of files that streams have left open
  batch,          \* events[] from the current one on; its head is in hand
  pc,             \* what the thread is doing
  fault,          \* what ended the process
  stream,         \* the stream in progress: whose, of what, asked for by what
  \* SessionManager and ClientFdManager
  sessions,       \* the sessions; the n-th generated id is n
  avFlags,        \* avFlags_
  avSessionIds    \* avSessionIds_

clientVars == <<link, sent, stalled>>
talkVars == <<inbox, awaited, learned>>
loopVars == <<backlog, fdConn, leaked, batch>>
runVars == <<pc, fault, stream>>
tableVars == <<sessions, avFlags, avSessionIds>>
vars == <<clientVars, talkVars, loopVars, runVars, tableVars>>

Session == [conn : Conns, tracks : SUBSET Tracks, state : SessionStaus]
Event == [fd : Fds \cup {Listener}, conn : Conns \cup {None}, events : {"IN", "ERR"}]
Stream == [conn : Conns, session : Int, cause : Methods]

TypeOK ==
  /\ link \in [Conns -> {"idle", "up", "fin", "rst"}]
  /\ backlog \in Seq(Conns)
  /\ inbox \in [Conns -> Seq(Segment)]
  /\ sent \in [Conns -> Nat]
  /\ awaited \in [Conns -> SUBSET Int]
  /\ learned \in [Conns -> Int]
  /\ stalled \subseteq Conns
  /\ fdConn \in [Fds -> Conns \cup {None}]
  /\ leaked \subseteq {f \in Fds : fdConn[f] = None}
  /\ batch \in Seq(Event)
  /\ pc \in {"loop", "stream", "dead"}
  /\ fault \in {"none", "null", "sigpipe"}
  /\ stream \in Stream \cup {None}
  /\ sessions \in Seq(Session)
  /\ avFlags \in [Fds -> Tracks]
  /\ avSessionIds \in [Fds -> Int]

Init ==
  /\ link = [c \in Conns |-> "idle"]
  /\ backlog = <<>>
  /\ inbox = [c \in Conns |-> <<>>]
  /\ sent = [c \in Conns |-> 0]
  /\ awaited = [c \in Conns |-> {}]
  /\ learned = [c \in Conns |-> NoSession]
  /\ stalled = {}
  /\ fdConn = [f \in Fds |-> None]
  /\ leaked = {}
  /\ batch = <<>>
  /\ pc = "loop"
  /\ fault = "none"
  /\ stream = None
  /\ sessions = <<>>
  /\ avFlags = [f \in Fds |-> Video]
  /\ avSessionIds = [f \in Fds |-> NoSession]

-----------------------------------------------------------------------------
(* Clients and the kernel.  They act at any moment of the server's thread. *)

Connect(c) ==
  /\ link[c] = "idle"
  /\ Len(backlog) < Backlog
  /\ link' = [link EXCEPT ![c] = "up"]
  /\ backlog' = Append(backlog, c)
  /\ UNCHANGED <<sent, stalled, talkVars, fdConn, leaked, batch, runVars, tableVars>>

NextCSeq(c) == FirstCSeq[c] + sent[c]

Send(c, seg) ==
  /\ link[c] = "up"
  /\ sent[c] < MaxSegments
  /\ seg.cseq \in {None, NextCSeq(c)}
  /\ sent' = [sent EXCEPT ![c] = @ + 1]
  /\ inbox' = [inbox EXCEPT ![c] = Append(@, seg)]
  /\ awaited' = [awaited EXCEPT ![c] = @ \cup ({seg.cseq} \ {None})]
  /\ UNCHANGED <<link, stalled, learned, loopVars, runVars, tableVars>>

\* The client closes in order (fin), or the connection is reset (rst), which
\* also follows when the server writes to a client that closed.
HangUp(c, how) ==
  /\ \/ link[c] = "up" /\ how \in {"fin", "rst"}
     \/ link[c] = "fin" /\ how = "rst"
  /\ link' = [link EXCEPT ![c] = how]
  /\ UNCHANGED <<sent, stalled, talkVars, loopVars, runVars, tableVars>>

\* The client of the running stream stops reading, and takes it up again.
Stall(c) ==
  /\ link[c] = "up" /\ c \notin stalled
  /\ pc = "stream" /\ stream.conn = c
  /\ stalled' = stalled \cup {c}
  /\ UNCHANGED <<link, sent, talkVars, loopVars, runVars, tableVars>>

Resume(c) ==
  /\ c \in stalled
  /\ stalled' = stalled \ {c}
  /\ UNCHANGED <<link, sent, talkVars, loopVars, runVars, tableVars>>

-----------------------------------------------------------------------------
(* EpollServer::init, the event loop. *)

ReadyFds ==
  {f \in Fds : /\ fdConn[f] # None
               /\ inbox[fdConn[f]] # <<>> \/ link[fdConn[f]] \in {"fin", "rst"}}
  \cup {f \in {Listener} : backlog # <<>>}

\* EPOLLIN, or also EPOLLERR and EPOLLHUP once the connection is reset.
EventOf(f) ==
  IF f = Listener THEN [fd |-> f, conn |-> None, events |-> "IN"]
  ELSE [fd |-> f, conn |-> fdConn[f],
        events |-> IF link[fdConn[f]] = "rst" THEN "ERR" ELSE "IN"]

\* epoll_wait: level-triggered, every ready descriptor once, in any order.
EpollWait ==
  /\ pc = "loop" /\ batch = <<>>
  /\ ReadyFds # {}
  /\ \E order \in SetToSeqs(ReadyFds) :
       batch' = [i \in DOMAIN order |-> EventOf(order[i])]
  /\ UNCHANGED <<clientVars, talkVars, backlog, fdConn, leaked, runVars, tableVars>>

\* The event in hand, and the step to the one after it.
InHand(e) == pc = "loop" /\ batch # <<>> /\ e = Head(batch)
NextEvent == pc' = "loop" /\ batch' = Tail(batch)

\* Mutation: without its continue, the error case leaves the event in hand.
ErrorEventKept(e) ==
  /\ InHand(e) /\ e.events = "ERR"
  /\ fdConn' = [fdConn EXCEPT ![e.fd] = None]
  /\ UNCHANGED <<clientVars, talkVars, backlog, leaked, batch, runVars, tableVars>>

\* Line 87: an error event closes the descriptor, which leaves the epoll set.
ErrorEvent(e) ==
  /\ InHand(e) /\ e.events = "ERR"
  /\ fdConn' = [fdConn EXCEPT ![e.fd] = None]
  /\ NextEvent
  /\ UNCHANGED <<clientVars, talkVars, backlog, leaked, fault, stream, tableVars>>

Free == {f \in Fds : fdConn[f] = None} \ leaked

\* accept() takes the oldest pending connection; a descriptor that was used
\* before keeps the flag and the session id it had.
Accept(e) ==
  /\ InHand(e) /\ e.fd = Listener /\ e.events = "IN"
  /\ \E f \in Free : fdConn' = [fdConn EXCEPT ![f] = Head(backlog)]
  /\ backlog' = Tail(backlog)
  /\ NextEvent
  /\ UNCHANGED <<clientVars, talkVars, leaked, fault, stream, tableVars>>

\* accept() fails for want of a descriptor; the connection stays pending, so
\* the next epoll_wait reports it again.
AcceptFails(e) ==
  /\ InHand(e) /\ e.fd = Listener /\ e.events = "IN"
  /\ Free = {}
  /\ NextEvent
  /\ UNCHANGED <<clientVars, talkVars, backlog, fdConn, leaked, fault, stream, tableVars>>

-----------------------------------------------------------------------------
(* RtspHandler::handleRequest. *)

Request(e) == InHand(e) /\ e.fd # Listener /\ e.events = "IN"

\* recv() returns 0 or fails: recv_message removes and closes the descriptor.
\* The tables keyed by it are left as they are.
Disconnect(e) ==
  /\ Request(e)
  /\ inbox[fdConn[e.fd]] = <<>>
  /\ fdConn' = [fdConn EXCEPT ![e.fd] = None]
  /\ NextEvent
  /\ UNCHANGED <<clientVars, talkVars, backlog, leaked, fault, stream, tableVars>>

Die(why) ==
  /\ pc' = "dead" /\ fault' = why
  /\ UNCHANGED <<batch, stream>>

\* The answer to cseq is sent, and reaches a client that has not left; id is the
\* Session line of a SETUP's.
Answer(c, cseq, id) ==
  /\ awaited' = [awaited EXCEPT ![c] = @ \ {cseq}]
  /\ learned' = [learned EXCEPT ![c] = IF id = NoSession THEN @ ELSE id]

NoAnswer == UNCHANGED <<awaited, learned>>

\* Mutation: the loop goes on with the next event while the stream runs.
ActOnSessionAsync(c, method, id, table) ==
  /\ NextEvent \/ (pc' = "stream" /\ batch' = Tail(batch))
  /\ pc' = "stream" <=> (id \in DOMAIN table /\ table[id].state = "PLAYING")
  /\ stream' = IF pc' = "stream"
               THEN [conn |-> c, session |-> id, cause |-> method] ELSE stream
  /\ UNCHANGED fault

\* Behind the send() of the answer, lines 64-100: with a session id in hand, look
\* the session up and act on its state.  The lookup is not checked: an unknown id
\* is dereferenced.  The send() itself may raise SIGPIPE if the client has reset.
ActOnSession(c, method, id, table) ==
  \/ /\ \/ id = NoSession
        \/ id \in DOMAIN table /\ table[id].state # "PLAYING"
     /\ NextEvent
     /\ UNCHANGED <<fault, stream>>
  \/ /\ id \in DOMAIN table /\ table[id].state = "PLAYING"
     /\ pc' = "stream"
     /\ stream' = [conn |-> c, session |-> id, cause |-> method]
     /\ UNCHANGED <<batch, fault>>
  \/ /\ id # NoSession /\ id \notin DOMAIN table
     /\ Die("null")
  \/ link[c] = "rst" /\ Die("sigpipe")

\* OPTIONS, DESCRIBE, PAUSE, TEARDOWN and the 501 of any other method: an
\* answer and no other effect.
JustAnswer(c, method, cseq, id) ==
  /\ Answer(c, cseq, NoSession)
  /\ ActOnSession(c, method, id, sessions)
  /\ UNCHANGED <<sessions, avSessionIds>>

\* Mutation: only the first SETUP is answered.
AnswerSetupFirst(c, cseq, id) ==
  \/ cseq = 3 /\ Answer(c, cseq, id)
  \/ cseq # 3 /\ NoAnswer

\* handleCmd_SETUP_TCP writes an answer for the CSeqs 3 and 4 only.
AnswerSetup(c, cseq, id) ==
  \/ cseq \in {3, 4} /\ Answer(c, cseq, id)
  \/ cseq \notin {3, 4} /\ NoAnswer

\* Mutation: the constructor takes the state the comment on state_ lists first.
SetupVideoAsSetup(c, f, cseq) ==
  LET id == Len(sessions) + 1
      table == Append(sessions, [conn |-> c, tracks |-> {Video}, state |-> "SETUP"]) IN
  /\ sessions' = table
  /\ avSessionIds' = [avSessionIds EXCEPT ![f] = id]
  /\ AnswerSetup(c, cseq, id)
  /\ ActOnSession(c, "SETUP", id, table)

\* Mutation: as on the UDP path, an early return between setSessionIds and
\* addSession.
SetupVideoEarlyReturn(c, f, cseq) ==
  LET id == Len(sessions) + 1 IN
  /\ avSessionIds' = [avSessionIds EXCEPT ![f] = id]
  /\ Answer(c, cseq, id)
  /\ ActOnSession(c, "SETUP", id, sessions)
  /\ UNCHANGED sessions

\* SETUP of the video track: a new id, a new session.  Session's constructor
\* does not initialise state_, so a session starts in any state.
SetupVideo(c, f, cseq) ==
  LET id == Len(sessions) + 1 IN
  \E s \in StateGarbage :
    LET sess == [conn |-> c, tracks |-> {Video}, state |-> s] IN
    /\ sessions' = Append(sessions, sess)
    /\ avSessionIds' = [avSessionIds EXCEPT ![f] = id]
    /\ AnswerSetup(c, cseq, id)
    /\ ActOnSession(c, "SETUP", id, Append(sessions, sess))

\* SETUP of the audio track joins the session recorded for the descriptor;
\* setInfo is called on whatever getSession returned.
SetupAudio(c, f, cseq) ==
  LET id == avSessionIds[f] IN
  /\ UNCHANGED avSessionIds
  /\ \/ /\ id \in DOMAIN sessions
        /\ sessions' = [sessions EXCEPT ![id].tracks = @ \cup {Audio}]
        /\ AnswerSetup(c, cseq, id)
        /\ ActOnSession(c, "SETUP", id, sessions)
     \/ /\ id \notin DOMAIN sessions
        /\ Die("null")
        /\ NoAnswer
        /\ UNCHANGED sessions

\* PLAY marks the session; an unknown session is answered with a 500.
Play(c, cseq, id) ==
  /\ Answer(c, cseq, NoSession)
  /\ UNCHANGED avSessionIds
  /\ \/ /\ id \in DOMAIN sessions
        /\ sessions' = [sessions EXCEPT ![id].state = "PLAYING"]
     \/ /\ id \notin DOMAIN sessions
        /\ UNCHANGED sessions
  /\ ActOnSession(c, "PLAY", id, sessions')

\* build_string_tcp
Dispatch(c, f, method, cseq, id, flag) ==
  \/ method \notin {"SETUP", "PLAY"} /\ JustAnswer(c, method, cseq, id)
  \/ method = "SETUP" /\ flag = Video /\ SetupVideo(c, f, cseq)
  \/ method = "SETUP" /\ flag = Audio /\ SetupAudio(c, f, cseq)
  \/ method = "PLAY" /\ Play(c, cseq, id)

\* One recv() takes everything that arrived; one request is made of it.
HandleRequest(e) ==
  /\ Request(e)
  /\ LET c == fdConn[e.fd] IN
     /\ inbox[c] # <<>>
     /\ inbox' = [inbox EXCEPT ![c] = <<>>]
     /\ \E flag \in FlagsOf(inbox[c], avFlags[e.fd]) :
          /\ avFlags' = [avFlags EXCEPT ![e.fd] = flag]
          /\ \E method \in MethodsOf(inbox[c]), cseq \in CSeqsOf(inbox[c]),
                id \in SessionsOf(inbox[c]) :
                  Dispatch(c, e.fd, method, cseq, id, flag)
  /\ UNCHANGED <<clientVars, backlog, fdConn, leaked>>

-----------------------------------------------------------------------------
(* sendH264AacOverTcp: the loop waits until both sending threads are done. *)

\* The files are sent, the last of it perhaps into the socket's buffer only.  If the
\* video is broken off, its file stays open (lines 1052 and 1071).
StreamEnd ==
  /\ pc = "stream"
  /\ NextEvent
  /\ stream' = None
  /\ leaked' \in {leaked} \cup {leaked \cup {f} : f \in Free}
  /\ UNCHANGED <<clientVars, talkVars, backlog, fdConn, fault, tableVars>>

\* send() does not block for good: the client reads, or is gone.
StreamFlows ==
  /\ pc = "stream"
  /\ stream.conn \notin stalled \/ link[stream.conn] # "up"
  /\ StreamEnd

\* send() on a connection the client has left raises SIGPIPE, which nothing
\* ignores.
StreamSigpipe ==
  /\ pc = "stream"
  /\ link[stream.conn] \in {"fin", "rst"}
  /\ Die("sigpipe")
  /\ UNCHANGED <<clientVars, talkVars, backlog, fdConn, leaked, tableVars>>

-----------------------------------------------------------------------------
ServerStep ==
  \/ EpollWait
  \/ \E e \in Event : ErrorEvent(e) \/ Accept(e) \/ AcceptFails(e)
  \/ \E e \in Event : Disconnect(e) \/ HandleRequest(e)
  \/ StreamEnd
  \/ StreamSigpipe

\* What clients do besides sending; the specifications differ in what they send.
ClientStep ==
  /\ pc # "dead"
  /\ \E c \in Conns :
       \/ Connect(c)
       \/ \E how \in {"fin", "rst"} : HangUp(c, how)
       \/ Stall(c)
       \/ Resume(c)

\* The ids a client may name: those generated, and one the server never gave.
UnknownId == -1
SessionLines == {None, UnknownId} \cup DOMAIN sessions

\* Any client: any piece of a request, naming any session, or RTCP data.
AnySegment(c) ==
  [binary : {FALSE}, method : Spoken \cup {None}, track : Tracks \cup {None},
   cseq : {None, NextCSeq(c)}, session : SessionLines] \cup {Rtcp}

SendAny == pc # "dead" /\ \E c \in Conns : \E seg \in AnySegment(c) : Send(c, seg)

Next == ServerStep \/ ClientStep \/ SendAny
Spec == Init /\ [][Next]_vars

-----------------------------------------------------------------------------
Current(e) ==
  \/ e.fd = Listener /\ e.events = "IN" /\ backlog # <<>>
  \/ e.fd # Listener /\ e.conn # None /\ fdConn[e.fd] = e.conn

\* Every event epoll_wait reported is still about the same connection when the
\* loop comes to it, although the events before it close descriptors and
\* accept() hands closed descriptors out again; and accept() never blocks the
\* loop, as the connection it was told of is still pending (lines 81-128).
NoStaleEvents == \A i \in DOMAIN batch : Current(batch[i])

\* While a stream runs, the descriptor both sending threads write to stays
\* open and belongs to the client that asked for it.
StreamKeepsConn ==
  pc = "stream" => batch # <<>> /\ stream.conn = fdConn[Head(batch).fd]

\* The session id recorded for a descriptor is that of a session in the
\* session table (or none): the two tables are written by different calls
\* (setSessionIds, then addSession) and never cleaned.
IdsRegistered ==
  \A f \in Fds : avSessionIds[f] # NoSession => avSessionIds[f] \in DOMAIN sessions
=============================================================================
