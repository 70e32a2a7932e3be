------------------------------ MODULE Rtsp_proofs ------------------------------
(***************************************************************************)
(* What holds of the server for every number of connections, descriptors   *)
(* and requests: first with clients that send anything, then with those    *)
(* that conform, then with players that wait for their answers.            *)
(*                                                                         *)
(* With conforming clients, for every number of them: the unchecked        *)
(* session lookups never meet an unknown id, and every client has its own  *)
(* sessions to itself.                                                     *)
(*                                                                         *)
(* The argument: a client that has learned an id got it from a session of  *)
(* its own, and the descriptor it is connected on names a session of its   *)
(* own as well, because the video SETUP that gave it the id wrote both.    *)
(* What may be left in the tables from an earlier connection is replaced   *)
(* by then, and before that the client sends nothing that reads it.        *)
(*                                                                         *)
(* Players that ask for one thing after the other, each counting from a    *)
(* number of its own: every request that is read is answered, except a     *)
(* SETUP whose CSeq is neither 3 nor 4.  It does not follow from the code  *)
(* of one handler: an audio SETUP dies without a session, and requests     *)
(* that arrive together share one answer.  What rules these out is in the  *)
(* dialog: who waits for an answer has one request on its way or one that  *)
(* was ignored, and who may send the audio SETUP has the video's session.  *)
(***************************************************************************)
EXTENDS RtspClients, FiniteSetTheorems, TLAPS

\* What the line loop makes of a buffer is of the right type, read or not.
LEMMA ParsedTypes ==
  ASSUME NEW q \in Seq(Segment), NEW flag \in Tracks
  PROVE  /\ MethodsOf(q) \subseteq Methods
         /\ CSeqsOf(q) \subseteq Int
         /\ SessionsOf(q) \subseteq Int
         /\ FlagsOf(q, flag) \subseteq Tracks
<1>1. \A i \in Read(q) : q[i] \in Segment
  BY DEF Read
<1>2. LastSaid(q, "method") \subseteq Methods
  BY <1>1 DEF LastSaid, Segment
<1>3. LastSaid(q, "cseq") \subseteq Int
  BY <1>1 DEF LastSaid, Segment
<1>4. LastSaid(q, "session") \subseteq Int
  BY <1>1 DEF LastSaid, Segment
<1>5. LastSaid(q, "track") \subseteq Tracks
  BY <1>1 DEF LastSaid, Segment
<1>6. QED
  BY <1>2, <1>3, <1>4, <1>5 DEF MethodsOf, CSeqsOf, SessionsOf, FlagsOf, Parsed, NoCSeq, NoSession

-----------------------------------------------------------------------------
(* The event loop: types and stale events.                                 *)

\* A batch holds one event per descriptor.  Without it, closing a descriptor
\* could leave a later event of the same batch behind.
EventsDistinct ==
  \A i, j \in DOMAIN batch : i # j => batch[i].fd # batch[j].fd

\* TypeOK alone is not inductive: that a handler works for a connection at
\* all, and not for a closed descriptor, is NoStaleEvents.
LoopInv == TypeOK /\ NoStaleEvents /\ EventsDistinct

\* Current, of an event of the next batch.
CurrentNext(e) ==
  \/ e.fd = Listener /\ e.events = "IN" /\ backlog' # <<>>
  \/ e.fd # Listener /\ e.conn # None /\ fdConn'[e.fd] = e.conn

\* Every step of the server and of clients of any kind.
AnyNext ==
  ServerStep \/ ClientStep \/ \E c \in Conns : \E seg \in Segment : Send(c, seg)

\* Dropping the event in hand leaves current events, if what happened to its
\* descriptor and to the backlog does not concern the others.
LEMMA TailOfBatch ==
  ASSUME LoopInv, batch # <<>>, batch' = Tail(batch)
  PROVE  /\ batch' \in Seq(Event)
         /\ EventsDistinct'
         /\ \A i \in DOMAIN batch' : /\ i + 1 \in DOMAIN batch
                                     /\ batch'[i] = batch[i + 1]
                                     /\ batch'[i].fd # Head(batch).fd
         /\ Head(batch) = batch[1] /\ 1 \in DOMAIN batch
<1>1. batch \in Seq(Event)
  BY DEF LoopInv, TypeOK
<1>2. Tail(batch) \in Seq(Event) /\ Len(Tail(batch)) = Len(batch) - 1
  BY <1>1
<1>3. \A i \in DOMAIN batch' : i + 1 \in DOMAIN batch /\ batch'[i] = batch[i + 1]
  BY <1>1, <1>2
<1>4. Head(batch) = batch[1] /\ 1 \in DOMAIN batch
  BY <1>1
<1>5. \A i \in DOMAIN batch' : i \in Nat /\ i + 1 # 1
  BY <1>1, <1>2
<1>6. \A i \in DOMAIN batch' : batch'[i].fd # Head(batch).fd
  BY <1>3, <1>4, <1>5 DEF LoopInv, EventsDistinct
<1>7. EventsDistinct'
  <2>1. ASSUME NEW i \in DOMAIN batch', NEW j \in DOMAIN batch', i # j
        PROVE  batch'[i].fd # batch'[j].fd
    <3>1. i + 1 # j + 1
      BY <1>5, <2>1
    <3>2. QED
      BY <1>3, <2>1, <3>1 DEF LoopInv, EventsDistinct
  <2>2. QED
    BY <2>1 DEF EventsDistinct
<1>8. QED
  BY <1>2, <1>3, <1>4, <1>6, <1>7

\* epoll_wait fills events[] with current events of distinct descriptors.
LEMMA EpollWaitLoopInv ==
  ASSUME LoopInv, EpollWait
  PROVE  LoopInv'
<1>1. ReadyFds \subseteq Fds \cup {Listener}
  BY DEF ReadyFds
<1>2. IsFiniteSet(ReadyFds)
  <2>1. IsFiniteSet(Fds \cup {Listener})
    BY FdsFinite, FS_AddElement
  <2>2. QED
    BY <1>1, <2>1, FS_Subset
<1> DEFINE n == Cardinality(ReadyFds)
<1>3. n \in Nat
  BY <1>2, FS_CardinalityType
<1>4. PICK order \in [1..n -> ReadyFds] :
        /\ \A i, j \in 1..n : i # j => order[i] # order[j]
        /\ batch' = [i \in 1..n |-> EventOf(order[i])]
  BY DEF EpollWait, SetToSeqs
<1>5. \A f \in ReadyFds : /\ EventOf(f) \in Event
                          /\ EventOf(f).fd = f
                          /\ Current(EventOf(f))
  BY ListenerNotFd DEF LoopInv, TypeOK, ReadyFds, EventOf, Event, Current
<1>6. batch' \in Seq(Event) /\ DOMAIN batch' = 1..n
  BY <1>3, <1>4, <1>5
<1>7. \A i \in 1..n : Current(batch'[i]) /\ batch'[i].fd = order[i]
  BY <1>4, <1>5
<1>8. NoStaleEvents'
  BY <1>6, <1>7 DEF NoStaleEvents, Current, EpollWait
<1>9. EventsDistinct'
  BY <1>4, <1>6, <1>7 DEF EventsDistinct
<1>10. TypeOK'
  BY <1>6 DEF LoopInv, TypeOK, EpollWait, clientVars, talkVars, runVars, tableVars
<1>11. QED
  BY <1>8, <1>9, <1>10 DEF LoopInv

\* Closing the descriptor of the event in hand leaves the other events current.
LEMMA CloseLoopInv ==
  ASSUME LoopInv, NEW e, InHand(e), e.fd # Listener, NextEvent,
         fdConn' = [fdConn EXCEPT ![e.fd] = None],
         UNCHANGED <<clientVars, talkVars, backlog, leaked, fault, stream, tableVars>>
  PROVE  LoopInv'
<1>1. batch # <<>> /\ batch' = Tail(batch) /\ e = Head(batch)
  BY DEF InHand, NextEvent
<1>2. NoStaleEvents'
  <2>1. ASSUME NEW i \in DOMAIN batch'
        PROVE  CurrentNext(batch'[i])
    <3>1. /\ Current(batch[i + 1]) /\ batch'[i] = batch[i + 1]
          /\ batch'[i].fd # e.fd
      BY <1>1, TailOfBatch DEF LoopInv, NoStaleEvents
    <3>2. batch'[i] \in Event
      BY <1>1, TailOfBatch
    <3>3. QED
      BY <3>1, <3>2 DEF CurrentNext, Current, LoopInv, TypeOK, Event
  <2>2. QED
    BY <2>1 DEF NoStaleEvents, Current, CurrentNext
<1>3. TypeOK'
  BY <1>1, TailOfBatch DEF LoopInv, TypeOK, NextEvent, clientVars, talkVars, tableVars
<1>4. QED
  BY <1>1, <1>2, <1>3, TailOfBatch DEF LoopInv

\* accept() hands out a closed descriptor: no event of the batch is about it.
LEMMA AcceptLoopInv ==
  ASSUME LoopInv, NEW e, Accept(e)
  PROVE  LoopInv'
<1>1. batch # <<>> /\ batch' = Tail(batch) /\ e = Head(batch) /\ e.fd = Listener
  BY DEF Accept, InHand, NextEvent
<1>2. backlog # <<>>
  <2>1. Current(batch[1])
    BY <1>1, TailOfBatch DEF LoopInv, NoStaleEvents
  <2>2. QED
    BY <1>1, <2>1, TailOfBatch DEF Current
<1>3. PICK f \in Fds : /\ fdConn[f] = None /\ f \notin leaked
                       /\ fdConn' = [fdConn EXCEPT ![f] = Head(backlog)]
  BY DEF Accept, Free
<1>4. Head(backlog) \in Conns /\ Tail(backlog) \in Seq(Conns)
  BY <1>2 DEF LoopInv, TypeOK
<1>5. NoStaleEvents'
  <2>1. ASSUME NEW i \in DOMAIN batch'
        PROVE  batch'[i].fd # Listener /\ CurrentNext(batch'[i])
    <3>1. Current(batch[i + 1]) /\ batch'[i] = batch[i + 1] /\ batch'[i].fd # Listener
      BY <1>1, TailOfBatch DEF LoopInv, NoStaleEvents
    <3>2. fdConn'[batch'[i].fd] = batch'[i].conn /\ batch'[i].conn # None
      BY <1>3, <3>1 DEF Current, LoopInv, TypeOK
    <3>3. QED
      BY <3>1, <3>2 DEF CurrentNext
  <2>2. QED
    BY <2>1 DEF NoStaleEvents, Current, CurrentNext
<1>6. TypeOK'
  BY <1>1, <1>3, <1>4, TailOfBatch
  DEF LoopInv, TypeOK, Accept, NextEvent, clientVars, talkVars, tableVars
<1>7. QED
  BY <1>1, <1>5, <1>6, TailOfBatch DEF LoopInv

LEMMA AcceptFailsLoopInv ==
  ASSUME LoopInv, NEW e, AcceptFails(e)
  PROVE  LoopInv'
<1>1. batch # <<>> /\ batch' = Tail(batch) /\ e = Head(batch)
  BY DEF AcceptFails, InHand, NextEvent
<1>2. NoStaleEvents'
  BY <1>1, TailOfBatch DEF LoopInv, NoStaleEvents, Current, AcceptFails
<1>3. TypeOK'
  BY <1>1, TailOfBatch
  DEF LoopInv, TypeOK, AcceptFails, NextEvent, clientVars, talkVars, tableVars
<1>4. QED
  BY <1>1, <1>2, <1>3, TailOfBatch DEF LoopInv

\* A request in hand is that of an open connection.
LEMMA RequestConn ==
  ASSUME LoopInv, NEW e, Request(e)
  PROVE  e.fd \in Fds /\ fdConn[e.fd] \in Conns /\ batch # <<>> /\ e = Head(batch)
<1>1. batch # <<>> /\ e = Head(batch) /\ e.fd # Listener
  BY DEF Request, InHand
<1>2. e = batch[1] /\ 1 \in DOMAIN batch /\ batch[1] \in Event
  BY <1>1 DEF LoopInv, TypeOK
<1>3. fdConn[e.fd] = e.conn /\ e.conn # None
  BY <1>1, <1>2 DEF LoopInv, NoStaleEvents, Current
<1>4. QED
  BY <1>1, <1>2, <1>3 DEF Event, LoopInv, TypeOK

\* Whatever becomes of the session, the thread goes on in a proper state, with
\* the batch as it was or without the event in hand.
LEMMA ActOnSessionTypes ==
  ASSUME LoopInv, NEW c \in Conns, NEW method \in Methods, NEW id \in Int, NEW table,
         ActOnSession(c, method, id, table)
  PROVE  /\ pc' \in {"loop", "stream", "dead"}
         /\ fault' \in {"none", "null", "sigpipe"}
         /\ stream' \in Stream \cup {None}
         /\ batch' = batch \/ batch' = Tail(batch)
  BY DEF ActOnSession, NextEvent, Die, LoopInv, TypeOK, Stream

LEMMA AnswerTypes ==
  ASSUME LoopInv, NEW c \in Conns, NEW cseq \in Int, NEW id \in Int,
         Answer(c, cseq, id) \/ NoAnswer
  PROVE  awaited' \in [Conns -> SUBSET Int] /\ learned' \in [Conns -> Int]
<1>1. awaited \in [Conns -> SUBSET Int] /\ learned \in [Conns -> Int]
  BY DEF LoopInv, TypeOK
<1>2. CASE NoAnswer
  BY <1>1, <1>2 DEF NoAnswer
<1>3. CASE Answer(c, cseq, id)
  <2>1. awaited' \in [Conns -> SUBSET Int]
    BY <1>1, <1>3 DEF Answer
  <2>2. learned' \in [Conns -> Int]
    BY <1>1, <1>3 DEF Answer
  <2>3. QED
    BY <2>1, <2>2
<1>4. QED
  BY <1>2, <1>3

LEMMA ReplaceInSeq ==
  ASSUME NEW S, NEW s \in Seq(S), NEW i \in DOMAIN s, NEW x \in S
  PROVE  /\ [s EXCEPT ![i] = x] \in Seq(S)
         /\ Len([s EXCEPT ![i] = x]) = Len(s)
<1>1. Len(s) \in Nat /\ DOMAIN s = 1..Len(s)
  OBVIOUS
<1>2. [s EXCEPT ![i] = x] \in [1..Len(s) -> S]
  BY <1>1
<1>3. QED
  BY <1>1, <1>2

\* What every request leaves behind, whichever it is.
LEMMA DispatchTypes ==
  ASSUME LoopInv, batch # <<>>,
         NEW c \in Conns, NEW f \in Fds, NEW method \in Methods, NEW cseq \in Int,
         NEW id \in Int, NEW flag \in Tracks, Dispatch(c, f, method, cseq, id, flag)
  PROVE  /\ pc' \in {"loop", "stream", "dead"}
         /\ fault' \in {"none", "null", "sigpipe"}
         /\ stream' \in Stream \cup {None}
         /\ batch' = batch \/ batch' = Tail(batch)
         /\ awaited' \in [Conns -> SUBSET Int] /\ learned' \in [Conns -> Int]
         /\ sessions' \in Seq(Session)
         /\ avSessionIds' \in [Fds -> Int]
<1>1. CASE JustAnswer(c, method, cseq, id)
  <2>1. sessions' \in Seq(Session) /\ avSessionIds' \in [Fds -> Int]
    BY <1>1 DEF JustAnswer, LoopInv, TypeOK
  <2>2. QED
    BY <1>1, <2>1, ActOnSessionTypes, AnswerTypes DEF JustAnswer, NoSession
<1>2. CASE method = "SETUP" /\ SetupVideo(c, f, cseq)
  <2> DEFINE new == Len(sessions) + 1
  <2>1. new \in Int
    BY DEF LoopInv, TypeOK
  <2>2. PICK s \in StateGarbage :
          LET sess == [conn |-> c, tracks |-> {Video}, state |-> s] IN
          /\ sessions' = Append(sessions, sess)
          /\ avSessionIds' = [avSessionIds EXCEPT ![f] = new]
          /\ AnswerSetup(c, cseq, new)
          /\ ActOnSession(c, "SETUP", new, Append(sessions, sess))
    BY <1>2 DEF SetupVideo
  <2>3. [conn |-> c, tracks |-> {Video}, state |-> s] \in Session
    BY GarbageAssumption DEF Session, Tracks
  <2>4. sessions' \in Seq(Session) /\ avSessionIds' \in [Fds -> Int]
    BY <2>1, <2>2, <2>3 DEF LoopInv, TypeOK
  <2>5. QED
    BY <1>2, <2>1, <2>2, <2>4, ActOnSessionTypes, AnswerTypes DEF AnswerSetup
<1>3. CASE method = "SETUP" /\ SetupAudio(c, f, cseq)
  <2> DEFINE old == avSessionIds[f]
  <2>1. old \in Int /\ avSessionIds' \in [Fds -> Int]
    BY <1>3 DEF SetupAudio, LoopInv, TypeOK
  <2>2. CASE /\ old \in DOMAIN sessions
             /\ sessions' = [sessions EXCEPT ![old].tracks = @ \cup {Audio}]
             /\ AnswerSetup(c, cseq, old)
             /\ ActOnSession(c, "SETUP", old, sessions)
    <3>1. sessions' \in Seq(Session)
      <4>1. sessions \in Seq(Session) /\ sessions[old] \in Session
        BY <2>2 DEF LoopInv, TypeOK
      <4>2. [sessions[old] EXCEPT !.tracks = @ \cup {Audio}] \in Session
        BY <4>1 DEF Session, Tracks
      <4>3. QED
        BY <2>2, <4>1, <4>2, ReplaceInSeq
    <3>2. QED
      BY <1>3, <2>1, <2>2, <3>1, ActOnSessionTypes, AnswerTypes DEF AnswerSetup
  <2>3. CASE Die("null") /\ NoAnswer /\ UNCHANGED sessions
    BY <2>1, <2>3 DEF Die, NoAnswer, LoopInv, TypeOK
  <2>4. QED
    BY <1>3, <2>2, <2>3 DEF SetupAudio
<1>4. CASE method = "PLAY" /\ Play(c, cseq, id)
  <2>1. avSessionIds' \in [Fds -> Int]
    BY <1>4 DEF Play, LoopInv, TypeOK
  <2>2. sessions' \in Seq(Session)
    <3>1. CASE /\ id \in DOMAIN sessions
               /\ sessions' = [sessions EXCEPT ![id].state = "PLAYING"]
      <4>1. sessions \in Seq(Session) /\ sessions[id] \in Session
        BY <3>1 DEF LoopInv, TypeOK
      <4>2. [sessions[id] EXCEPT !.state = "PLAYING"] \in Session
        BY <4>1 DEF Session, SessionStaus
      <4>3. QED
        BY <3>1, <4>1, <4>2, ReplaceInSeq
    <3>2. CASE UNCHANGED sessions
      BY <3>2 DEF LoopInv, TypeOK
    <3>3. QED
      BY <1>4, <3>1, <3>2 DEF Play
  <2>3. QED
    BY <1>4, <2>1, <2>2, ActOnSessionTypes, AnswerTypes DEF Play, NoSession
<1>5. QED
  BY <1>1, <1>2, <1>3, <1>4 DEF Dispatch

LEMMA HandleRequestLoopInv ==
  ASSUME LoopInv, NEW e, HandleRequest(e)
  PROVE  LoopInv'
<1> DEFINE c == fdConn[e.fd]
<1>1. e.fd \in Fds /\ c \in Conns /\ batch # <<>>
  BY RequestConn DEF HandleRequest
<1>2. /\ MethodsOf(inbox[c]) \subseteq Methods
      /\ CSeqsOf(inbox[c]) \subseteq Int
      /\ SessionsOf(inbox[c]) \subseteq Int
      /\ FlagsOf(inbox[c], avFlags[e.fd]) \subseteq Tracks
  BY <1>1, ParsedTypes DEF LoopInv, TypeOK
<1>3. PICK flag \in Tracks, method \in Methods, cseq \in Int, id \in Int :
        /\ avFlags' = [avFlags EXCEPT ![e.fd] = flag]
        /\ Dispatch(c, e.fd, method, cseq, id, flag)
  BY <1>2 DEF HandleRequest
<1>4. inbox' \in [Conns -> Seq(Segment)] /\ avFlags' \in [Fds -> Tracks]
  BY <1>1, <1>3 DEF HandleRequest, LoopInv, TypeOK
<1>5. TypeOK'
  BY <1>1, <1>3, <1>4, DispatchTypes, TailOfBatch
  DEF HandleRequest, LoopInv, TypeOK, clientVars
<1>6. NoStaleEvents' /\ EventsDistinct'
  <2>1. batch' = batch \/ batch' = Tail(batch)
    BY <1>1, <1>3, DispatchTypes
  <2>2. UNCHANGED <<backlog, fdConn>>
    BY DEF HandleRequest
  <2>3. QED
    BY <1>1, <2>1, <2>2, TailOfBatch DEF LoopInv, NoStaleEvents, Current, EventsDistinct
<1>7. QED
  BY <1>5, <1>6 DEF LoopInv

LEMMA StreamLoopInv ==
  ASSUME LoopInv, batch # <<>>, StreamEnd \/ StreamSigpipe
  PROVE  LoopInv'
<1>1. batch' = Tail(batch) \/ batch' = batch
  BY DEF StreamEnd, StreamSigpipe, NextEvent, Die
<1>2. UNCHANGED <<clientVars, talkVars, backlog, fdConn, tableVars>>
  BY DEF StreamEnd, StreamSigpipe
<1>3. NoStaleEvents' /\ EventsDistinct' /\ batch' \in Seq(Event)
  <2>1. CASE batch' = Tail(batch)
    BY <1>2, <2>1, TailOfBatch DEF LoopInv, NoStaleEvents, Current
  <2>2. CASE batch' = batch
    BY <1>2, <2>2 DEF LoopInv, TypeOK, NoStaleEvents, Current, EventsDistinct
  <2>3. QED
    BY <1>1, <2>1, <2>2
<1>4. leaked' \subseteq {g \in Fds : fdConn[g] = None}
  BY DEF LoopInv, TypeOK, StreamEnd, StreamSigpipe, Free
<1>5. TypeOK'
  BY <1>2, <1>3, <1>4 DEF LoopInv, TypeOK, StreamEnd, StreamSigpipe, NextEvent, Die,
                          clientVars, talkVars, tableVars
<1>6. QED
  BY <1>3, <1>5 DEF LoopInv

\* Clients and the kernel only add to the backlog and to the inboxes.
LEMMA ClientLoopInv ==
  ASSUME LoopInv, ClientStep \/ \E c \in Conns : \E seg \in Segment : Send(c, seg)
  PROVE  LoopInv'
<1>1. CASE \E c \in Conns : Connect(c)
  <2>1. PICK c \in Conns : Connect(c)
    BY <1>1
  <2>2. backlog' \in Seq(Conns) /\ backlog' # <<>>
    BY <2>1 DEF Connect, LoopInv, TypeOK
  <2>3. TypeOK'
    BY <2>1, <2>2 DEF Connect, LoopInv, TypeOK, talkVars, runVars, tableVars
  <2>4. NoStaleEvents' /\ EventsDistinct'
    BY <2>1, <2>2 DEF Connect, LoopInv, NoStaleEvents, Current, EventsDistinct
  <2>5. QED
    BY <2>3, <2>4 DEF LoopInv
<1>2. CASE \E c \in Conns : \E seg \in Segment : Send(c, seg)
  <2>1. PICK c \in Conns, seg \in Segment : Send(c, seg)
    BY <1>2
  <2>2. seg.cseq \in Int \cup {None} /\ sent[c] + 1 \in Nat
    BY <2>1 DEF Segment, LoopInv, TypeOK
  <2>3. awaited' \in [Conns -> SUBSET Int]
    BY <2>1, <2>2 DEF Send, LoopInv, TypeOK
  <2>4. inbox' \in [Conns -> Seq(Segment)]
    BY <2>1 DEF Send, LoopInv, TypeOK
  <2>5. TypeOK'
    BY <2>1, <2>2, <2>3, <2>4 DEF Send, LoopInv, TypeOK, loopVars, runVars, tableVars
  <2>6. NoStaleEvents' /\ EventsDistinct'
    BY <2>1 DEF Send, LoopInv, NoStaleEvents, Current, EventsDistinct, loopVars
  <2>7. QED
    BY <2>5, <2>6 DEF LoopInv
<1>3. CASE \E c \in Conns : \/ \E how \in {"fin", "rst"} : HangUp(c, how)
                            \/ Stall(c) \/ Resume(c)
  <2>1. UNCHANGED <<sent, talkVars, loopVars, runVars, tableVars>>
    BY <1>3 DEF HangUp, Stall, Resume
  <2>2. link' \in [Conns -> {"idle", "up", "fin", "rst"}] /\ stalled' \subseteq Conns
    BY <1>3 DEF HangUp, Stall, Resume, LoopInv, TypeOK
  <2>3. TypeOK'
    BY <2>1, <2>2 DEF LoopInv, TypeOK, talkVars, loopVars, runVars, tableVars
  <2>4. NoStaleEvents' /\ EventsDistinct'
    BY <2>1 DEF LoopInv, NoStaleEvents, Current, EventsDistinct, loopVars
  <2>5. QED
    BY <2>3, <2>4 DEF LoopInv
<1>4. QED
  BY <1>1, <1>2, <1>3 DEF ClientStep

-----------------------------------------------------------------------------
LEMMA LoopInvStep ==
  ASSUME LoopInv, StreamKeepsConn, [AnyNext]_vars
  PROVE  LoopInv'
<1>1. CASE EpollWait
  BY <1>1, EpollWaitLoopInv
<1>2. CASE \E e \in Event : ErrorEvent(e)
  <2>1. PICK e \in Event : ErrorEvent(e)
    BY <1>2
  <2>2. e.fd # Listener
    <3>1. e = batch[1] /\ 1 \in DOMAIN batch
      BY <2>1 DEF ErrorEvent, InHand, LoopInv, TypeOK
    <3>2. QED
      BY <2>1, <3>1 DEF ErrorEvent, LoopInv, NoStaleEvents, Current
  <2>3. QED
    BY <2>1, <2>2, CloseLoopInv DEF ErrorEvent
<1>3. CASE \E e \in Event : Accept(e)
  BY <1>3, AcceptLoopInv
<1>4. CASE \E e \in Event : AcceptFails(e)
  BY <1>4, AcceptFailsLoopInv
<1>5. CASE \E e \in Event : Disconnect(e)
  BY <1>5, CloseLoopInv DEF Disconnect, Request
<1>6. CASE \E e \in Event : HandleRequest(e)
  BY <1>6, HandleRequestLoopInv
<1>7. CASE StreamEnd \/ StreamSigpipe
  BY <1>7, StreamLoopInv DEF StreamKeepsConn, StreamEnd, StreamSigpipe
<1>8. CASE ClientStep \/ \E c \in Conns : \E seg \in Segment : Send(c, seg)
  BY <1>8, ClientLoopInv
<1>9. CASE UNCHANGED vars
  BY <1>9 DEF vars, clientVars, talkVars, loopVars, runVars, tableVars,
              LoopInv, TypeOK, NoStaleEvents, Current, EventsDistinct
<1>10. QED
  BY <1>1, <1>2, <1>3, <1>4, <1>5, <1>6, <1>7, <1>8, <1>9 DEF AnyNext, ServerStep

\* A stream starts only for the request in hand, which stays in hand.
LEMMA DispatchStream ==
  ASSUME NEW c, NEW f, NEW method, NEW cseq, NEW id, NEW flag,
         Dispatch(c, f, method, cseq, id, flag), pc' = "stream"
  PROVE  batch' = batch /\ stream'.conn = c
<1>1. \A m, n, table : ActOnSession(c, m, n, table) => batch' = batch /\ stream'.conn = c
  BY DEF ActOnSession, NextEvent, Die
<1>2. QED
  BY <1>1 DEF Dispatch, JustAnswer, SetupVideo, SetupAudio, Play, Die

LEMMA StreamKeepsConnStep ==
  ASSUME LoopInv, StreamKeepsConn, [AnyNext]_vars
  PROVE  StreamKeepsConn'
<1>1. CASE \E e \in Event : HandleRequest(e)
  <2>1. PICK e \in Event : HandleRequest(e)
    BY <1>1
  <2>2. batch # <<>> /\ e = Head(batch)
    BY <2>1 DEF HandleRequest, Request, InHand
  <2>3. ASSUME pc' = "stream"
        PROVE  batch' = batch /\ stream'.conn = fdConn[e.fd]
    BY <2>1, <2>3, DispatchStream DEF HandleRequest
  <2>4. QED
    BY <2>1, <2>2, <2>3 DEF StreamKeepsConn, HandleRequest
<1>2. CASE ServerStep /\ ~\E e \in Event : HandleRequest(e)
  BY <1>2 DEF ServerStep, EpollWait, ErrorEvent, Accept, AcceptFails, Disconnect, Request,
              InHand, StreamEnd, StreamSigpipe, NextEvent, Die, runVars, StreamKeepsConn
<1>3. CASE ClientStep \/ \E c \in Conns : \E seg \in Segment : Send(c, seg)
  BY <1>3 DEF ClientStep, Connect, HangUp, Stall, Resume, Send, loopVars, runVars,
              StreamKeepsConn
<1>4. CASE UNCHANGED vars
  BY <1>4 DEF vars, loopVars, runVars, StreamKeepsConn
<1>5. QED
  BY <1>1, <1>2, <1>3, <1>4 DEF AnyNext

\* No handler records a session id for a descriptor without a session.
LEMMA DispatchIds ==
  ASSUME LoopInv, IdsRegistered,
         NEW c \in Conns, NEW f \in Fds, NEW method, NEW cseq, NEW id, NEW flag,
         Dispatch(c, f, method, cseq, id, flag)
  PROVE  IdsRegistered'
<1>1. sessions \in Seq(Session) /\ avSessionIds \in [Fds -> Int] /\ Len(sessions) \in Nat
  BY DEF LoopInv, TypeOK
<1>2. CASE SetupVideo(c, f, cseq)
  <2>1. PICK sess \in Session :
          /\ sessions' = Append(sessions, sess)
          /\ avSessionIds' = [avSessionIds EXCEPT ![f] = Len(sessions) + 1]
    BY <1>2, GarbageAssumption DEF SetupVideo, Session, Tracks
  <2>2. DOMAIN sessions' = 1..(Len(sessions) + 1) /\ DOMAIN sessions = 1..Len(sessions)
    BY <1>1, <2>1
  <2>3. QED
    BY <1>1, <2>1, <2>2 DEF IdsRegistered
<1>3. CASE UNCHANGED avSessionIds /\ DOMAIN sessions' = DOMAIN sessions
  BY <1>3 DEF IdsRegistered
<1>4. DOMAIN sessions' = DOMAIN sessions \/ SetupVideo(c, f, cseq)
  BY <1>1 DEF Dispatch, JustAnswer, SetupAudio, Play
<1>5. UNCHANGED avSessionIds \/ SetupVideo(c, f, cseq)
  BY DEF Dispatch, JustAnswer, SetupAudio, Play
<1>6. QED
  BY <1>2, <1>3, <1>4, <1>5

LEMMA IdsRegisteredStep ==
  ASSUME LoopInv, IdsRegistered, [AnyNext]_vars
  PROVE  IdsRegistered'
<1>1. CASE \E e \in Event : HandleRequest(e)
  BY <1>1, RequestConn, DispatchIds DEF HandleRequest
<1>2. CASE ServerStep /\ ~\E e \in Event : HandleRequest(e)
  BY <1>2 DEF ServerStep, EpollWait, ErrorEvent, Accept, AcceptFails, Disconnect,
              StreamEnd, StreamSigpipe, tableVars, IdsRegistered
<1>3. CASE ClientStep \/ \E c \in Conns : \E seg \in Segment : Send(c, seg)
  BY <1>3 DEF ClientStep, Connect, HangUp, Stall, Resume, Send, tableVars, IdsRegistered
<1>4. CASE UNCHANGED vars
  BY <1>4 DEF vars, tableVars, IdsRegistered
<1>5. QED
  BY <1>1, <1>2, <1>3, <1>4 DEF AnyNext

-----------------------------------------------------------------------------
Inv == LoopInv /\ StreamKeepsConn /\ IdsRegistered

LEMMA InitInv ==
  ASSUME Init
  PROVE  Inv
BY DEF Init, Inv, LoopInv, TypeOK, NoStaleEvents, EventsDistinct, StreamKeepsConn,
       IdsRegistered, Tracks, NoSession, Video

LEMMA InvStep ==
  ASSUME Inv, [AnyNext]_vars
  PROVE  Inv'
BY LoopInvStep, StreamKeepsConnStep, IdsRegisteredStep DEF Inv

\* Clients of any kind send segments.
LEMMA NextIsAnyNext ==
  ASSUME Inv, [Next]_vars
  PROVE  [AnyNext]_vars
<1>1. ASSUME NEW c \in Conns, NEW seg \in AnySegment(c)
      PROVE  seg \in Segment
  <2>1. NextCSeq(c) \in Int
    BY BoundsAssumption DEF NextCSeq, Inv, LoopInv, TypeOK
  <2>2. SessionLines \subseteq Int \cup {None}
    BY DEF SessionLines, UnknownId, Inv, LoopInv, TypeOK
  <2>3. CASE seg = Rtcp
    BY <2>3 DEF Rtcp, Segment
  <2>4. CASE seg \in [binary : {FALSE}, method : Spoken \cup {None},
                      track : Tracks \cup {None}, cseq : {None, NextCSeq(c)},
                      session : SessionLines]
    BY <2>1, <2>2, <2>4, SpokenAssumption DEF Segment
  <2>5. QED
    BY <1>1, <2>3, <2>4 DEF AnySegment
<1>2. QED
  BY <1>1 DEF Next, SendAny, AnyNext

\* All through any run, with clients that send anything: the state is well
\* typed, the events still to be handled are about the connections they were
\* reported for, a stream keeps its descriptor, and no descriptor names a
\* session that is not in the session table.
THEOREM ServerInvariant == Spec => []Inv
<1>1. Init => Inv
  BY InitInv
<1>2. Inv /\ [Next]_vars => Inv'
  BY InvStep, NextIsAnyNext
<1>3. QED
  BY <1>1, <1>2, PTL DEF Spec

\* EpollServer.cpp 81-128: no event is handled for another connection than the
\* one it was reported for.
THEOREM ServerNoStaleEvents == Spec => []NoStaleEvents
<1>1. Inv => NoStaleEvents
  BY DEF Inv, LoopInv
<1>2. QED
  BY <1>1, ServerInvariant, PTL

\* Type correctness.
THEOREM ServerTypeOK == Spec => []TypeOK
<1>1. Inv => TypeOK
  BY DEF Inv, LoopInv
<1>2. QED
  BY <1>1, ServerInvariant, PTL

\* Every stream runs on the open descriptor of the client that asked for it.
THEOREM ServerStreamKeepsConn == Spec => []StreamKeepsConn
<1>1. Inv => StreamKeepsConn
  BY DEF Inv
<1>2. QED
  BY <1>1, ServerInvariant, PTL

\* ClientFdManager never names a session SessionManager does not have.
THEOREM ServerIdsRegistered == Spec => []IdsRegistered
<1>1. Inv => IdsRegistered
  BY DEF Inv
<1>2. QED
  BY <1>1, ServerInvariant, PTL

-----------------------------------------------------------------------------
(* Clients that conform. *)


\* id is a session of c.
Own(c, id) == id \in DOMAIN sessions /\ sessions[id].conn = c

\* No connection is reached through two descriptors, or both pending and
\* accepted, or before it was made.
OneDescriptor ==
  /\ \A f, g \in Fds : fdConn[f] # None /\ fdConn[f] = fdConn[g] => f = g
  /\ \A f \in Fds : fdConn[f] # None => link[fdConn[f]] # "idle"
  /\ \A i \in DOMAIN backlog : link[backlog[i]] # "idle"
  /\ \A i \in DOMAIN backlog : \A f \in Fds : fdConn[f] # backlog[i]
  /\ \A i, j \in DOMAIN backlog : i # j => backlog[i] # backlog[j]

LearnedOwn == \A c \in Conns : HasSession(c) => Own(c, learned[c])

PendingUnlearned == \A i \in DOMAIN backlog : ~HasSession(backlog[i])

IdleUnlearned == \A c \in Conns : link[c] = "idle" => ~HasSession(c)

DescriptorOwn ==
  \A f \in Fds : fdConn[f] # None /\ HasSession(fdConn[f]) => Own(fdConn[f], avSessionIds[f])

\* What a conforming client may have sent, seen when it is read.
Conforms(c, seg) ==
  /\ ~seg.binary => seg.method \in Methods
  /\ seg.method = "SETUP" => seg.track # None
  /\ seg.binary \/ seg.track = Audio => HasSession(c)
  /\ seg.session # None => Own(c, seg.session)

InboxConforms == \A c \in Conns : \A i \in DOMAIN inbox[c] : Conforms(c, inbox[c][i])

StreamOwn == pc = "stream" => Own(stream.conn, stream.session)

ConfInv ==
  /\ Inv /\ OneDescriptor
  /\ LearnedOwn /\ PendingUnlearned /\ IdleUnlearned /\ DescriptorOwn /\ InboxConforms
  /\ StreamOwn /\ NoNullSession

-----------------------------------------------------------------------------
(* One request of a conforming client. *)

\* The handler has no id but one of the client's own, and joins a session with
\* an audio SETUP only for a client that has one.
LEMMA ConformingParsed ==
  ASSUME NEW c, NEW q \in Seq(Segment), q # <<>>,
         \A i \in DOMAIN q : Conforms(c, q[i]), NEW was
  PROVE  /\ \A id \in SessionsOf(q) : id = NoSession \/ Own(c, id)
         /\ \A m \in MethodsOf(q), flag \in FlagsOf(q, was) :
              m = "SETUP" /\ flag = Audio => HasSession(c)
<1>1. \A i \in Read(q) : i \in DOMAIN q /\ q[i] \in Segment /\ ~q[i].binary
  <2>1. ASSUME NEW i \in Read(q)
        PROVE  i \in DOMAIN q /\ ~q[i].binary /\ q[i] \in Segment
    <3>1. i \in DOMAIN q /\ i \in 1..i
      BY DEF Read
    <3>2. QED
      BY <3>1 DEF Read
  <2>2. QED
    BY <2>1
<1>2. \A id \in SessionsOf(q) : id = NoSession \/ Own(c, id)
  BY <1>1 DEF SessionsOf, Parsed, LastSaid, Conforms
<1>3. ASSUME NEW m \in MethodsOf(q), NEW flag \in FlagsOf(q, was), m = "SETUP", flag = Audio
      PROVE  HasSession(c)
  <2>1. CASE \E i \in Read(q) : q[i].track # None
    <3>1. PICK i \in Read(q) : q[i].track = Audio
      BY <1>3, <2>1 DEF FlagsOf, Parsed, LastSaid
    <3>2. QED
      BY <1>1, <3>1 DEF Conforms
  <2>2. CASE \A i \in Read(q) : q[i].track = None
    <3>1. ~\E i \in Read(q) : q[i].method = "SETUP"
      BY <1>1, <2>2 DEF Conforms
    <3>2. ~\E i \in Read(q) : q[i].method # None
      BY <1>3, <3>1 DEF MethodsOf, Parsed, LastSaid
    <3>3. Read(q) = {}
      BY <1>1, <3>2, NoneNotMethod DEF Conforms
    <3>4. 1 \in DOMAIN q /\ \A j \in 1..1 : j = 1
      OBVIOUS
    <3>5. q[1].binary
      BY <3>3, <3>4 DEF Read
    <3>6. QED
      BY <3>4, <3>5 DEF Conforms
  <2>3. QED
    BY <2>1, <2>2
<1>4. QED
  BY <1>2, <1>3

\* Own, of the next state.
OwnNext(c, id) == id \in DOMAIN sessions' /\ sessions'[id].conn = c

\* Sessions are added and keep their client.
SessionsGrow ==
  /\ DOMAIN sessions \subseteq DOMAIN sessions'
  /\ \A n \in DOMAIN sessions : sessions'[n].conn = sessions[n].conn

LEMMA OwnStays ==
  ASSUME SessionsGrow, NEW d, NEW id, Own(d, id)
  PROVE  OwnNext(d, id)
  BY DEF SessionsGrow, Own, OwnNext

\* The lookup finds the session, and streams no other.
LEMMA ActOnOwnSession ==
  ASSUME NEW c, NEW method, NEW id, NEW table,
         id = NoSession \/ id \in DOMAIN table, NoSession \notin DOMAIN table,
         ActOnSession(c, method, id, table),
         fault # "null"
  PROVE  /\ fault' # "null"
         /\ pc' = "stream" => stream'.conn = c /\ stream'.session = id /\ id \in DOMAIN table
<1>1. CASE /\ id \in DOMAIN table /\ pc' = "stream" /\ UNCHANGED fault
           /\ stream' = [conn |-> c, session |-> id, cause |-> method]
  BY <1>1
<1>2. CASE NextEvent /\ UNCHANGED <<fault, stream>>
  BY <1>2 DEF NextEvent
<1>3. CASE Die("sigpipe")
  BY <1>3 DEF Die
<1>4. QED
  BY <1>1, <1>2, <1>3 DEF ActOnSession

\* Whatever a conforming client asks for, its handler changes no session but
\* the client's own, and gives it no id but its own.
DispatchKeeps(c, f) ==
  /\ SessionsGrow
  /\ fault' # "null"
  /\ \A d \in Conns \ {c} : learned'[d] = learned[d]
  /\ learned'[c] # NoSession => OwnNext(c, learned'[c]) /\ OwnNext(c, avSessionIds'[f])
  /\ \A g \in Fds \ {f} : avSessionIds'[g] = avSessionIds[g]
  /\ pc' = "stream" => OwnNext(stream'.conn, stream'.session)
  /\ \A n \in DOMAIN sessions : sessions'[n] # sessions[n] => sessions[n].conn = c

\* The parts of DispatchKeeps about the tables, for a handler that leaves
\* avSessionIds alone and tells its client no new id.
LEMMA NoNewId ==
  ASSUME LearnedOwn, DescriptorOwn, SessionsGrow, NEW c \in Conns, NEW f \in Fds,
         fdConn[f] = c, c # None, learned' = learned, UNCHANGED avSessionIds
  PROVE  /\ \A d \in Conns \ {c} : learned'[d] = learned[d]
         /\ learned'[c] # NoSession => OwnNext(c, learned'[c]) /\ OwnNext(c, avSessionIds'[f])
         /\ \A g \in Fds \ {f} : avSessionIds'[g] = avSessionIds[g]
<1>1. ASSUME learned[c] # NoSession
      PROVE  Own(c, learned[c]) /\ Own(c, avSessionIds[f])
  BY <1>1 DEF LearnedOwn, DescriptorOwn, HasSession
<1>2. QED
  BY <1>1, OwnStays

\* An answer that names no session.
LEMMA AnswerNamesNone ==
  ASSUME TypeOK, NEW c \in Conns, NEW cseq, Answer(c, cseq, NoSession)
  PROVE  learned' = learned
BY DEF TypeOK, Answer

LEMMA JustAnswerKeeps ==
  ASSUME ConfInv, NEW c \in Conns, NEW f \in Fds, fdConn[f] = c,
         NEW method, NEW cseq, NEW id, id = NoSession \/ Own(c, id),
         JustAnswer(c, method, cseq, id)
  PROVE  DispatchKeeps(c, f)
<1>1. TypeOK /\ LearnedOwn /\ DescriptorOwn /\ fault # "null"
  BY DEF ConfInv, Inv, LoopInv, NoNullSession
<1>2. sessions' = sessions /\ UNCHANGED avSessionIds
  BY DEF JustAnswer
<1>3. SessionsGrow
  BY <1>2 DEF SessionsGrow
<1>4. learned' = learned
  BY <1>1, AnswerNamesNone DEF JustAnswer
<1>5. c # None
  BY NoneNotConn
<1>6. NoSession \notin DOMAIN sessions
  BY <1>1 DEF TypeOK, NoSession
<1>7. ActOnSession(c, method, id, sessions)
  BY DEF JustAnswer
<1>8. id = NoSession \/ id \in DOMAIN sessions
  BY DEF Own
<1>9. /\ fault' # "null"
      /\ pc' = "stream" => stream'.conn = c /\ stream'.session = id /\ id \in DOMAIN sessions
  BY <1>1, <1>6, <1>7, <1>8, ActOnOwnSession
<1>10. pc' = "stream" => OwnNext(stream'.conn, stream'.session)
  BY <1>2, <1>6, <1>9 DEF Own, OwnNext
<1>11. /\ \A d \in Conns \ {c} : learned'[d] = learned[d]
       /\ learned'[c] # NoSession => OwnNext(c, learned'[c]) /\ OwnNext(c, avSessionIds'[f])
       /\ \A g \in Fds \ {f} : avSessionIds'[g] = avSessionIds[g]
  BY <1>1, <1>2, <1>3, <1>4, <1>5, NoNewId
<1>12. QED
  BY <1>2, <1>3, <1>9, <1>10, <1>11 DEF DispatchKeeps

LEMMA PlayKeeps ==
  ASSUME ConfInv, NEW c \in Conns, NEW f \in Fds, fdConn[f] = c,
         NEW cseq, NEW id, id = NoSession \/ Own(c, id), Play(c, cseq, id)
  PROVE  DispatchKeeps(c, f)
<1>1. TypeOK /\ LearnedOwn /\ DescriptorOwn /\ fault # "null" /\ sessions \in Seq(Session)
  BY DEF ConfInv, Inv, LoopInv, NoNullSession, TypeOK
<1>2. UNCHANGED avSessionIds
  BY DEF Play
<1>3. /\ DOMAIN sessions' = DOMAIN sessions
      /\ \A n \in DOMAIN sessions : /\ sessions'[n].conn = sessions[n].conn
                                    /\ n # id => sessions'[n] = sessions[n]
  <2>1. CASE id \in DOMAIN sessions /\ sessions' = [sessions EXCEPT ![id].state = "PLAYING"]
    BY <1>1, <2>1
  <2>2. CASE UNCHANGED sessions
    BY <2>2
  <2>3. QED
    BY <2>1, <2>2 DEF Play
<1>4. SessionsGrow
  BY <1>3 DEF SessionsGrow
<1>5. learned' = learned
  BY <1>1, AnswerNamesNone DEF Play
<1>6. c # None
  BY NoneNotConn
<1>7. NoSession \notin DOMAIN sessions'
  BY <1>1, <1>3 DEF NoSession
<1>8. ActOnSession(c, "PLAY", id, sessions')
  BY DEF Play
<1>9. id = NoSession \/ id \in DOMAIN sessions'
  BY <1>3 DEF Own
<1>10. /\ fault' # "null"
       /\ pc' = "stream" => stream'.conn = c /\ stream'.session = id /\ id \in DOMAIN sessions'
  BY <1>1, <1>7, <1>8, <1>9, ActOnOwnSession
<1>11. pc' = "stream" => OwnNext(stream'.conn, stream'.session)
  BY <1>3, <1>7, <1>10 DEF Own, OwnNext
<1>12. \A n \in DOMAIN sessions : sessions'[n] # sessions[n] => sessions[n].conn = c
  BY <1>3, <1>7 DEF Own
<1>13. /\ \A d \in Conns \ {c} : learned'[d] = learned[d]
       /\ learned'[c] # NoSession => OwnNext(c, learned'[c]) /\ OwnNext(c, avSessionIds'[f])
       /\ \A g \in Fds \ {f} : avSessionIds'[g] = avSessionIds[g]
  BY <1>1, <1>2, <1>4, <1>5, <1>6, NoNewId
<1>14. QED
  BY <1>4, <1>10, <1>11, <1>12, <1>13 DEF DispatchKeeps

\* The audio SETUP: the descriptor's id is the client's own.
LEMMA SetupAudioKeeps ==
  ASSUME ConfInv, NEW c \in Conns, NEW f \in Fds, fdConn[f] = c,
         NEW cseq, HasSession(c), SetupAudio(c, f, cseq)
  PROVE  DispatchKeeps(c, f)
<1> DEFINE id == avSessionIds[f]
<1>1. /\ TypeOK /\ LearnedOwn /\ DescriptorOwn /\ fault # "null" /\ sessions \in Seq(Session)
      /\ learned \in [Conns -> Int] /\ avSessionIds \in [Fds -> Int]
  BY DEF ConfInv, Inv, LoopInv, NoNullSession, TypeOK
<1>2. Own(c, id) /\ c # None
  BY <1>1, NoneNotConn DEF DescriptorOwn
<1>3. /\ UNCHANGED avSessionIds
      /\ sessions' = [sessions EXCEPT ![id].tracks = @ \cup {Audio}]
      /\ AnswerSetup(c, cseq, id)
      /\ ActOnSession(c, "SETUP", id, sessions)
  BY <1>2 DEF SetupAudio, Own
<1>4. /\ DOMAIN sessions' = DOMAIN sessions
      /\ \A n \in DOMAIN sessions : /\ sessions'[n].conn = sessions[n].conn
                                    /\ n # id => sessions'[n] = sessions[n]
  BY <1>1, <1>3
<1>5. SessionsGrow
  BY <1>4 DEF SessionsGrow
<1>6. OwnNext(c, id) /\ OwnNext(c, learned[c])
  BY <1>1, <1>2, <1>5, OwnStays DEF LearnedOwn
<1>7. /\ \A d \in Conns \ {c} : learned'[d] = learned[d]
      /\ learned'[c] = id \/ learned'[c] = learned[c]
  BY <1>1, <1>3 DEF AnswerSetup, Answer, NoAnswer
<1>8. NoSession \notin DOMAIN sessions /\ id \in DOMAIN sessions
  BY <1>1, <1>2 DEF Own, NoSession
<1>9. /\ fault' # "null"
      /\ pc' = "stream" => stream'.conn = c /\ stream'.session = id
  BY <1>1, <1>3, <1>8, ActOnOwnSession
<1>10. \A n \in DOMAIN sessions : sessions'[n] # sessions[n] => sessions[n].conn = c
  BY <1>2, <1>4 DEF Own
<1>11. QED
  BY <1>3, <1>5, <1>6, <1>7, <1>9, <1>10 DEF DispatchKeeps

\* The video SETUP: a session of the client's own is appended, and its id goes
\* to the descriptor and to the client.
LEMMA SetupVideoKeeps ==
  ASSUME ConfInv, NEW c \in Conns, NEW f \in Fds, fdConn[f] = c,
         NEW cseq, SetupVideo(c, f, cseq)
  PROVE  DispatchKeeps(c, f)
<1> DEFINE id == Len(sessions) + 1
<1>1. /\ LearnedOwn /\ fault # "null" /\ sessions \in Seq(Session)
      /\ learned \in [Conns -> Int] /\ avSessionIds \in [Fds -> Int]
  BY DEF ConfInv, Inv, LoopInv, NoNullSession, TypeOK
<1>2. PICK s \in StateGarbage :
        LET sess == [conn |-> c, tracks |-> {Video}, state |-> s] IN
        /\ sessions' = Append(sessions, sess)
        /\ avSessionIds' = [avSessionIds EXCEPT ![f] = id]
        /\ AnswerSetup(c, cseq, id)
        /\ ActOnSession(c, "SETUP", id, Append(sessions, sess))
  BY DEF SetupVideo
<1>3. [conn |-> c, tracks |-> {Video}, state |-> s] \in Session
  BY <1>2, GarbageAssumption DEF Session, Tracks
<1>4. /\ DOMAIN sessions' = 1..id /\ DOMAIN sessions = 1..Len(sessions)
      /\ \A n \in DOMAIN sessions : sessions'[n] = sessions[n]
      /\ sessions'[id] = [conn |-> c, tracks |-> {Video}, state |-> s]
      /\ Len(sessions) \in Nat
  BY <1>1, <1>2, <1>3
<1>5. SessionsGrow
  BY <1>4 DEF SessionsGrow
<1>6. OwnNext(c, id)
  BY <1>4 DEF OwnNext
<1>7. /\ \A d \in Conns \ {c} : learned'[d] = learned[d]
      /\ learned'[c] = id \/ learned'[c] = learned[c]
  BY <1>1, <1>2 DEF AnswerSetup, Answer, NoAnswer
<1>8. learned'[c] # NoSession => OwnNext(c, learned'[c])
  BY <1>1, <1>5, <1>6, <1>7, OwnStays DEF LearnedOwn, HasSession
<1>9. avSessionIds'[f] = id /\ \A g \in Fds \ {f} : avSessionIds'[g] = avSessionIds[g]
  BY <1>1, <1>2
<1>10. NoSession \notin DOMAIN sessions' /\ id \in DOMAIN sessions'
  BY <1>4 DEF NoSession
<1>11. ActOnSession(c, "SETUP", id, sessions')
  BY <1>2
<1>12. /\ fault' # "null"
       /\ pc' = "stream" => stream'.conn = c /\ stream'.session = id
  BY <1>1, <1>10, <1>11, ActOnOwnSession
<1>13. QED
  BY <1>4, <1>5, <1>6, <1>7, <1>8, <1>9, <1>12 DEF DispatchKeeps

-----------------------------------------------------------------------------
(* The steps, one by one, on all of ConfInv but Inv. *)

ClientInv ==
  /\ OneDescriptor
  /\ LearnedOwn /\ PendingUnlearned /\ IdleUnlearned /\ DescriptorOwn /\ InboxConforms
  /\ StreamOwn /\ NoNullSession

\* A request in hand is dispatched with what a conforming client said.
LEMMA RequestKeeps ==
  ASSUME ConfInv, NEW e, HandleRequest(e)
  PROVE  DispatchKeeps(fdConn[e.fd], e.fd)
<1> DEFINE f == e.fd
           c == fdConn[f]
<1>1. LoopInv /\ InboxConforms
  BY DEF ConfInv, Inv
<1>2. f \in Fds /\ c \in Conns /\ inbox[c] # <<>>
  BY <1>1, RequestConn DEF HandleRequest
<1>3. inbox[c] \in Seq(Segment) /\ \A i \in DOMAIN inbox[c] : Conforms(c, inbox[c][i])
  BY <1>1, <1>2 DEF LoopInv, TypeOK, InboxConforms
<1>4. PICK flag \in FlagsOf(inbox[c], avFlags[f]), method \in MethodsOf(inbox[c]),
           cseq \in CSeqsOf(inbox[c]), id \in SessionsOf(inbox[c]) :
             Dispatch(c, f, method, cseq, id, flag)
  BY DEF HandleRequest
<1>5. /\ id = NoSession \/ Own(c, id)
      /\ method = "SETUP" /\ flag = Audio => HasSession(c)
  BY <1>2, <1>3, ConformingParsed
<1>6. CASE JustAnswer(c, method, cseq, id)
  BY <1>2, <1>5, <1>6, JustAnswerKeeps
<1>7. CASE SetupVideo(c, f, cseq)
  BY <1>2, <1>7, SetupVideoKeeps
<1>8. CASE method = "SETUP" /\ flag = Audio /\ SetupAudio(c, f, cseq)
  BY <1>2, <1>5, <1>8, SetupAudioKeeps
<1>9. CASE Play(c, cseq, id)
  BY <1>2, <1>5, <1>9, PlayKeeps
<1>10. QED
  BY <1>4, <1>6, <1>7, <1>8, <1>9 DEF Dispatch

LEMMA HandleRequestClientInv ==
  ASSUME ConfInv, NEW e, HandleRequest(e)
  PROVE  ClientInv'
<1> DEFINE f == e.fd
           c == fdConn[f]
<1>1. /\ DispatchKeeps(c, f) /\ f \in Fds /\ c \in Conns /\ c # None
      /\ OneDescriptor /\ LearnedOwn /\ PendingUnlearned /\ IdleUnlearned
      /\ DescriptorOwn /\ InboxConforms /\ TypeOK
  BY RequestKeeps, RequestConn, NoneNotConn DEF HandleRequest, ConfInv, Inv, LoopInv
<1>2. /\ UNCHANGED <<link, backlog, fdConn>>
      /\ inbox' = [inbox EXCEPT ![c] = <<>>]
  BY DEF HandleRequest, clientVars
<1>3. OneDescriptor'
  BY <1>1, <1>2 DEF OneDescriptor
<1>4. \A d \in Conns : learned'[d] # NoSession => OwnNext(d, learned'[d])
  BY <1>1, OwnStays DEF DispatchKeeps, LearnedOwn, HasSession
<1>5. LearnedOwn'
  BY <1>4 DEF LearnedOwn, HasSession, Own, OwnNext
<1>6. PendingUnlearned'
  BY <1>1, <1>2, SMTT(30) DEF PendingUnlearned, HasSession, OneDescriptor, DispatchKeeps, TypeOK
<1>7. IdleUnlearned'
  BY <1>1, <1>2 DEF IdleUnlearned, HasSession, OneDescriptor, DispatchKeeps
<1>8. \A g \in Fds : fdConn[g] # None /\ learned'[fdConn[g]] # NoSession
                       => OwnNext(fdConn[g], avSessionIds'[g])
  <2>1. ASSUME NEW g \in Fds, fdConn[g] # None, learned'[fdConn[g]] # NoSession
        PROVE  OwnNext(fdConn[g], avSessionIds'[g])
    <3>1. CASE g = f
      BY <1>1, <2>1, <3>1 DEF DispatchKeeps
    <3>2. CASE g # f
      <4>1. fdConn[g] # c /\ fdConn[g] \in Conns
        BY <1>1, <2>1, <3>2 DEF OneDescriptor, TypeOK
      <4>2. Own(fdConn[g], avSessionIds[g]) /\ avSessionIds'[g] = avSessionIds[g]
        BY <1>1, <2>1, <3>2, <4>1 DEF DispatchKeeps, DescriptorOwn, HasSession
      <4>3. QED
        BY <1>1, <4>2, OwnStays DEF DispatchKeeps
    <3>3. QED
      BY <3>1, <3>2
  <2>2. QED
    BY <2>1
<1>9. DescriptorOwn'
  BY <1>2, <1>8 DEF DescriptorOwn, HasSession, Own, OwnNext
<1>10. InboxConforms'
  <2>1. ASSUME NEW d \in Conns, NEW i \in DOMAIN inbox'[d]
        PROVE  Conforms(d, inbox[d][i])'
    <3>1. d # c /\ inbox'[d] = inbox[d]
      BY <1>1, <1>2, <2>1 DEF TypeOK
    <3>2. Conforms(d, inbox[d][i]) /\ learned'[d] = learned[d]
      BY <1>1, <2>1, <3>1 DEF InboxConforms, DispatchKeeps
    <3>3. QED
      BY <1>1, <3>1, <3>2 DEF Conforms, HasSession, Own, DispatchKeeps, SessionsGrow
  <2>2. QED
    BY <2>1 DEF InboxConforms
<1>11. StreamOwn'
  BY <1>1 DEF StreamOwn, DispatchKeeps, Own, OwnNext
<1>12. NoNullSession'
  BY <1>1 DEF NoNullSession, DispatchKeeps
<1>13. QED
  BY <1>3, <1>5, <1>6, <1>7, <1>9, <1>10, <1>11, <1>12 DEF ClientInv

\* What no other step of the server touches.
Ledger == <<inbox, learned, sessions, avSessionIds>>

\* Descriptors are closed, and events taken and dropped.
LEMMA QuietClientInv ==
  ASSUME ConfInv, UNCHANGED Ledger, UNCHANGED backlog,
         \A c \in Conns : link'[c] = "idle" <=> link[c] = "idle",
         \A f \in Fds : fdConn'[f] = fdConn[f] \/ fdConn'[f] = None,
         pc' = "stream" => pc = "stream" /\ stream' = stream,
         fault' # "null"
  PROVE  ClientInv'
<1>1. TypeOK /\ ClientInv
  BY DEF ConfInv, Inv, LoopInv, ClientInv
<1>2. /\ fdConn \in [Fds -> Conns \cup {None}]
      /\ backlog \in Seq(Conns)
  BY <1>1 DEF TypeOK
<1>3. OneDescriptor'
  <2>1. \A f \in Fds : fdConn'[f] # None => fdConn'[f] = fdConn[f]
    OBVIOUS
  <2>2. \A f, g \in Fds : fdConn'[f] # None /\ fdConn'[f] = fdConn'[g] => f = g
    BY <1>1, <2>1 DEF ClientInv, OneDescriptor
  <2>3. \A f \in Fds : fdConn'[f] # None => link'[fdConn'[f]] # "idle"
    BY <1>1, <1>2, <2>1 DEF ClientInv, OneDescriptor
  <2>4. \A i \in DOMAIN backlog : link'[backlog[i]] # "idle"
    BY <1>1, <1>2 DEF ClientInv, OneDescriptor
  <2>5. \A i \in DOMAIN backlog : \A f \in Fds : fdConn'[f] # backlog[i]
    BY <1>1, <1>2, <2>1, NoneNotConn DEF ClientInv, OneDescriptor
  <2>6. \A i, j \in DOMAIN backlog : i # j => backlog[i] # backlog[j]
    BY <1>1 DEF ClientInv, OneDescriptor
  <2>7. QED
    BY <2>2, <2>3, <2>4, <2>5, <2>6 DEF OneDescriptor
<1>4. LearnedOwn' /\ PendingUnlearned' /\ IdleUnlearned' /\ InboxConforms'
  BY <1>1 DEF ClientInv, Ledger, LearnedOwn, PendingUnlearned, IdleUnlearned, InboxConforms,
              Conforms, HasSession, Own
<1>5. DescriptorOwn'
  BY <1>1 DEF ClientInv, Ledger, DescriptorOwn, HasSession, Own
<1>6. StreamOwn'
  BY <1>1 DEF ClientInv, Ledger, StreamOwn, Own
<1>7. QED
  BY <1>3, <1>4, <1>5, <1>6 DEF ClientInv, NoNullSession

\* A pending connection has no session: whatever the tables hold for the
\* descriptor accept() gives it is not looked at before a SETUP replaces it.
LEMMA AcceptClientInv ==
  ASSUME ConfInv, NEW e, Accept(e)
  PROVE  ClientInv'
<1>1. TypeOK /\ ClientInv
  BY DEF ConfInv, Inv, LoopInv, ClientInv
<1>2. e = Head(batch) /\ batch # <<>> /\ e.fd = Listener /\ e.events = "IN"
  BY DEF Accept, InHand
<1>3. backlog # <<>>
  <2>1. e = batch[1] /\ 1 \in DOMAIN batch
    BY <1>1, <1>2 DEF TypeOK
  <2>2. QED
    BY <1>2, <2>1 DEF ConfInv, Inv, LoopInv, NoStaleEvents, Current
<1>4. /\ Head(backlog) = backlog[1] /\ 1 \in DOMAIN backlog /\ backlog[1] \in Conns
      /\ \A i \in DOMAIN backlog' : /\ i + 1 \in DOMAIN backlog /\ i + 1 # 1
                                    /\ backlog'[i] = backlog[i + 1]
  <2>1. backlog \in Seq(Conns) /\ backlog' = Tail(backlog)
    BY <1>1 DEF TypeOK, Accept
  <2>2. Len(backlog) \in Nat /\ DOMAIN backlog = 1..Len(backlog) /\ Len(backlog) # 0
    BY <1>3, <2>1
  <2>3. \A i \in DOMAIN backlog' : /\ i + 1 \in DOMAIN backlog /\ i + 1 # 1
                                   /\ backlog'[i] = backlog[i + 1]
    BY <2>1, <2>2
  <2>4. QED
    BY <2>1, <2>2, <2>3
<1>5. PICK f \in Fds : fdConn[f] = None /\ fdConn' = [fdConn EXCEPT ![f] = backlog[1]]
  BY <1>4 DEF Accept, Free
<1>6. /\ UNCHANGED Ledger /\ UNCHANGED link
      /\ pc' = "loop" /\ fault' = fault
  BY DEF Accept, Ledger, clientVars, talkVars, tableVars, NextEvent
<1>7. OneDescriptor'
  <2>1. \A g \in Fds : g # f => fdConn'[g] = fdConn[g]
    BY <1>5
  <2>2. fdConn'[f] = backlog[1]
    BY <1>1, <1>5 DEF TypeOK
  <2>3. \A g, h \in Fds : fdConn'[g] # None /\ fdConn'[g] = fdConn'[h] => g = h
    BY <1>1, <1>4, <2>1, <2>2 DEF ClientInv, OneDescriptor
  <2>4. \A g \in Fds : fdConn'[g] # None => link[fdConn'[g]] # "idle"
    BY <1>1, <1>4, <2>1, <2>2 DEF ClientInv, OneDescriptor
  <2>5. \A i \in DOMAIN backlog' : link[backlog'[i]] # "idle"
    BY <1>1, <1>4 DEF ClientInv, OneDescriptor
  <2>6. \A i \in DOMAIN backlog' : \A g \in Fds : fdConn'[g] # backlog'[i]
    BY <1>1, <1>4, <2>1, <2>2 DEF ClientInv, OneDescriptor
  <2>7. \A i, j \in DOMAIN backlog' : i # j => backlog'[i] # backlog'[j]
    <3>1. backlog \in Seq(Conns) /\ backlog' = Tail(backlog)
      BY <1>1 DEF TypeOK, Accept
    <3>2. \A i, j \in DOMAIN backlog' : i # j => i + 1 # j + 1
      BY <1>3, <3>1
    <3>3. QED
      BY <1>1, <1>4, <3>2 DEF ClientInv, OneDescriptor
  <2>8. QED
    BY <1>6, <2>3, <2>4, <2>5, <2>6, <2>7 DEF OneDescriptor
<1>8. LearnedOwn' /\ IdleUnlearned' /\ InboxConforms'
  BY <1>1, <1>6 DEF ClientInv, Ledger, LearnedOwn, IdleUnlearned, InboxConforms,
                    Conforms, HasSession, Own
<1>9. PendingUnlearned'
  BY <1>1, <1>4, <1>6 DEF ClientInv, Ledger, PendingUnlearned, HasSession
<1>10. DescriptorOwn'
  BY <1>1, <1>4, <1>5, <1>6
     DEF ClientInv, Ledger, DescriptorOwn, PendingUnlearned, HasSession, Own, TypeOK
<1>11. StreamOwn' /\ NoNullSession'
  BY <1>1, <1>6 DEF ClientInv, StreamOwn, NoNullSession
<1>12. QED
  BY <1>7, <1>8, <1>9, <1>10, <1>11 DEF ClientInv

LEMMA ConnectClientInv ==
  ASSUME ConfInv, NEW c \in Conns, Connect(c)
  PROVE  ClientInv'
<1>1. TypeOK /\ ClientInv
  BY DEF ConfInv, Inv, LoopInv, ClientInv
<1>2. /\ link \in [Conns -> {"idle", "up", "fin", "rst"}] /\ backlog \in Seq(Conns)
      /\ fdConn \in [Fds -> Conns \cup {None}]
  BY <1>1 DEF TypeOK
<1>3. /\ link[c] = "idle" /\ link' = [link EXCEPT ![c] = "up"]
      /\ backlog' = Append(backlog, c) /\ UNCHANGED Ledger
      /\ UNCHANGED <<fdConn, pc, stream, fault>>
  BY DEF Connect, Ledger, talkVars, tableVars, runVars
<1> DEFINE n == Len(backlog)
<1>4. /\ n \in Nat /\ DOMAIN backlog = 1..n /\ DOMAIN backlog' = 1..n + 1
      /\ backlog'[n + 1] = c /\ \A i \in 1..n : backlog'[i] = backlog[i] /\ backlog[i] \in Conns
  BY <1>2, <1>3
<1>5. \A i \in 1..n : backlog[i] # c
  BY <1>1, <1>3, <1>4 DEF ClientInv, OneDescriptor
<1>6. \A f \in Fds : fdConn[f] # c
  BY <1>1, <1>3, NoneNotConn DEF ClientInv, OneDescriptor
<1>7. OneDescriptor'
  <2>1. \A f \in Fds : fdConn[f] # None => link'[fdConn[f]] # "idle"
    BY <1>1, <1>2, <1>3, <1>6 DEF ClientInv, OneDescriptor
  <2>2. \A i \in 1..n + 1 : i \in 1..n \/ i = n + 1
    BY <1>4
  <2>3. \A i \in DOMAIN backlog' : link'[backlog'[i]] # "idle"
    BY <1>1, <1>2, <1>3, <1>4, <2>2 DEF ClientInv, OneDescriptor
  <2>4. \A i \in DOMAIN backlog' : \A f \in Fds : fdConn[f] # backlog'[i]
    BY <1>1, <1>4, <1>6, <2>2 DEF ClientInv, OneDescriptor
  <2>5. \A i, j \in DOMAIN backlog' : i # j => backlog'[i] # backlog'[j]
    BY <1>1, <1>4, <1>5, <2>2 DEF ClientInv, OneDescriptor
  <2>6. \A f, g \in Fds : fdConn[f] # None /\ fdConn[f] = fdConn[g] => f = g
    BY <1>1 DEF ClientInv, OneDescriptor
  <2>7. QED
    BY <1>3, <2>1, <2>3, <2>4, <2>5, <2>6 DEF OneDescriptor
<1>8. LearnedOwn' /\ DescriptorOwn' /\ InboxConforms' /\ StreamOwn' /\ NoNullSession'
  BY <1>1, <1>3 DEF ClientInv, Ledger, LearnedOwn, DescriptorOwn, InboxConforms, StreamOwn,
                    NoNullSession, Conforms, HasSession, Own
<1>9. IdleUnlearned'
  BY <1>1, <1>2, <1>3 DEF ClientInv, Ledger, IdleUnlearned, HasSession
<1>10. PendingUnlearned'
  <2>1. ~HasSession(c)
    BY <1>1, <1>3 DEF ClientInv, IdleUnlearned
  <2>2. \A i \in 1..n + 1 : i \in 1..n \/ i = n + 1
    BY <1>4
  <2>3. QED
    BY <1>1, <1>3, <1>4, <2>1, <2>2 DEF ClientInv, Ledger, PendingUnlearned, HasSession
<1>11. QED
  BY <1>7, <1>8, <1>9, <1>10 DEF ClientInv

\* Whatever is sent, as long as it conforms.
LEMMA SendKeeps ==
  ASSUME ConfInv, NEW c \in Conns, NEW seg, Conforms(c, seg), Send(c, seg)
  PROVE  ClientInv'
<1>1. TypeOK /\ ClientInv /\ inbox \in [Conns -> Seq(Segment)]
  BY DEF ConfInv, Inv, LoopInv, ClientInv, TypeOK
<1>2. /\ inbox' = [inbox EXCEPT ![c] = Append(@, seg)]
      /\ UNCHANGED <<link, backlog, fdConn, learned, sessions, avSessionIds, pc, stream, fault>>
  BY DEF Send, loopVars, runVars, tableVars
<1>3. InboxConforms'
  <2>1. ASSUME NEW d \in Conns, NEW i \in DOMAIN inbox'[d]
        PROVE  Conforms(d, inbox'[d][i])
    <3>1. CASE d # c
      BY <1>1, <1>2, <2>1, <3>1 DEF ClientInv, InboxConforms
    <3>2. CASE d = c
      <4>1. inbox[c] \in Seq(Segment) /\ inbox'[c] = Append(inbox[c], seg)
        BY <1>1, <1>2
      <4>2. \/ i \in DOMAIN inbox[c] /\ inbox'[c][i] = inbox[c][i]
            \/ inbox'[c][i] = seg
        BY <2>1, <3>2, <4>1
      <4>3. QED
        BY <1>1, <3>2, <4>2 DEF ClientInv, InboxConforms
    <3>3. QED
      BY <3>1, <3>2
  <2>2. QED
    BY <1>2, <2>1 DEF InboxConforms, Conforms, HasSession, Own
<1>4. QED
  BY <1>1, <1>2, <1>3 DEF ClientInv, OneDescriptor, LearnedOwn, PendingUnlearned, IdleUnlearned,
                          DescriptorOwn, StreamOwn, NoNullSession, HasSession, Own

LEMMA SendClientInv ==
  ASSUME ConfInv, NEW c \in Conns, NEW seg \in ConformingSegment(c), Send(c, seg)
  PROVE  ClientInv'
<1>1. LearnedOwn
  BY DEF ConfInv
<1>2. CASE seg \in WholeRequest(c, {learned[c]} \ {NoSession})
  <2>1. Conforms(c, seg)
    BY <1>1, <1>2, SpokenAssumption
       DEF WholeRequest, Conforms, LearnedOwn, HasSession, Methods
  <2>2. QED
    BY <2>1, SendKeeps
<1>3. CASE seg = Rtcp /\ HasSession(c)
  <2>1. Conforms(c, seg)
    BY <1>3, NoneNotMethod DEF Rtcp, Conforms, Methods
  <2>2. QED
    BY <2>1, SendKeeps
<1>4. QED
  BY <1>2, <1>3 DEF ConformingSegment

\* What happens without anything being sent.
LEMMA UnsentClientInv ==
  ASSUME ConfInv, [ServerStep \/ ClientStep]_vars
  PROVE  ClientInv'
<1>1. fault # "null"
  BY DEF ConfInv, NoNullSession
<1>2. fdConn \in [Fds -> Conns \cup {None}] /\ link \in [Conns -> {"idle", "up", "fin", "rst"}]
  BY DEF ConfInv, Inv, LoopInv, TypeOK
<1>3. CASE \E e \in Event : HandleRequest(e)
  BY <1>3, HandleRequestClientInv
<1>4. CASE \E e \in Event : Accept(e)
  BY <1>4, AcceptClientInv
<1>5. CASE ServerStep /\ ~\E e \in Event : HandleRequest(e) \/ Accept(e)
  <2>1. UNCHANGED Ledger /\ UNCHANGED backlog /\ UNCHANGED link
    BY <1>5 DEF ServerStep, EpollWait, ErrorEvent, AcceptFails, Disconnect, StreamEnd,
                StreamSigpipe, clientVars, talkVars, tableVars, Ledger
  <2>2. \A f \in Fds : fdConn'[f] = fdConn[f] \/ fdConn'[f] = None
    BY <1>2, <1>5 DEF ServerStep, EpollWait, ErrorEvent, AcceptFails, Disconnect, StreamEnd,
                      StreamSigpipe
  <2>3. /\ pc' = "stream" => pc = "stream" /\ stream' = stream
        /\ fault' # "null"
    BY <1>1, <1>5 DEF ServerStep, EpollWait, ErrorEvent, AcceptFails, Disconnect, StreamEnd,
                      StreamSigpipe, NextEvent, Die, runVars
  <2>4. QED
    BY <2>1, <2>2, <2>3, QuietClientInv
<1>6. CASE \E c \in Conns : Connect(c)
  BY <1>6, ConnectClientInv
<1>7. CASE \E c \in Conns : Stall(c) \/ Resume(c) \/ \E how \in {"fin", "rst"} : HangUp(c, how)
  <2>1. UNCHANGED Ledger /\ UNCHANGED <<backlog, fdConn, pc, stream, fault>>
    BY <1>7 DEF Stall, Resume, HangUp, talkVars, loopVars, runVars, tableVars, Ledger
  <2>2. \A c \in Conns : link'[c] = "idle" <=> link[c] = "idle"
    BY <1>2, <1>7 DEF Stall, Resume, HangUp
  <2>3. QED
    BY <1>1, <2>1, <2>2, QuietClientInv
<1>8. CASE UNCHANGED vars
  <2>1. UNCHANGED Ledger /\ UNCHANGED <<link, backlog, fdConn, pc, stream, fault>>
    BY <1>8 DEF vars, clientVars, talkVars, loopVars, runVars, tableVars, Ledger
  <2>2. QED
    BY <1>1, <2>1, QuietClientInv
<1>9. QED
  BY <1>3, <1>4, <1>5, <1>6, <1>7, <1>8 DEF ServerStep, ClientStep

LEMMA ClientInvStep ==
  ASSUME ConfInv, [ConformingNext]_vars
  PROVE  ClientInv'
BY UnsentClientInv, SendClientInv DEF ConformingNext, SendConforming

-----------------------------------------------------------------------------
LEMMA ConfInit == Init => ConfInv
<1> SUFFICES ASSUME Init PROVE ConfInv
  OBVIOUS
<1>1. Inv
  BY InitInv
<1>2. \A c \in Conns : ~HasSession(c)
  BY DEF Init, HasSession
<1>3. \A f \in Fds : fdConn[f] = None
  BY DEF Init
<1>4. backlog = <<>> /\ DOMAIN backlog = {}
  BY DEF Init
<1>5. OneDescriptor
  BY <1>3, <1>4 DEF OneDescriptor
<1>6. LearnedOwn /\ PendingUnlearned /\ IdleUnlearned /\ DescriptorOwn
  BY <1>2, <1>3, <1>4 DEF LearnedOwn, PendingUnlearned, IdleUnlearned, DescriptorOwn
<1>7. InboxConforms /\ StreamOwn /\ NoNullSession
  BY DEF Init, InboxConforms, StreamOwn, NoNullSession
<1>8. QED
  BY <1>1, <1>5, <1>6, <1>7 DEF ConfInv

\* Conforming clients are clients.
LEMMA ConformingIsAny ==
  ASSUME ConfInv, [ConformingNext]_vars
  PROVE  [AnyNext]_vars
<1>1. ASSUME NEW c \in Conns, NEW seg \in ConformingSegment(c)
      PROVE  seg \in Segment
  <2>1. NextCSeq(c) \in Int /\ learned[c] \in Int
    BY BoundsAssumption DEF NextCSeq, ConfInv, Inv, LoopInv, TypeOK
  <2>2. CASE seg \in WholeRequest(c, {learned[c]} \ {NoSession})
    BY <2>1, <2>2, SpokenAssumption DEF WholeRequest, Segment
  <2>3. CASE seg = Rtcp
    BY <2>3 DEF Rtcp, Segment
  <2>4. QED
    BY <2>2, <2>3 DEF ConformingSegment
<1>2. QED
  BY <1>1 DEF ConformingNext, SendConforming, AnyNext

\* With conforming clients the tables of the server and the ids the clients
\* hold agree.
THEOREM ConformingInvariant == ConformingSpec => []ConfInv
<1>1. Init => ConfInv
  BY ConfInit
<1>2. ConfInv /\ [ConformingNext]_vars => ConfInv'
  <2>1. ASSUME ConfInv, [ConformingNext]_vars
        PROVE  Inv' /\ ClientInv'
    BY <2>1, ConformingIsAny, InvStep, ClientInvStep DEF ConfInv
  <2>2. QED
    BY <2>1 DEF ConfInv, ClientInv
<1>3. QED
  BY <1>1, <1>2, PTL DEF ConformingSpec

\* rtsp_handler.cpp 68 and 756: getSession's answer is never null.
THEOREM ConformingNoNullSession == ConformingSpec => []NoNullSession
<1>1. ConfInv => NoNullSession
  BY DEF ConfInv
<1>2. QED
  BY <1>1, ConformingInvariant, PTL

\* No client is sent another client's session.
THEOREM ConformingStreamToOwner == ConformingSpec => []StreamToOwner
<1>1. ConfInv => StreamToOwner
  BY DEF ConfInv, StreamOwn, Own, StreamToOwner
<1>2. QED
  BY <1>1, ConformingInvariant, PTL

\* No session is changed but by its own client's requests, although the audio
\* SETUP looks it up by descriptor.
THEOREM ConformingSessionIsolation == ConformingSpec => SessionIsolation
<1> DEFINE Isolated ==
      \A n \in DOMAIN sessions :
        sessions'[n] # sessions[n] => fdConn[Head(batch).fd] = sessions[n].conn
<1>1. ConfInv /\ [ConformingNext]_vars => [Isolated]_vars
  <2>1. ASSUME ConfInv, ConformingNext
        PROVE  Isolated
    <3>1. CASE \E e \in Event : HandleRequest(e)
      <4>1. PICK e \in Event : HandleRequest(e)
        BY <3>1
      <4>2. DispatchKeeps(fdConn[e.fd], e.fd) /\ e = Head(batch)
        BY <2>1, <4>1, RequestKeeps DEF HandleRequest, Request, InHand
      <4>3. QED
        BY <4>2 DEF DispatchKeeps
    <3>2. CASE ConformingNext /\ ~\E e \in Event : HandleRequest(e)
      BY <3>2 DEF ConformingNext, ServerStep, EpollWait, ErrorEvent, Accept, AcceptFails,
                  Disconnect, StreamEnd, StreamSigpipe, ClientStep, Connect, HangUp, Stall,
                  Resume, SendConforming, Send, tableVars
    <3>3. QED
      BY <2>1, <3>1, <3>2
  <2>2. QED
    BY <2>1
<1>2. QED
  BY <1>1, ConformingInvariant, PTL DEF ConformingSpec, SessionIsolation

-----------------------------------------------------------------------------
(* Players *)

\* The n-th request of a dialog, as the handler finds it.
InDialog(seg, n) ==
  /\ seg \in Segment /\ ~seg.binary
  /\ seg.method \in Methods /\ seg.cseq \in Int
  /\ seg.method = "SETUP" <=> n \in {3, 4}
  /\ seg.track = TrackOf(n)

\* One request is on its way, the last one sent, or none; and a player that waits
\* for the answer to an ignored SETUP has sent nothing after it.
OneAtATime ==
  \A c \in Conns :
    \/ inbox[c] = <<>> /\ awaited[c] = Ignored(c)
    \/ \E seg \in Segment :
         /\ InDialog(seg, sent[c]) /\ seg.cseq + 1 = NextCSeq(c)
         /\ inbox[c] = <<seg>> /\ awaited[c] = {seg.cseq}
         /\ Ignored(c) \subseteq {seg.cseq}

\* Who can send the audio SETUP has the session of the video SETUP.
SetUp == \A c \in Conns : awaited[c] = {} /\ sent[c] = 3 => HasSession(c)

DialogInv == ConfInv /\ OneAtATime /\ SetUp

\* The last CSeq sent is that of a SETUP if the last request is the third or the
\* fourth.
LEMMA LastSetup ==
  ASSUME TypeOK, NEW c \in Conns, sent[c] # 0
  PROVE  NextCSeq(c) - 1 \in SetupCSeqs(c) <=> sent[c] \in {3, 4}
<1>1. sent[c] \in Nat /\ FirstCSeq[c] \in Nat
  BY BoundsAssumption DEF TypeOK
<1>2. CASE sent[c] \in {3, 4}
  BY <1>1, <1>2 DEF SetupCSeqs, NextCSeq
<1>3. CASE sent[c] \notin {3, 4}
  BY <1>1, <1>3 DEF SetupCSeqs, NextCSeq
<1>4. QED
  BY <1>2, <1>3

\* One more request adds at most its own CSeq to the ignored ones.
LEMMA IgnoredGrows ==
  ASSUME TypeOK, NEW c \in Conns, sent'[c] = sent[c] + 1
  PROVE  Ignored(c)' \subseteq Ignored(c) \cup {NextCSeq(c)}
<1>1. sent[c] \in Nat /\ FirstCSeq[c] \in Nat
  BY BoundsAssumption DEF TypeOK
<1>2. \A n \in 1..sent'[c] : n \in 1..sent[c] \/ FirstCSeq[c] + n - 1 = FirstCSeq[c] + sent[c]
  BY <1>1
<1>3. SetupCSeqs(c)' \subseteq SetupCSeqs(c) \cup {NextCSeq(c)}
  BY <1>2 DEF SetupCSeqs, NextCSeq
<1>4. QED
  BY <1>3 DEF Ignored

LEMMA NextCSeqInt == ASSUME TypeOK, NEW c \in Conns PROVE NextCSeq(c) \in Int
BY BoundsAssumption DEF TypeOK, NextCSeq

LEMMA DialogSegments ==
  ASSUME TypeOK, NEW c \in Conns, NEW seg \in DialogSegment(c)
  PROVE  /\ InDialog(seg, sent[c] + 1) /\ seg.cseq = NextCSeq(c)
         /\ seg.session # None => HasSession(c) /\ seg.session = learned[c]
<1> DEFINE n == sent[c] + 1
           Named == IF HasSession(c) THEN {learned[c]} ELSE {None}
<1>1. n \in Int /\ learned[c] \in Int /\ NextCSeq(c) \in Int
  BY NextCSeqInt DEF TypeOK
<1>2. /\ n \in {3, 4} => Step(n) = {"SETUP"}
      /\ n \notin {3, 4} => "SETUP" \notin Step(n)
      /\ Step(n) \subseteq Methods
  BY <1>1 DEF Step, Methods
<1>3. TrackOf(n) \in Tracks \cup {None}
  BY <1>1 DEF TrackOf, Tracks
<1>4. seg \in [binary : {FALSE}, method : Step(n), track : {TrackOf(n)},
               cseq : {NextCSeq(c)}, session : Named]
  BY DEF DialogSegment
<1> HIDE DEF n
<1>5. /\ seg = [binary |-> seg.binary, method |-> seg.method, track |-> seg.track,
                cseq |-> seg.cseq, session |-> seg.session]
      /\ seg.binary = FALSE /\ seg.method \in Step(n) /\ seg.track = TrackOf(n)
      /\ seg.cseq = NextCSeq(c) /\ seg.session \in Named
  BY <1>4
<1>6. Named \subseteq Int \cup {None}
  BY <1>1
<1>7. seg \in Segment
  BY <1>1, <1>2, <1>3, <1>5, <1>6 DEF Segment
<1>8. InDialog(seg, n)
  BY <1>1, <1>2, <1>5, <1>7 DEF InDialog
<1>9. QED
  BY <1>5, <1>8 DEF n

\* A segment that is alone in the buffer is what the line loop finds.
LEMMA ReadAlone ==
  ASSUME NEW seg, NEW n, InDialog(seg, n), NEW flag
  PROVE  /\ MethodsOf(<<seg>>) = {seg.method} /\ CSeqsOf(<<seg>>) = {seg.cseq}
         /\ seg.track # None => FlagsOf(<<seg>>, flag) = {seg.track}
<1> DEFINE q == <<seg>>
<1>1. DOMAIN q = {1} /\ q[1] = seg
  OBVIOUS
<1>2. Read(q) = {1}
  BY <1>1 DEF Read, InDialog
<1>3. seg.method # None /\ seg.cseq # None
  BY NoneNotMethod, NoneNotNumber DEF InDialog
<1> HIDE DEF q
<1>4. MethodsOf(q) = {seg.method}
  BY <1>1, <1>2, <1>3 DEF MethodsOf, Parsed, LastSaid
<1>5. CSeqsOf(q) = {seg.cseq}
  BY <1>1, <1>2, <1>3 DEF CSeqsOf, Parsed, LastSaid
<1>6. seg.track # None => FlagsOf(q, flag) = {seg.track}
  BY <1>1, <1>2 DEF FlagsOf, Parsed, LastSaid
<1>7. QED
  BY <1>4, <1>5, <1>6 DEF q

\* The handler answers the request unless it is an ignored SETUP, and the third
\* one, if at all, with a session.
LEMMA RequestAnswered ==
  ASSUME DialogInv, NEW e, HandleRequest(e)
  PROVE  LET c == fdConn[e.fd] IN
         /\ c \in Conns
         /\ awaited' = [awaited EXCEPT ![c] = Ignored(c)]
         /\ inbox' = [inbox EXCEPT ![c] = <<>>]
         /\ sent' = sent /\ \A d \in Conns \ {c} : learned'[d] = learned[d]
         /\ sent[c] = 3 /\ Ignored(c) = {} => learned'[c] # NoSession
<1> DEFINE c == fdConn[e.fd]
           f == e.fd
<1>1. ConfInv /\ TypeOK /\ LoopInv /\ OneAtATime
  BY DEF DialogInv, ConfInv, Inv, LoopInv
<1>2. f \in Fds /\ c \in Conns /\ inbox[c] # <<>>
  BY <1>1, RequestConn DEF HandleRequest
<1>3. /\ inbox' = [inbox EXCEPT ![c] = <<>>] /\ sent' = sent
      /\ \A d \in Conns \ {c} : learned'[d] = learned[d]
      /\ fault' # "null"
  BY <1>1, RequestKeeps DEF HandleRequest, clientVars, DispatchKeeps
<1>4. PICK seg \in Segment : /\ InDialog(seg, sent[c]) /\ seg.cseq + 1 = NextCSeq(c)
                             /\ inbox[c] = <<seg>> /\ awaited[c] = {seg.cseq}
                             /\ Ignored(c) \subseteq {seg.cseq}
  BY <1>1, <1>2 DEF OneAtATime
<1>5. PICK flag \in FlagsOf(inbox[c], avFlags[f]), method \in MethodsOf(inbox[c]),
           cseq \in CSeqsOf(inbox[c]), id \in SessionsOf(inbox[c]) :
             Dispatch(c, f, method, cseq, id, flag)
  BY DEF HandleRequest
<1>6. method = seg.method /\ cseq = seg.cseq /\ (seg.track # None => flag = seg.track)
  BY <1>4, <1>5, ReadAlone
<1>7. cseq \in Int /\ sent[c] \in Nat /\ NextCSeq(c) \in Int /\ cseq = NextCSeq(c) - 1
  <2>1. cseq \in Int /\ cseq + 1 = NextCSeq(c)
    BY <1>4, <1>6 DEF InDialog
  <2>2. sent[c] \in Nat
    BY <1>1, <1>2 DEF TypeOK
  <2>3. NextCSeq(c) \in Int
    BY <1>1, <1>2, NextCSeqInt
  <2>4. QED
    BY <2>1, <2>2, <2>3
<1>8. /\ method = "SETUP" <=> sent[c] \in {3, 4}
      /\ method = "SETUP" => (sent[c] = 3 <=> flag = Video)
  BY <1>4, <1>6, <1>7, NoneNotNumber DEF InDialog, TrackOf, Video, Audio
<1>9. Ignored(c) = IF method = "SETUP" /\ cseq \notin {3, 4} THEN {cseq} ELSE {}
  <2>1. method = "SETUP" => cseq \in SetupCSeqs(c)
    BY <1>1, <1>2, <1>7, <1>8, LastSetup
  <2>2. method # "SETUP" => cseq \notin SetupCSeqs(c)
    <3>1. CASE sent[c] # 0
      BY <1>1, <1>2, <1>7, <1>8, <3>1, LastSetup
    <3>2. CASE sent[c] = 0
      BY <3>2 DEF SetupCSeqs
    <3>3. QED
      BY <3>1, <3>2
  <2>3. Ignored(c) \subseteq {cseq}
    BY <1>4, <1>6
  <2>4. QED
    BY <2>1, <2>2, <2>3 DEF Ignored
<1>10. awaited \in [Conns -> SUBSET Int] /\ learned \in [Conns -> Int] /\ awaited[c] = {cseq}
  BY <1>1, <1>4, <1>6 DEF TypeOK
<1>11. ASSUME NEW i, Answer(c, cseq, i)
       PROVE  /\ awaited' = [awaited EXCEPT ![c] = {}]
              /\ i # NoSession => learned'[c] = i
  BY <1>2, <1>10, <1>11 DEF Answer
<1>12. ASSUME NEW i, AnswerSetup(c, cseq, i), method = "SETUP"
       PROVE  /\ awaited' = [awaited EXCEPT ![c] = Ignored(c)]
              /\ Ignored(c) = {} /\ i # NoSession => learned'[c] = i
  <2>1. CASE cseq \in {3, 4}
    BY <1>9, <1>11, <1>12, <2>1 DEF AnswerSetup
  <2>2. CASE cseq \notin {3, 4}
    BY <1>2, <1>9, <1>10, <1>12, <2>2 DEF AnswerSetup, NoAnswer
  <2>3. QED
    BY <2>1, <2>2
<1>13. CASE \/ method \notin {"SETUP", "PLAY"} /\ JustAnswer(c, method, cseq, id)
            \/ method = "PLAY" /\ Play(c, cseq, id)
  <2>1. Answer(c, cseq, NoSession)
    BY <1>13 DEF JustAnswer, Play
  <2>2. sent[c] # 3 /\ Ignored(c) = {}
    BY <1>8, <1>9, <1>13
  <2>3. QED
    BY <1>2, <1>3, <1>11, <2>1, <2>2
<1>14. CASE method = "SETUP" /\ flag = Video /\ SetupVideo(c, f, cseq)
  <2>1. AnswerSetup(c, cseq, Len(sessions) + 1)
    BY <1>14 DEF SetupVideo
  <2>2. Len(sessions) + 1 # NoSession
    BY <1>1 DEF TypeOK, NoSession
  <2>3. QED
    BY <1>2, <1>3, <1>12, <1>14, <2>1, <2>2
<1>15. CASE method = "SETUP" /\ flag = Audio /\ SetupAudio(c, f, cseq)
  <2>1. AnswerSetup(c, cseq, avSessionIds[f])
    BY <1>3, <1>15 DEF SetupAudio, Die
  <2>2. sent[c] # 3
    BY <1>8, <1>15 DEF Video, Audio
  <2>3. QED
    BY <1>2, <1>3, <1>12, <1>15, <2>1, <2>2
<1>16. QED
  BY <1>5, <1>13, <1>14, <1>15 DEF Dispatch

LEMMA DialogInit == Init => DialogInv
<1> SUFFICES ASSUME Init PROVE DialogInv
  OBVIOUS
<1>1. \A c \in Conns : Ignored(c) = {}
  BY DEF Init, Ignored, SetupCSeqs
<1>2. OneAtATime
  BY <1>1 DEF Init, OneAtATime
<1>3. SetUp
  BY DEF Init, SetUp
<1>4. QED
  BY <1>2, <1>3, ConfInit DEF DialogInv

LEMMA RequestKeepsDialog ==
  ASSUME DialogInv, NEW e, HandleRequest(e)
  PROVE  OneAtATime' /\ SetUp'
<1> DEFINE c == fdConn[e.fd]
<1>1. /\ c \in Conns
      /\ awaited' = [awaited EXCEPT ![c] = Ignored(c)]
      /\ inbox' = [inbox EXCEPT ![c] = <<>>]
      /\ sent' = sent /\ \A d \in Conns \ {c} : learned'[d] = learned[d]
      /\ sent[c] = 3 /\ Ignored(c) = {} => learned'[c] # NoSession
  BY RequestAnswered
<1>2. awaited \in [Conns -> SUBSET Int] /\ inbox \in [Conns -> Seq(Segment)]
  BY DEF DialogInv, ConfInv, Inv, LoopInv, TypeOK
<1> HIDE DEF c
<1>3. /\ inbox'[c] = <<>> /\ awaited'[c] = Ignored(c)
      /\ \A d \in Conns \ {c} : inbox'[d] = inbox[d] /\ awaited'[d] = awaited[d]
  BY <1>1, <1>2
<1>4. \A d \in Conns : Ignored(d)' = Ignored(d) /\ NextCSeq(d)' = NextCSeq(d)
  BY <1>1 DEF Ignored, SetupCSeqs, NextCSeq
<1>5. OneAtATime'
  BY <1>1, <1>3, <1>4 DEF DialogInv, OneAtATime
<1>6. SetUp'
  BY <1>1, <1>3 DEF DialogInv, SetUp, HasSession
<1>7. QED
  BY <1>5, <1>6

LEMMA SendKeepsDialog ==
  ASSUME DialogInv, NEW c \in Conns, awaited[c] = {}, NEW seg \in DialogSegment(c), Send(c, seg)
  PROVE  DialogInv'
<1>1. ConfInv /\ TypeOK /\ OneAtATime /\ SetUp /\ LearnedOwn
  BY DEF DialogInv, ConfInv, Inv, LoopInv
<1>2. /\ InDialog(seg, sent[c] + 1) /\ seg.cseq = NextCSeq(c) /\ seg \in Segment
      /\ seg.session # None => HasSession(c) /\ seg.session = learned[c]
  BY <1>1, DialogSegments DEF InDialog
<1>3. Conforms(c, seg)
  <2>1. seg.track = Audio => HasSession(c)
    BY <1>1, <1>2, NoneNotNumber DEF InDialog, TrackOf, SetUp, Video, Audio, TypeOK
  <2>2. seg.method = "SETUP" => seg.track # None
    BY <1>1, <1>2, NoneNotNumber DEF InDialog, TrackOf, Video, Audio, TypeOK
  <2>3. QED
    BY <1>1, <1>2, <2>1, <2>2 DEF Conforms, InDialog, LearnedOwn
<1>4. ConfInv'
  <2>1. AnyNext
    BY <1>2 DEF AnyNext
  <2>2. Inv' /\ ClientInv'
    BY <1>1, <1>3, <2>1, InvStep, SendKeeps DEF ConfInv
  <2>3. QED
    BY <2>2 DEF ConfInv, ClientInv
<1>5. /\ inbox' = [inbox EXCEPT ![c] = Append(@, seg)] /\ UNCHANGED learned
      /\ sent' = [sent EXCEPT ![c] = @ + 1]
      /\ awaited' = [awaited EXCEPT ![c] = @ \cup {seg.cseq}]
  BY <1>2, NoneNotNumber DEF Send, InDialog
<1>6. /\ inbox \in [Conns -> Seq(Segment)] /\ awaited \in [Conns -> SUBSET Int]
      /\ sent \in [Conns -> Nat]
  BY <1>1 DEF TypeOK
<1>7. inbox[c] = <<>> /\ Ignored(c) = {}
  BY <1>1 DEF OneAtATime
<1>8. /\ inbox'[c] = <<seg>> /\ awaited'[c] = {seg.cseq} /\ sent'[c] = sent[c] + 1
      /\ \A d \in Conns \ {c} :
           inbox'[d] = inbox[d] /\ awaited'[d] = awaited[d] /\ sent'[d] = sent[d]
  BY <1>5, <1>6, <1>7
<1>9. OneAtATime'
  <2>1. seg.cseq + 1 = NextCSeq(c)'
    BY <1>2, <1>6, <1>8, BoundsAssumption DEF NextCSeq
  <2>2. Ignored(c)' \subseteq {seg.cseq}
    BY <1>1, <1>2, <1>7, <1>8, IgnoredGrows
  <2>3. \A d \in Conns \ {c} : Ignored(d)' = Ignored(d) /\ NextCSeq(d)' = NextCSeq(d)
    BY <1>8 DEF Ignored, SetupCSeqs, NextCSeq
  <2>4. QED
    BY <1>1, <1>2, <1>8, <2>1, <2>2, <2>3 DEF OneAtATime
<1>10. SetUp'
  BY <1>1, <1>5, <1>8 DEF SetUp, HasSession
<1>11. QED
  BY <1>4, <1>9, <1>10 DEF DialogInv

LEMMA DialogStep ==
  ASSUME DialogInv, [DialogNext]_vars
  PROVE  DialogInv'
<1>1. CASE SendDialog
  BY <1>1, SendKeepsDialog DEF SendDialog
<1>2. CASE [ServerStep \/ ClientStep]_vars
  <2>1. ConfInv'
    <3>1. [AnyNext]_vars
      BY <1>2 DEF AnyNext
    <3>2. Inv' /\ ClientInv'
      BY <1>2, <3>1, InvStep, UnsentClientInv DEF DialogInv, ConfInv
    <3>3. QED
      BY <3>2 DEF ConfInv, ClientInv
  <2>2. CASE \E e \in Event : HandleRequest(e)
    BY <2>1, <2>2, RequestKeepsDialog DEF DialogInv
  <2>3. CASE ~\E e \in Event : HandleRequest(e)
    <3>1. UNCHANGED <<inbox, awaited, learned, sent>>
      BY <1>2, <2>3
         DEF ServerStep, EpollWait, ErrorEvent, Accept, AcceptFails, Disconnect, StreamEnd,
             StreamSigpipe, ClientStep, Connect, HangUp, Stall, Resume, vars, clientVars, talkVars
    <3>2. \A c \in Conns : Ignored(c)' = Ignored(c) /\ NextCSeq(c)' = NextCSeq(c)
      BY <3>1 DEF Ignored, SetupCSeqs, NextCSeq
    <3>3. OneAtATime' /\ SetUp'
      BY <3>1, <3>2 DEF DialogInv, OneAtATime, SetUp, HasSession
    <3>4. QED
      BY <2>1, <3>3 DEF DialogInv
  <2>4. QED
    BY <2>2, <2>3
<1>3. QED
  BY <1>1, <1>2 DEF DialogNext

\* Players, each of which counts its requests from any number: what they wait for
\* has not been read yet, or is a SETUP whose CSeq is neither 3 nor 4
\* (handleCmd_SETUP_TCP, lines 482-506).
THEOREM DialogAllAnswered == DialogSpec => []AllAnswered
<1>1. DialogInv => AllAnswered
  <2> SUFFICES ASSUME DialogInv, NEW c \in Conns
               PROVE  awaited[c] = {inbox[c][i].cseq : i \in DOMAIN inbox[c]} \cup Ignored(c)
    BY DEF AllAnswered
  <2>1. CASE inbox[c] = <<>> /\ awaited[c] = Ignored(c)
    BY <2>1
  <2>2. CASE \E seg \in Segment : /\ inbox[c] = <<seg>> /\ awaited[c] = {seg.cseq}
                                  /\ Ignored(c) \subseteq {seg.cseq}
    BY <2>2
  <2>3. QED
    BY <2>1, <2>2 DEF DialogInv, OneAtATime
<1>2. QED
  BY <1>1, DialogInit, DialogStep, PTL DEF DialogSpec

\* A player's request never meets a session that is not there, from whatever
\* number it counts: a video SETUP that is ignored is followed by no audio SETUP.
THEOREM DialogNoNullSession == DialogSpec => []NoNullSession
<1>1. DialogInv => NoNullSession
  BY DEF DialogInv, ConfInv
<1>2. QED
  BY <1>1, DialogInit, DialogStep, PTL DEF DialogSpec
=============================================================================
