---------------------------- MODULE TcpStreaming ----------------------------
(***************************************************************************)
(* sendH264AacOverTcp: one thread sends the audio file, one the video file *)
(* over the RTSP connection, and the event loop's thread joins them.  Each *)
(* RTP packet is framed ("$", channel, length) and given to one send().    *)
(*                                                                         *)
(* Streams follow one another, each to a client of its own; what lasts     *)
(* from one to the next are the process's descriptors.  Sizes are counted  *)
(* in units, the first of which holds the framing and the RTP header.      *)
(***************************************************************************)
EXTENDS Integers, Sequences

CONSTANTS VideoFile,    \* the sizes of the NALs of H264_FILE_NAME, in order
          AudioFile,    \* the frames of AAC_FILE_NAME, in order
          MaxPkt,       \* RTP_MAX_PKT_SIZE
          Space,        \* units the socket buffers between the two ends
          Descriptors,  \* descriptors left for the files
          MaxStreams    \* bound: the streams that are started

Threads == {"aac", "h264"}
Frame == [size : Nat \ {0}, crc : BOOLEAN]

ASSUME FilesAssumption == VideoFile \in Seq(Nat \ {0}) /\ AudioFile \in Seq(Frame)
ASSUME SizesAssumption ==
  /\ MaxPkt \in Nat \ {0} /\ Space \in Nat \ {0}
  /\ Descriptors \in Nat /\ MaxStreams \in Nat

\* A unit on the wire: who sent it, and, in the first unit of a packet, the
\* number of units the framing announces (otherwise 0).
Unit == [by : Threads, length : Nat]

VARIABLES
  phase,      \* "streaming" while the event loop's thread waits in join()
  client,     \* the client: it reads, pauses, or is gone
  streams,    \* number of streams started
  pc,         \* where each thread is
  next,       \* the NAL or frame it reads next
  todo,       \* the sizes of the packets it has still to send of the last one
  put,        \* units of the first of them that send() has put
  moved,      \* whether the frame pointer of the audio thread has been moved
  openFiles,  \* descriptors of files held by the process
  unread,     \* the units sent and not read
  sockErr,    \* whether the reset of the connection is still to be reported
  expect,     \* units the client still takes for part of its current packet
  from,       \* and the thread that packet is from
  lost,       \* whether the client took bytes for something they are not
  waited      \* whether a send() had to wait with its packet partly put

threadVars == <<pc, next, todo, put, moved, openFiles>>
readerVars == <<expect, from, lost>>
vars == <<phase, client, streams, threadVars, unread, sockErr, readerVars, waited>>

TypeOK ==
  /\ phase \in {"idle", "streaming", "dead"}
  /\ client \in {"reading", "stalled", "gone"}
  /\ streams \in 0..MaxStreams
  /\ pc \in [Threads -> {"open", "read", "send", "returned"}]
  /\ next \in [Threads -> Nat \ {0}]
  /\ todo \in [Threads -> Seq(Nat \ {0})]
  /\ put \in [Threads -> Nat]
  /\ moved \in BOOLEAN
  /\ openFiles \in 0..Descriptors
  /\ unread \in Seq(Unit) /\ Len(unread) <= Space
  /\ sockErr \in BOOLEAN
  /\ expect \in Nat /\ from \in Threads
  /\ lost \in BOOLEAN /\ waited \in BOOLEAN

Init ==
  /\ phase = "idle" /\ client = "reading" /\ streams = 0
  /\ pc = [t \in Threads |-> "returned"]
  /\ next = [t \in Threads |-> 1]
  /\ todo = [t \in Threads |-> <<>>]
  /\ put = [t \in Threads |-> 0]
  /\ moved = FALSE
  /\ openFiles = 0
  /\ unread = <<>> /\ sockErr = FALSE
  /\ expect = 0 /\ from = "aac" /\ lost = FALSE /\ waited = FALSE

-----------------------------------------------------------------------------
(* The threads *)

\* A request starts a stream; its client may be gone by then, and the reset
\* may or may not be reported before send() raises SIGPIPE.
Start ==
  /\ phase = "idle" /\ phase' = "streaming"
  /\ streams < MaxStreams /\ streams' = streams + 1
  /\ client' \in {"reading", "gone"}
  /\ sockErr' \in {e \in BOOLEAN : e => client' = "gone"}
  /\ pc' = [t \in Threads |-> "open"]
  /\ next' = [t \in Threads |-> 1]
  /\ todo' = [t \in Threads |-> <<>>]
  /\ put' = [t \in Threads |-> 0]
  /\ moved' = FALSE
  /\ unread' = <<>>
  /\ expect' = 0 /\ lost' = FALSE /\ waited' = FALSE
  /\ UNCHANGED <<openFiles, from>>

\* Mutation: the audio thread is detached.
JoinVideo ==
  /\ phase = "streaming" /\ phase' = "idle"
  /\ pc["h264"] = "returned"
  /\ UNCHANGED <<client, streams, threadVars, unread, sockErr, readerVars, waited>>

Join ==
  /\ phase = "streaming" /\ phase' = "idle"
  /\ \A t \in Threads : pc[t] = "returned"
  /\ UNCHANGED <<client, streams, threadVars, unread, sockErr, readerVars, waited>>

Runs(t, at) == phase # "dead" /\ pc[t] = at
Goto(t, at) == pc' = [pc EXCEPT ![t] = at]
Elsewhere == UNCHANGED <<client, streams, unread, readerVars, waited>>

\* fopen(); without a descriptor the thread returns at once.
Open(t) ==
  /\ Runs(t, "open")
  /\ \/ openFiles < Descriptors /\ openFiles' = openFiles + 1 /\ Goto(t, "read")
     \/ openFiles = Descriptors /\ UNCHANGED openFiles /\ Goto(t, "returned")
  /\ Elsewhere /\ UNCHANGED <<phase, next, todo, put, moved, sockErr>>

Framing == 1

\* sendManagerTcp: one packet, or FU-A fragments of MaxPkt bytes and the rest,
\* each with the two FU-A bytes (in the first unit with the headers).
Packets(nal) ==
  IF nal <= MaxPkt THEN <<nal + Framing>>
  ELSE [i \in 1..(nal \div MaxPkt) |-> MaxPkt + Framing]
       \o (IF nal % MaxPkt > 0 THEN <<(nal % MaxPkt) + Framing>> ELSE <<>>)

\* extract_content cuts off a NAL at the start code after it.
ReadNal ==
  /\ Runs("h264", "read")
  /\ next["h264"] <= Len(VideoFile)
  /\ todo' = [todo EXCEPT !["h264"] = Packets(VideoFile[next["h264"]])]
  /\ next' = [next EXCEPT !["h264"] = @ + 1]
  /\ Goto("h264", "send")
  /\ Elsewhere /\ UNCHANGED <<phase, put, moved, openFiles, sockErr>>

\* After the last NAL there is no start code, unless stale bytes of the buffer
\* look like one: the thread returns, with the file still open.
LastNalFails ==
  /\ Runs("h264", "read")
  /\ next["h264"] = Len(VideoFile)
  /\ Goto("h264", "returned")
  /\ Elsewhere /\ UNCHANGED <<phase, next, todo, put, moved, openFiles, sockErr>>

\* Mutation: the file is closed where reading stops and once more at the end.
CloseAudioTwice ==
  /\ Runs("aac", "read") /\ next["aac"] > Len(AudioFile)
  /\ openFiles' = openFiles - 2
  /\ phase' \in {phase} \cup (IF moved THEN {"dead"} ELSE {})
  /\ Goto("aac", "returned")
  /\ Elsewhere /\ UNCHANGED <<next, todo, put, moved, sockErr>>

\* The ends of the files.  free() of a frame pointer that was moved aborts,
\* unless it takes what lies before it for a chunk of its own.
CloseVideo ==
  /\ Runs("h264", "read") /\ next["h264"] > Len(VideoFile)
  /\ openFiles' = openFiles - 1
  /\ Goto("h264", "returned")
  /\ Elsewhere /\ UNCHANGED <<phase, next, todo, put, moved, sockErr>>

CloseAudio ==
  /\ Runs("aac", "read") /\ next["aac"] > Len(AudioFile)
  /\ openFiles' = openFiles - 1
  /\ phase' \in {phase} \cup (IF moved THEN {"dead"} ELSE {})
  /\ Goto("aac", "returned")
  /\ Elsewhere /\ UNCHANGED <<next, todo, put, moved, sockErr>>

\* A frame with a CRC moves the pointer by two, for good.
ReadFrame ==
  /\ Runs("aac", "read") /\ next["aac"] <= Len(AudioFile)
  /\ LET frame == AudioFile[next["aac"]] IN
     /\ todo' = [todo EXCEPT !["aac"] = <<frame.size + Framing>>]
     /\ moved' = (moved \/ frame.crc)
  /\ next' = [next EXCEPT !["aac"] = @ + 1]
  /\ Goto("aac", "send")
  /\ Elsewhere /\ UNCHANGED <<phase, put, openFiles, sockErr>>

\* The packet is sent, as far as the thread can tell.
PacketDone(t) ==
  /\ todo' = [todo EXCEPT ![t] = Tail(@)]
  /\ put' = [put EXCEPT ![t] = 0]
  /\ Goto(t, IF Len(todo[t]) = 1 THEN "read" ELSE "send")

\* The units put next, n of them.
Units(t, n) ==
  [i \in 1..n |-> [by |-> t, length |-> IF put[t] + i = 1 THEN Head(todo[t]) ELSE 0]]

\* send() puts what fits and waits for more space with the socket unlocked.
SendUpTo(t, n) ==
  /\ Runs(t, "send") /\ client # "gone"
  /\ n > 0
  /\ unread' = unread \o Units(t, n)
  /\ \/ put[t] + n = Head(todo[t]) /\ PacketDone(t) /\ UNCHANGED waited
     \/ /\ put[t] + n < Head(todo[t])
        /\ put' = [put EXCEPT ![t] = @ + n]
        /\ waited' = (waited \/ Len(unread) + n = Space)
        /\ UNCHANGED <<pc, todo>>
  /\ UNCHANGED <<phase, client, streams, next, moved, openFiles, sockErr, readerVars>>

Smaller(a, b) == IF a < b THEN a ELSE b

\* Mutation: the framing is sent with a send() of its own.
PutFramingFirst(t) ==
  todo[t] # <<>> /\ SendUpTo(t, Smaller(IF put[t] = 0 THEN Framing ELSE Head(todo[t]) - put[t],
                                        Space - Len(unread)))

Put(t) ==
  todo[t] # <<>> /\ SendUpTo(t, Smaller(Head(todo[t]) - put[t], Space - Len(unread)))

\* The connection is reset while send() waits: it returns what it had put, which
\* nobody compares with the size of the packet.
PutShort(t) ==
  /\ Runs(t, "send") /\ client = "gone" /\ put[t] > 0
  /\ PacketDone(t)
  /\ Elsewhere /\ UNCHANGED <<phase, next, moved, openFiles, sockErr>>

\* Mutation: the audio thread returns too when a packet cannot be sent.
SendFailsReturn(t) ==
  /\ Runs(t, "send") /\ client = "gone" /\ put[t] = 0
  /\ sockErr /\ sockErr' = FALSE
  /\ todo' = [todo EXCEPT ![t] = <<>>] /\ Goto(t, "returned")
  /\ Elsewhere /\ UNCHANGED <<phase, next, put, moved, openFiles>>

\* The first send() after the reset returns -1.  The video thread returns and
\* leaves its file open; the audio thread goes on with the next frame.
SendFails(t) ==
  /\ Runs(t, "send") /\ client = "gone" /\ put[t] = 0
  /\ sockErr /\ sockErr' = FALSE
  /\ todo' = [todo EXCEPT ![t] = <<>>]
  /\ Goto(t, IF t = "h264" THEN "returned" ELSE "read")
  /\ Elsewhere /\ UNCHANGED <<phase, next, put, moved, openFiles>>

\* Later ones raise SIGPIPE.
Sigpipe(t) ==
  /\ Runs(t, "send") /\ client = "gone" /\ put[t] = 0 /\ ~sockErr
  /\ phase' = "dead"
  /\ Elsewhere /\ UNCHANGED <<threadVars, sockErr>>

-----------------------------------------------------------------------------
(* The client *)

\* It takes the next unit: as the start of a packet, or as more of the packet
\* whose length it was told.
Read ==
  /\ phase # "dead" /\ client = "reading" /\ unread # <<>>
  /\ LET u == Head(unread) IN
     \/ /\ expect = 0
        /\ lost' = (lost \/ u.length = 0)
        /\ expect' = IF u.length = 0 THEN 0 ELSE u.length - 1
        /\ from' = u.by
     \/ /\ expect > 0
        /\ lost' = (lost \/ u.length > 0 \/ u.by # from)
        /\ expect' = expect - 1
        /\ UNCHANGED from
  /\ unread' = Tail(unread)
  /\ UNCHANGED <<phase, client, streams, threadVars, sockErr, waited>>

ClientTurns(a, b) ==
  /\ phase # "dead"
  /\ client = a /\ client' = b
  /\ UNCHANGED <<phase, streams, threadVars, readerVars, waited>>

Stall == ClientTurns("reading", "stalled") /\ UNCHANGED <<unread, sockErr>>
Resume == ClientTurns("stalled", "reading") /\ UNCHANGED <<unread, sockErr>>

\* The connection is reset; what was not read is gone.
Leave ==
  /\ \E a \in {"reading", "stalled"} : ClientTurns(a, "gone")
  /\ unread' = <<>> /\ sockErr' \in BOOLEAN

-----------------------------------------------------------------------------
VideoStep == ReadNal \/ LastNalFails \/ CloseVideo
AudioStep == ReadFrame \/ CloseAudio
SendStep(t) == Put(t) \/ PutShort(t) \/ SendFails(t) \/ Sigpipe(t)

ThreadStep(t) ==
  \/ Open(t) \/ SendStep(t)
  \/ t = "h264" /\ VideoStep
  \/ t = "aac" /\ AudioStep

Next ==
  \/ Start \/ Join
  \/ \E t \in Threads : ThreadStep(t)
  \/ Read \/ Stall \/ Resume \/ Leave

\* Threads that can run do, and so does join().  Of a client that takes up
\* reading again and again it is assumed that it gets to read.
Fairness ==
  /\ WF_vars(Join) /\ \A t \in Threads : WF_vars(ThreadStep(t))
  /\ SF_vars(Read)

Spec == Init /\ [][Next]_vars /\ Fairness

-----------------------------------------------------------------------------
\* The two threads share the socket without a lock.  The client can take the
\* stream apart, packet by packet, as long as no send() had to wait for it with
\* a packet partly sent.
FramesWhole == lost => waited

\* No file outlives its stream but the video file, once per stream: the error
\* paths of the video thread return without fclose(), those of the audio
\* thread do not return.
FilesAccounted ==
  openFiles <= streams + (IF pc["aac"] \in {"read", "send"} THEN 1 ELSE 0)

\* adts.h:11 lists frames with a CRC as well as without, and lines 1001-1005
\* skip the CRC: such a file is played, and only a client that leaves ends the
\* process.
StreamSurvives == [][phase' = "dead" => client = "gone"]_vars

Contract == INSTANCE StreamContract WITH
  BadAudio <- \E i \in DOMAIN AudioFile : AudioFile[i].crc

\* What RtspServer assumes of a stream: it dies only of what it should, and it
\* ends if its client reads again and again or is gone.
ContractSpec == Contract!Spec
=============================================================================
