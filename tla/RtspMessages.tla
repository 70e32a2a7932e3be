---------------------------- MODULE RtspMessages ----------------------------
(***************************************************************************)
(* What a client can put on an RTSP connection, and what                   *)
(* RtspHandler::interact_rtsp_tcp makes of the bytes of one recv().         *)
(*                                                                         *)
(* TCP is a byte stream: the handler reads whatever has arrived, which may *)
(* be several requests, part of one, or interleaved RTCP data.  A segment  *)
(* is a piece of that stream, reduced to the lines the parser looks for; a *)
(* field is None when the piece has no such line.                          *)
(***************************************************************************)
EXTENDS Integers, Sequences

CONSTANT None        \* a line that is not there

\* UNSUPPORTED stands for any other word, in the place of the method of a line that
\* has one of these six words in it somewhere: the parser looks for them in the
\* whole line (258-263).  A line without any is no request line for it: a request
\* that begins with such a line has None as its method.
Methods == {"OPTIONS", "DESCRIBE", "SETUP", "PLAY", "PAUSE", "TEARDOWN",
            "UNSUPPORTED"}

ASSUME NoneNotMethod == None \notin Methods
ASSUME NoneNotNumber == None \notin Int

Video == 0           \* "track0": the flag setAvFlags(fd, 0)
Audio == 1           \* "track1": the flag setAvFlags(fd, 1)
Tracks == {Video, Audio}

NoSession == 0       \* the empty string in session_ and in avSessionIds_
NoCSeq == -1         \* CSeq as initialised, when no CSeq line was read

Segment ==
  [binary : BOOLEAN, method : Methods \cup {None}, track : Tracks \cup {None},
   cseq : Int \cup {None}, session : Int \cup {None}]

\* An interleaved RTCP packet.  Its header holds a NUL byte, so that strtok()
\* sees nothing of the buffer from there on.
Rtcp == [binary |-> TRUE, method |-> None, track |-> None,
         cseq |-> None, session |-> None]

-----------------------------------------------------------------------------
\* The segments of a buffer the line loop gets to see.
Read(buffer) == {i \in DOMAIN buffer : \A j \in 1..i : ~buffer[j].binary}

\* The value of a field in the last line that has it: every line overwrites
\* what the lines before it said.
LastSaid(buffer, field) ==
  {buffer[i][field] : i \in {i \in Read(buffer) :
      /\ buffer[i][field] # None
      /\ \A j \in Read(buffer) : j > i => buffer[j][field] = None}}

\* What the handler has for a field after the line loop; unset are the values
\* it may have when no line says anything.
Parsed(buffer, field, unset) ==
  IF \E i \in Read(buffer) : buffer[i][field] # None
  THEN LastSaid(buffer, field) ELSE unset

\* method is an uninitialised array until a request line is recognised: without one
\* build_string_tcp compares whatever the stack holds.
MethodsOf(buffer) == Parsed(buffer, "method", Methods)

CSeqsOf(buffer) == Parsed(buffer, "cseq", {NoCSeq})

SessionsOf(buffer) == Parsed(buffer, "session", {NoSession})

\* Mutation: track0 does not reset the flag that track1 has set.
FlagsSticky(buffer, flag) ==
  IF flag = Audio THEN {Audio} ELSE Parsed(buffer, "track", {flag})

\* The audio/video flag of the connection, which is flag before the line loop.
FlagsOf(buffer, flag) == Parsed(buffer, "track", {flag})
=============================================================================
