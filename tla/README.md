# fz_server in TLA+

fz_server is an RTSP media server in C++: one epoll loop on the main thread, a
fresh handler for every ready descriptor, session tables that all handlers
share, one H.264 and one AAC file streamed to each player over its RTSP
connection, and a logger with a background thread. This directory models the
server, its media senders, its configuration and its logger in TLA+, checks them with
TLC on small instances, and proves every safety property that these checks have with
TLAPS, for every instance.

All source paths below are relative to `src/` of the repository.

## 1. The system

### Components

| component | source | state it keeps | operations |
|---|---|---|---|
| `EpollServer` | `server/epollServer.cpp` | the epoll set, the listening socket, the array `events` of one `epoll_wait`, the port | `run` (loads the configuration), `initserver`, `init` (the loop), `handleClientRequest` |
| `RtspHandler` | `handler/rtsp/rtsp_handler.cpp` | per request: `session_` (the id the request names); nothing outlives a request | `handleRequest`, `recv_message`, `interact_rtsp_tcp`, `build_string_tcp`, one `handleCmd_*` per method, `sendH264AacOverTcp` |
| `SessionManager`, `Session` | `session/*.h` | id -> `Session` (tracks, state, peer) | `addSession`, `getSession`, `deleteSession` (no caller); `setInfo`, `setState`, `getState` |
| `ClientFdManager` | `common/clientFdManager.h` | descriptor -> audio/video flag; descriptor -> session id | `setAvFlags`, `getAvFlags`, `setSessionIds`, `getSessionIds` |
| session ids | `utility/generate_session.h` | none | 128 random bits as text |
| streaming over TCP | `rtsp_handler.cpp` 953-1092, `container/*`, `handler/rtp` | per stream: two threads, two files, RTP sequence number and timestamp of each track | `sendH264OverTcp`, `sendAACOverTcp`, readers and packetisers |
| RTSP over UDP | `rtsp_handler.cpp` 128-184, 351-450, 560-695, 806-951 | sockets and ports of a session | `interact_rtsp`, `build_string`, `createUdpSocket`, ...: compiled, and called by a line of `handleRequest` that is commented out |
| H.264 and AAC | `container/*`, `handler/rtp` | the buffers of one sender, its place in the file, number and timestamp | readers, packetisers, RTP headers |
| `PortManager` | `utility/portManager.h` | the ports handed out | `generatePorts`, `isPortUsed`: used by the UDP path only |
| `Logger` | `utility/logger/*` | queue, length of the file, running flag, three mutexes, the background thread | `log`, `process_logs`, `rotate`, `open`, `close`, `stop` |
| `IniFile` | `utility/ini_file/*` | section -> key -> value; the file | `load`, `save`, `get`, `set`, `remove`, `clear`, ... |
| `ProtocolFactory`, `RtmpHandler` | `handler/*.h`, `handler/rtmp` | none | a new `RtspHandler` per call; RTMP is an empty body |

### How they interact

The main thread waits in `epoll_wait` and goes through the events it got, one
by one. A readable descriptor gets a new `RtspHandler`; the handler reads once,
takes what it read for one request, answers it, and records what it must
remember in the two singletons: `SessionManager` by session id and
`ClientFdManager` by descriptor number. If the request names a session, the
handler then looks the session up again and acts on its state: PLAYING means
that the stream is sent, by two threads that the handler joins. So the event
loop stands still while a stream runs. All threads call the logger. The
configuration is read once, by `run`, for the port.

### What is hard about it

* Events of one `epoll_wait` are handled after earlier ones have closed
  descriptors and `accept` has reused the numbers.
* The tables by descriptor are not cleared when a descriptor is closed: the next
  connection with that number finds the entries of the one before.
* TCP is a byte stream but each `recv` is treated as one request: requests that
  arrive together are merged, RTCP data on the same connection is parsed as a
  request, a fragment leaves `method` uninitialised.
* The session is looked up twice for a request, and checked once.
* `Session::state_` is uninitialised, and no request leaves PLAYING.
* A viewer that does not read holds the only thread; one that leaves raises
  SIGPIPE.
* A reader looks for the end of a NAL, and a frame for its length, in a buffer with
  stale bytes; a CRC moves a pointer for good.
* A port is probed by binding and closing, and bound later; over UDP a session id is
  recorded before the session exists.
* The configuration is text without quoting.
* The logger's queue, lengths, time buffer and condition variable are protected
  by different mutexes, or by none, on the two sides.

`PROJECT.json` lists every such hazard with its line and the properties that
cover it.

### What makes each component correct

* `EpollServer`: an event is handled for the connection it was reported for;
  `accept` is called only with a connection pending.
* `RtspHandler`: every request read is answered; a lookup that is not checked
  succeeds; a stream goes to the client that asked, on a descriptor that stays
  open.
* The tables: recorded ids exist; a session is changed by its own client only.
* Streaming: each packet is contiguous on the socket; a stream ends, and leaves no
  files behind; what a receiver reassembles is the file, NAL by NAL.
* `Logger`: entries are written in the order they were logged, none lost, none
  twice; what is logged is written; the process does not end before.
* `PortManager`: sessions have distinct ports, on which they can bind; who asks gets an
  answer as long as ports are left.
* RTSP over UDP: what the tables say of a session is true of its sockets, and no id is
  recorded without a session.
* `IniFile`: `load` after `save` is the identity on exactly the text that can be saved;
  the server listens where its file says.

## 2. The modules

| module | what it is |
|---|---|
| `RtspMessages` | what a client can put on the connection, and what the line loop makes of the bytes of one `recv` |
| `RtspServer` | the event loop, the handler, both tables, the kernel's sockets, clients that may send anything |
| `RtspClients` | the same server with conforming clients, with clients from before a restart, and with players; their properties |
| `MCRtsp` | constants and symmetry for the five server runs |
| `Rtsp_proofs` | theorems about the two |
| `ServerStart` | `EpollServer::run` and `initserver`: from the file to a listening socket |
| `IniFile` | the table, the text and the file of the configuration, used by `ServerStart` |
| `MCServerStart`, `IniFile_proofs` | constants for the start; theorems about it and the configuration |
| `StreamContract` | what the server relies on when it takes a stream for one step |
| `TcpStreaming` | the two sending threads of a stream on one socket; it implements `StreamContract` |
| `MCTcpStreaming`, `TcpStreaming_proofs` | constants for the two streaming runs; theorems |
| `Rtp` | what both senders share: sequence numbers and timestamps with their widths, the transport |
| `H264Stream` | the bytes of a video stream: reading NALs, packets, and what a receiver makes of them |
| `AacStream` | the same of an audio stream |
| `MediaStreams`, `MCMediaStreams` | either sender; constants for it |
| `SequenceLemmas` | induction, joined sequences, remainders and counting, for the proofs about the two streams and the configuration |
| `H264Stream_proofs`, `AacStream_proofs` | theorems about the video stream and the audio stream |
| `PortPool` | what `PortManager` promises: a pair of ports in one step |
| `PortManager` | the allocation of UDP ports and the sockets bound to them, step by step; it implements `PortPool` |
| `RtspUdp` | the SETUP requests over UDP that allocate ports, composed with `PortManager`, and their tables |
| `MCRtspUdp`, `RtspUdp_proofs` | constants; theorems about `PortManager` and `RtspUdp` |
| `LogChannel` | what a logger promises: a channel that keeps order |
| `Logger` | the logger, step by step; it implements `LogChannel` |
| `MCLogger`, `Logger_proofs` | constants for the two logger runs; theorems |

Operators whose comment begins with "Mutation:" are not part of a specification:
each is a mapped definition with one mistake a programmer could make, and
`PROJECT.json` names the property that then fails.

### RtspServer

`pc` says what the one thread does: `loop` (between two events, or waiting),
`stream` (in `sendH264AacOverTcp`, with the event still in hand) or `dead`.
`batch` is `events[]` from the current one on. `fdConn` is the connection behind
each open descriptor. `sessions` is the map of `SessionManager`; the n-th
generated id is n, since a 128-bit random id is one never used before.
`avFlags` and `avSessionIds` are the maps of `ClientFdManager`; a descriptor
without an entry reads as the default of `operator[]`.

| action | code |
|---|---|
| `EpollWait` | `epoll_wait`, with every ready descriptor once, in any order |
| `ErrorEvent` | EPOLLERR, EPOLLHUP or no EPOLLIN: `close` and `continue` (lines 83-89) |
| `Accept`, `AcceptFails` | lines 90-122; `accept` returns any free number, or fails when there is none |
| `Disconnect` | `recv_message` when `recv` returns 0 or an error |
| `HandleRequest` | `recv` with data, the line loop, the method's handler, the second lookup and what follows from it |
| `StreamEnd`, `StreamSigpipe` | both files sent and both threads joined, perhaps with the video file left open, whose descriptor `accept` then lacks (`leaked`); `send` to a client that left |

`HandleRequest` is one action because the thread does not give way between
`recv` and the end of the handler; clients act between any two actions, and
while a stream runs. Inside it are the branches of the code: `JustAnswer`
(OPTIONS, DESCRIBE, PAUSE, TEARDOWN, 501), `SetupVideo`, `SetupAudio`, `Play`,
each followed by `ActOnSession`, lines 64-105, or by the SIGPIPE of an answer to a
connection that is reset. `SetupVideo` picks the initial
state of the session from `StateGarbage`, because the constructor leaves it
uninitialised.

A message is a *segment*: a piece of the byte stream reduced to the lines the
parser looks for, each of which may be missing. `Read`, `LastSaid` and `Parsed`
are the line loop: all segments that arrived are one buffer, later lines
overwrite earlier ones, and nothing after an RTCP packet is seen because its
header has a NUL byte. Without a request line the method is any: the array is
uninitialised. A line is a request line if one of the six methods occurs anywhere in it,
so a request with another method is one without a request line; what is answered with a
501 is a line that has one of the six further on, or garbage in the array.

### ServerStart and IniFile

`m_sections` is the table of an `IniFile`, `disk` the lines of the file. Text is a
sequence of any characters (`Char`), as the question is which text survives; only the
characters the format uses differ. `AfterLines` is the line loop of `load`:
`find_first_of` without a match gives npos, which as an `int` makes `substr` return the
whole line on both sides (`Before`, `Behind`). `str` is the text of a table, in any order
since `load` does not depend on it. It is a sequence of what `std::endl` ends; that is not
what `getline` gives back, since a text may have an end of line in it (`Lines`). Each operation of the class is an action; `operator[]`
makes what it does not find (`at`, `get`).

In `ServerStart` programs edit, save and load the file with an `IniFile` of their own,
or it is written by hand (`Manual`), while the server is off; `run` loads it into
a new one, takes the port with `atoi` from whatever `get` returns (white space of C, more than
`trim` knows, a sign, and the digits as a `long` of which an `int` is kept), and `initserver`
binds to its 16 low bits, or fails. `EpollFails` and `Exit` bring the server back to
where it can be started again; `EditConfig` is the file changing underneath it.

### RtspClients

* `ConformingSpec`: clients send whole requests, video SETUP before audio SETUP,
  and name only the session id the server told them; they may pipeline, and send
  RTCP data once they have a session. This is the contract under which the
  unchecked lookups are safe.
* `RestartedSpec`: the clients hold an id the server does not have.
* `DialogSpec`: players that send the next request after the answer to the one
  before, in the order OPTIONS, DESCRIBE, SETUP of the video, SETUP of the audio, and
  then any of PLAY, PAUSE and TEARDOWN. What a player asks for goes by how many requests
  it has sent; each counts its CSeqs from a number of its own (`FirstCSeq`), so a SETUP
  can have any CSeq. `Ignored` are those that are sent and have one the code does not
  answer.

### TcpStreaming

What `RtspServer` does in `StreamEnd` and `StreamSigpipe` at once. `pc` has the two
threads: `open`, `read` (the next NAL or frame), `send`, `returned`. `todo` is the
list of packets a thread has still to send of its NAL, `put` how much of the first
`send` has put. `unread` is what is on the wire, unit by unit: the first unit of a
packet announces its length, as the framing bytes do. A unit stands for any number
of bytes; the first of a packet holds framing and RTP header. Streams follow one
another, because descriptors last.

| action | code |
|---|---|
| `Start`, `Join` | `sendH264AacOverTcp` |
| `Open` | `fopen` of either thread, which may be out of descriptors |
| `ReadNal`, `LastNalFails`, `CloseVideo` | the loop of `sendH264OverTcp`: `extract_content` finds the end of a NAL at the start code behind it. The last NAL has none, and the thread returns with its file open, unless stale bytes of the buffer look like one |
| `ReadFrame`, `CloseAudio` | the loop of `sendAacOverTcp` and its end, with the `free` of a pointer that a CRC has moved |
| `Put` | `send`: what fits is put at once; for the rest it waits with the socket unlocked, and the other thread may put a part of its own packet |
| `PutShort`, `SendFails`, `Sigpipe` | `send` on a connection that is reset: a short count nobody looks at, then one -1, then SIGPIPE |
| `Read`, `Stall`, `Resume`, `Leave` | the client, which takes the stream apart by the announced lengths |

`lost` says that the client took a unit for something it is not, `waited` that a
`send` had to wait with a part of its packet put.

`StreamContract` is the abstraction that `RtspServer` uses: a stream starts, ends
when both threads have returned, kills the process only if its client is gone (or
the audio file has CRCs), and ends if its client reads again and again or is gone.

### H264Stream

`TcpStreaming` counts units; here are the bytes, of one video thread whose socket
takes each packet or fails. `transport` says whether it is `sendH264OverTcp` or
`sendH264OverUdp`: they are the same text but for the `send`, and a datagram may be
lost (`lost` counts them). `rec` is the buffer of `sendH264OverTcp` with the
bytes behind it that `extract_content` compares. `fread` overwrites its beginning
only, so what an earlier read or `malloc` left stays behind the data.

| action | code |
|---|---|
| `ReadNal` | one turn of the loop: `fread`, `extract_content` finds the next start code, `fseek` goes back to it |
| `ExtractFails` | no start code found: `return -1` with the file open |
| `sendManagerTcp`, `sendManager` | one packet of the function: a NAL, or a fragment; after the last one the timestamp moves on, modulo its 32 bits, but not after a small parameter set or SEI |
| `SendFails` | `send` returns -1 |
| `Close` | end of the file |

The receiver (`Receive`) is not code of the repository: it takes whole NALs and
FU-A fragments with consecutive sequence numbers, in the same step. `Videos` gives
the files as NALs, which are what it should get; `file` has their bytes.

### AacStream, MediaStreams

The bytes of an audio stream. A file is a list of frames, each with what its ADTS header
says, which may be wrong, and the bytes behind; the end of the file may be cut
off. `aacFile` is its bytes, with real headers; `HasFrame`, `DataRead`
and `Crc` take them apart as the code does. `moved` is how far CRCs have moved the
frame pointer.

| action | code |
|---|---|
| `ReadAacFrame` | one turn of the loop of `sendAacOverTcp` or `sendAacOverUdp`: header, syncword, `fread` of the unsigned difference, CRC skipped |
| `Overrun` | bytes behind the buffer or the packet, or a negative length: what follows is undefined, and the model stops |
| `CloseAac` | `fclose`, `free` of a pointer that may have moved |
| `rtpSendAACFrameTcp`, `rtpSendAACFrame` | one packet with an AU header; a datagram may be lost |
| `AacSendFails` | the packet is refused; the loop goes on |

The receiver takes the length the AU header says. `MediaStreams` is one of the two
senders at a time: on the wire they share only the socket, which is the subject of
`TcpStreaming`.

### PortManager

`generatePorts` step by step: lock, draw an even port, look it up in the set and
bind a socket to it, close the socket, the same for the odd port, record both,
unlock. Then the part of the UDP `SETUP` that follows: two sockets with
`SO_REUSEADDR`, two binds. Other processes bind ports with and without
`SO_REUSEADDR` and close them at any moment, on the ports of `Contested`. Several
threads call it: the class has a mutex for them, though today's server would use one
thread, and its UDP path is not reached. A `socket()` that fails in a probe throws, and
nothing catches it; `ProcessEnds` is any other end of the process, so that
compositions can end it.

`PortPool` is the whole of it as a caller sees it: a pair nobody else was given, at
once. `Given` maps the state to it: a thread has its ports from `Record` on.

### RtspUdp

Each caller of `PortManager` is the handler of one SETUP: `request` is what it parsed
(connection, track, and the id in `session_`), `answer` what it has sent. The state of
`PortManager` is extended (`EXTENDS`), not copied, and its actions are conjoined with
what the handler does around them.

| action | code |
|---|---|
| `SetupBegins` | `interact_rtsp` up to the call of `generatePorts`: a video SETUP generates an id and records it for the descriptor, an audio SETUP takes the one recorded |
| `SetupGoesOn` | the steps of `PortManager` |
| `VideoDone`, `AudioDone` | the session is made, or joined, with bound ports; the answer |
| `AudioWithoutSession` | `setInfo` on the null that `getSession` returned |
| `SetupFails` | the 500, and what follows from it: the lookup of `handleRequest` |

After each, `ActOnSession` is `handleRequest` lines 64-105, which dereferences null for an
id without a session. At most `Threads` run at once, one per connection; with
`Threads = 1` it is the server as it would be, with more what its mutexes are for.

### Logger

One action for each step of `log()` that another thread can see (lock and
`time`, `localtime`, `strftime`, the read and the write of `m_len += size`, the
push, the notification), of `process_logs` (loop condition, predicate, start of
the wait, pop, write, the three parts of `rotate`) and of `stop`.
`m_queue_mutex` is held for single queue operations, which are single steps;
`m_cv_mutex` is only ever taken by the background thread and excludes nobody.
Reads of the queue without a lock (`empty()` at lines 143, 145 and 147) are
atomic steps that see the queue before or after a push. `tm` is the static
buffer of `localtime`, one value for the whole structure.

The refinement: `logged <- written \o hand \o m_log_queue`, so that a push is the
channel's `Log`, a write is its `Write`, and everything else stutters.

## 3. The runs

| run | specification and bounds | properties | result |
|---|---|---|---|
| `server_any` | any clients; 2 connections, 2 descriptors, 1 segment each | `TypeOK`, `NoStaleEvents`, `StreamKeepsConn`, `IdsRegistered` | hold, 4.4e5 states |
| `server_conforming` | conforming; 2 connections, 1 descriptor, 2 requests each | `NoNullSession`, `StreamToOwner`, `SessionIsolation` | hold, 4.8e5 states |
| `server_dialog` | players, one that counts from 1 and one from 2; 2 connections, 2 descriptors, 5 requests each | `AllAnswered`, `Answered` | hold, 4.0e4 states |
| `server_restart` | an id from before a restart; 1 connection | `AnsweredRequestSurvives` | violated |
| `server_teardown` | conforming; 1 connection, 3 requests | `TeardownEndsStreaming` | violated |
| `streaming` | 3 streams; NALs of 1 and 3 packets, 2 frames; 4 units of buffer; 3 descriptors | `TypeOK`, `FramesWhole`, `FilesAccounted`, `ContractSpec` | hold, 7.0e4 states |
| `streaming_crc` | the same with a CRC in the second frame | `StreamSurvives` | violated |
| `server_start` | 4 files written by hand; 2 sections, 3 keys and a value to set, at most 2 entries and 2 sections in a table | `RoundTrip`, `ReloadIsExact`, `LoadedIsSavable`, `PortAsWritten` | hold, 7.8e4 states |
| `media` | video: all files of 1 to 3 NALs out of 6, either start code; a buffer of 11 bytes, packets of 2; a start code anywhere in stale memory or behind it, or none. Audio: all files of up to 3 frames out of 11, cut or not, and one of 12; a buffer of 60 bytes | `TypeOK`, `UnitsAreNals`, `OnlyTheLastIsMissing`, `VideoClock`, `AacTypeOK`, `AccessUnitsAreFrames`, `AudioClock`, `OnlyDamageStops` | hold, 4.5e5 states |
| `ports` | 2 SETUPs, of 2 connections, 2 at once; 2 pairs of ports, one port of each contested; 4 descriptors of which connections have any number | `TypeOK`, `UdpTypeOK`, `PortsDistinct`, `BindUndisturbed`, `SessionPorts`, `IdsStand`, `PoolSpec`, `Served` | hold, 7.6e4 states |
| `logger` | 2 threads, 2 entries each, 2 seconds, a file full after 2 headers | `TypeOK`, `FlushedAtExit`, `ChannelSpec`, `OnlyRotationDisturbs`, `AwakeDrains` | hold, 3.8e5 states |
| `logger_wakeup` | 2 threads, 2 entries each | `LoggedIsWritten` | violated |

What they show:

* `server_any`: whatever clients send, and whenever they leave, no event of a
  batch is handled for another connection than the one it was reported for; a
  stream's descriptor stays open and belongs to the client that asked; a
  recorded session id exists. The loop survives this because only the event in
  hand ever closes a descriptor, its own.
* `server_conforming`: with one descriptor that both connections use in turn,
  the second finds the flag and the session id of the first. That is harmless
  as long as clients do video SETUP first: the entries are overwritten before
  anything reads them.
* `server_dialog`: a request is answered unless its client leaves, the process
  has died (SIGPIPE), a viewer that does not read holds the thread for ever
  (`Stuck`), or there is never again a descriptor for the connection, streams having
  left files open (`Pending`). SETUP is the exception: it is answered for the CSeqs 3
  and 4 only (`Ignored`). The player that counts from 1 puts both there; the one that
  counts from 2 gets the video's answer, and waits for that of the audio, with CSeq 5,
  for ever. TLC finds each of the exceptions needed: without `Pending`, or without
  `Ignored`, the properties fail.
* `server_restart`: PLAY with an unknown id is answered with the 500 of line
  325, and the second lookup then dereferences null (line 68).
* `server_teardown`: TEARDOWN after PLAY streams the files again, as nothing
  takes the session out of PLAYING.
* `streaming`: the threads' packets mix only after a `send` had to wait with a part
  of its packet put (the interleaving itself is in the model: 4 units are less
  than two packets). However a stream fails, it leaves at most one file open, and
  streams whose `fopen` fails for want of a descriptor end as well. The stream
  keeps the contract that `RtspServer` assumes.
* `streaming_crc`: an audio file with a CRC plays to its end; the `free` of line
  1015 then gets a moved pointer and aborts the server.
* `server_start`: a table comes back from a file if and only if its text is free of
  a short list of things (blanks around it, an end of line in it, "]" in a section, "="
  in a key or "[" before it), and nothing checks that it is; whatever a file says, what was loaded
  from it is such a table, so that saving a loaded file is safe. Loading replaces the
  sections that the file lists and no others. The server's port is the last one
  of the last `[server]`, reduced to 16 bits; without one it is any port, never
  the default 8554 of the constructor. A tab before the number is skipped, a number with
  more than 16 bits loses the others, and one below zero wraps.
* `media`, video: a NAL that fits in the buffer with the start code behind it arrives whole,
  whatever stale bytes follow. Sent in fragments it arrives with one zero byte more:
  `pos` starts behind the header byte, but the sizes add up to the whole NAL. The
  last NAL is missing unless stale bytes end it (a 4-byte start code, and the
  NAL before it of the same length). One that does not fit with the start code behind it
  may end where the bytes behind the buffer look like one: at its own end or a zero later,
  where they complete a code that the buffer has the beginning of, and the stream goes on;
  or within it, and then it is the last NAL that is sent. A lost datagram costs the NAL it
  belongs to and no other. The timestamp is no clock of pictures: it counts NALs, all
  but the parameter sets and SEI that need no second packet, so that slices of one picture,
  a delimiter and a large parameter set each have their own; and it wraps.
* `media`, audio: up to the first damaged header a receiver gets each frame without
  its CRC. A length below that of the header swallows the rest of the file. A lost
  datagram leaves a gap in numbers and timestamps; a frame that `send` refuses leaves
  none, so that the sound behind it comes too early. The CRCs of an undamaged file use up
  the buffer in the end, two bytes each.
* `ports`: look-up, probe and record are safe because one mutex spans them; the
  probes, which do bind the ports they look at, are never in the way of a session
  that is about to bind its own.
  A thread searches as long as it takes, with the mutex held; it finds a pair that
  stays free, and so does who waits behind it. To its callers all this is a pool
  that hands out pairs. What the tables say of a session's ports is true, also when one
  SETUP ends while another is under way. A failed SETUP leaves an id without a
  session, and no request ever finds it: the same handler dereferences it first.
* `logger`: order, no loss and no duplicates across rotation, whatever the
  threads do; the thread ends with the queue empty; a missed notification never
  stops it while it is awake, nor does `stop` fail to end it then. Between the `localtime` of an entry and the use of its
  result nobody but a rotation writes to the shared buffer.
* `logger_wakeup`: the lost notification, against the comment that says that the
  thread is notified.

### Bounds

Every bound is a constant: `Backlog`, `MaxSegments` for the server; `MaxStreams`
for streaming; `MaxLost` for `Rtp`, of datagrams and refused packets; `MaxLogs`, `MaxTime` for the
logger; `MaxEntries`, `MaxSections` for `IniFile`; `Threads` and `Contested` for the ports,
where each caller does one SETUP. They bound the environment (how many connections,
requests, log calls, seconds), never the code: the server's guards do not
mention them. Two connections are what the reuse of a descriptor, two events in
one batch and one client's effect on another need; one descriptor more than
needed tests that `accept` may return either, one descriptor for two
connections tests reuse and failure of `accept`. `CHECK_DEADLOCK FALSE` is set
because clients that have sent everything are done, as is a process that died.
Symmetry over connections and descriptors is used in the runs without liveness
properties; the model never orders them.

In `server_dialog` a new session starts as NONE; that its memory may say PLAYING is
in the other server runs, and multiplies the liveness check by five. The sizes of
`streaming` are the smallest with an unfragmented NAL, one of full fragments and a
rest, a packet that needs waiting for and two that fit together; its 3 descriptors
run out in the third stream. In `media`, packets of 2 bytes make fragments with and
without a rest, of which one is the extra byte alone; 11 bytes of buffer hold two
or three NALs, and not the longest, of which a part is sent in one memory or another, nor
the start code behind it, which ends behind the buffer; sequence numbers are
modulo 4, so that they wrap within a NAL; one lost datagram can hit any packet. 60 bytes
of buffer hold a frame of 40 behind the CRCs of ten others, but not of eleven; its length
needs both bytes of the AU header. Timestamps are modulo 4000, not 2^32: those of the
video, in steps of 3000, wrap with the second, those of the audio with the fourth packet.
`ports` has as many pairs as callers, and from none to enough descriptors for all;
other processes take the even port of one pair and the odd one of the other, which
is each way a pair can fail half way. That it is two callers only is what
the proofs make up for; the safety properties were also checked with three.
In `server_start` each character of the format occurs where it does harm: a bracket
in a section, a separator in a key, a key that looks like a section, blanks, a value that
ends a line and begins a section, a port behind a tab, below zero, and with more bits than
a port and an `int` have. A `long` ends at 1048575 and an `int` has 18 bits there
(`LongMax`, `IntModulus`), as TLC's own numbers have 32.

What the proofs cover holds without bounds.

### Fairness

* `WF_vars(pc = "loop" /\ ServerStep)`: one thread in an endless loop; it takes a
  step whenever it can.
* `SF_vars(StreamFlows)`: a stream ends if its client takes up reading again and
  again, however often it pauses, or is gone. That is not assumed of the code but
  what the `streaming` run shows of it (`ContractSpec`).
* `TcpStreaming`: `WF_vars(ThreadStep(t))`, `WF_vars(Join)`: threads that can run do.
  `SF_vars(Read)`: a client that is reading again and again does read.
* `PortManager`: `WF` for each thread, and `SF_vars(Draw(c, p))`: the random
  generator hits every port of the range again and again. A mutex need not be
  fair: each thread takes it once. `RtspUdp` has the same fairness; that a request
  arrives is not fair.
* `WF_vars(BgStep)` and `WF_vars(LogStep(t))` for each thread: threads that can
  run do. Starting a call of `log()`, stopping and spurious wakeups are not
  fair.
* The server's clients are under no fairness.

## 4. The proofs

All theorems are about the specifications TLC checks, for any sets of
connections and threads, any finite set of descriptors and any bounds.

`Rtsp_proofs`, of `RtspServer` (`Spec`, clients that send anything):

* `ServerNoStaleEvents`, `ServerTypeOK`, `ServerStreamKeepsConn`,
  `ServerIdsRegistered`, from the inductive invariant `Inv`.
* `TypeOK` is not inductive alone: that a handler has a connection at all is
  `NoStaleEvents`. That needs `EventsDistinct`: a batch has one event per
  descriptor, so that the event that closes a descriptor is the last about it.
  `LoopInv` is the three together; it is proved step by step, and `Inv` adds
  the stream and the tables. The step lemmas are about `AnyNext`, which covers
  every kind of client, so that the conforming clients inherit them.

The same module, of `RtspClients` (`ConformingSpec`):

* `ConformingNoNullSession`, `ConformingStreamToOwner` and
  `ConformingSessionIsolation`, from `ConfInv`.
* `ConfInv` relates five things: the id a client has learned is a session of its
  own (`LearnedOwn`); so is the id recorded for the descriptor it is connected
  on, once it has learned one (`DescriptorOwn`); a pending or idle connection has
  learned none, so what `accept` finds in the tables is not believed by anyone
  (`PendingUnlearned`, `IdleUnlearned`); what is in a socket buffer still
  conforms when it is read (`InboxConforms`, which needs that sessions are never
  removed); and no connection has two descriptors (`OneDescriptor`).
  `DispatchKeeps` is what every handler guarantees.

The same module, of `DialogSpec`, for players each of which counts from any number:

* `DialogAllAnswered` and `DialogNoNullSession`, from `DialogInv`, which adds to `ConfInv`
  that a player has one request on its way, the last it sent, or none, and sends nothing
  after a SETUP that is ignored (`OneAtATime`), and that who got the answer to its third
  request has a session (`SetUp`). So a handler finds one request; it answers that unless
  it is a SETUP whose CSeq is neither 3 nor 4 (`RequestAnswered`); and the audio SETUP, which only
  a player with an answer to the video's sends, finds its session.

`H264Stream_proofs` (`Spec`), for any files of NALs, any stale bytes, any sizes of buffer
and packets, any width of sequence numbers and timestamps, and any losses below that of the numbers:

* `VideoTypeCorrect`, `VideoUnitsAreNals`, `VideoOnlyTheLastIsMissing` and `VideoClockRight`,
  all of what TLC checks of the sender.
* The file is its NALs joined, each with its start code. `CodesInFile` says that every start
  code in it ends where one was put: no NAL contains one or ends in zero, so that none is
  half in a NAL and half in the code behind it.
* From this follows where the reader can be after some number of NALs (`At`): at the end of
  the last, or, if that did not fit in the buffer, before the end of the next start code.
  What it finds from there is the next NAL or nothing (`NextNal`): a search that meets stale
  bytes has met no code of the file before, so these are behind all of the NAL or cut it.
  `At` is not `offset = NalEnd` because of those; behind a part the next bytes are no start
  code, and the thread ends.
* `BufferInv` says that the buffer has the NAL that is being sent (`InHand`), that what a
  receiver has gathered is its beginning or it has missed a fragment (`Gathered`), and
  that its numbers are behind by no more than was lost (`Gap`), which is less than the
  modulus: so it notices. The fragments join to the NAL and one byte (`WholeCopied`).
  How many fragments there are is a quotient of two unknowns, which the SMT solver does
  not do; `Product`, `PacketsNumber` and `Pieces` say of it what the rest needs.
* `VideoInv` adds that the units are in order, complete (`ContentRight`), stamped with
  the number of timed NALs before them, modulo the width (`InTime`), and that those missing are counted by `lost` (`Counted`).

`AacStream_proofs` (`AacSpec`), for any files, cut and damaged anywhere, any size of the
buffers, any width of numbers and timestamps, and any losses:

* `AudioTypeCorrect` and `AudioClockRight`, from `ClockInv`, which counts: the frames
  done with are `1..frames`, those refused and lost are among them, and the number and the
  timestamp of the next packet are the frames done with and not refused, modulo the
  width of the fields (`Counting`, `ModStep`).
* `AudioFramesWhole` and `AudioOnlyDamageStops`, from `FrameInv`, which says where the
  reader is. Up to the first damaged frame its position is the end of a frame, so the
  seven bytes it reads next are the header of the next one (`NextFrame`), whose length is
  the one encoded (`LengthInHeader`); what is behind the header in the buffer is the data.
  The pointer has moved two bytes for each CRC, from which follows when it writes
  behind the buffer.
* A file is its frames joined, a fold over a sequence. That what is joined is joined from
  the left, `FlattenAppend` in `SequenceLemmas`, needs an induction. The library's induction
  theorems are out of the prover's reach, so `Induction` is stated for a set of
  numbers instead of a predicate, and follows from `<` being well-founded on them.
  `H264Stream_proofs` rests on the same lemmas.

The same module, of `MediaStreams` (`MediaSpec`, which the run `media` checks):

* `MediaIsBothSenders`: it implements `Spec` and `AacSpec`, so that all theorems about one
  sender hold of the two.

`TcpStreaming_proofs` (`Spec`), for any files, packet size, buffer and number of
descriptors and streams:

* `StreamingTypeOK`, `StreamingFilesAccounted` and `StreamingKeepsContract` (the safety
  part of the contract: initial states and steps) from `Inv`. Its `FilesHeld`
  bounds the open files from both sides: those of the running threads are open,
  and of those before them there is one per stream at most.
* `StreamingFramesWhole`, from `InStep`: as long as nothing had to wait, what is on
  the wire parses. `ParsesFor` says so without recursion: there is a function that
  gives, for each unit, how much of the current packet is still to come.
  `FirstUnit` is a client's step and `WholePacket` a `send`.

`IniFile_proofs` (`StartSpec`), for any characters, any text that callers pass, any files
and tables of any size:

* `TablesTyped` is the inductive invariant: a table is finite and all text, and no line of
  the file has an end of line in it. The other four follow from it, or from that and the
  step, because they hold of all such tables and files; what takes the work is what the
  parser does of its input, by induction over the lines.
* It rests on what `trim` and `find_first_of` leave: a solid text is the one between the
  first and last solid character (`TrimSpan`), and it makes no difference whether a line is
  trimmed before it is taken apart or its parts afterwards (`TrimmedFirst`).
* `LoadsAreSavable`: what `load` puts in a table comes back, since its parts are trimmed
  and end at the first separator (`LineSavable`).
* `ReloadsAreExact`: after any number of lines a section is what the lines say alone, over
  what the table had if the lines have not named the section (`Agree`). The invariant is
  about two loads of the same lines, which are in the same section at every line.
* `RoundTrips`, in both directions. If a table is savable, every text it writes is one line
  (`LinesSame`), each section is a run of lines (`Blocks`, `PartAt`), which read one by one
  give the section back (`BlockRead`), whatever was read before (`ReadBack`). Of the order
  in which a map is gone through the proof uses only that it leaves nothing out (`EnumIs`). If it is not, it cannot come back, since what comes
  back is savable.
* `ListensAsWritten`, of the step `run`: behind the last `[server]` the loop is in that
  section until another begins, and the port it has is that of the last line that says
  one (`PortRead`, kept line by line by `PortStep`); no line before it matters because the
  header empties the section.

`RtspUdp_proofs`, of `PortManager` (`Spec`), for any threads, range and descriptors:

* `PortsTypeOK`, `PortsAreDistinct`, `BindsUndisturbed` and `PortManagerIsPool`
  (`Spec => PoolSpec`). The invariant says what the
  mutex is for: between the look-up and the record nobody else records
  (`Exclusive`, `StillFree`); so recorded pairs differ in their even port
  (`OwnPair`), and then in both, by parity (`PairsApart`). That
  is the guard of `Give` when `Record` happens; all other steps stutter.

The same module, of `RtspUdp` (`UdpSpec`), for any connections and number of threads:

* `UdpUsesPortManager`: `UdpSpec => Spec`, so that what holds of `PortManager` holds
  here.
* `UdpTypeCorrect`, `UdpIdsStand` and `UdpSessionPorts`. `UdpInv` relates what a handler has in
  hand to the tables: it has a request exactly while it runs (`Requests`); each id belongs
  to one connection, wherever it is recorded (`IdsOwned`: there is a function from ids to
  owners, which no variable holds); each entry of a session is that of a SETUP that was
  answered (`EntriesFrom`), whose two sockets are bound (`BothBound`). That ports of
  different sessions differ is then `PortsDistinct`.

`Logger_proofs` (`Spec`):

* `LoggerIsChannel`: `Spec => ChannelSpec`; `LoggerFlushedAtExit`, `LoggerTypeCorrect`
  and `LoggerOnlyRotationDisturbs`.
* The heart of `LoggerInv` is `LoggedBefore`: whoever holds `m_log_mutex` took a
  time no earlier than those of all entries pushed so far. It holds because
  the mutex spans `time()` and the push. `QuietAtStop` and `DoneIsStopped` show
  that nothing is pushed after the loop has found the queue empty for the last
  time.

The assumptions are the named `ASSUME`s of `RtspMessages`, `RtspServer`,
`TcpStreaming`, `Rtp`, `H264Stream`, `AacStream`, `PortManager`, `RtspUdp`, `IniFile`,
`ServerStart` and `Logger`: `None` is no method, connection,
request or thread and no number, the listening socket is no
client's descriptor, there are finitely many descriptors, bounds are numbers,
clients use known methods, sizes are positive, the range of ports is given by its
even ports, `Contested` are among them. Those of `H264Stream` are what the format
guarantees or a receiver needs: a buffer holds a NAL of one packet and two start codes, a NAL contains no start
code, does not end in zero, begins with a 0 bit and is not of the type of fragments; fewer
datagrams are lost than there are sequence numbers. Those of `IniFile` and `ServerStart` say
that `Char` has the characters of the format, and one for each of the words "server" and
"port", that text is made of them, and that a line written by hand has no end of line in
it. TLC evaluates them in every run.

Only model-checked: the liveness properties (`Answered`, `AwakeDrains`, `Served`, and the
fairness of `ContractSpec`), as fairness is out of the prover's reach; and, being violated,
what the findings are about.

## 5. What is left out

* Text: answers are CSeqs and a session id; DESCRIBE's SDP, dates and addresses
  are not modelled.
* Requests split in the middle of a line: a fragment is a segment that lacks
  lines. Requests longer than the buffer of `recv`.
* `send` of an answer is taken not to block; only the stream's `send` does. It may raise
  SIGPIPE, like the stream's.
* `atoi` is the C library's: `PortAsWritten` says which line of the file it is applied to,
  and takes its result as given.
* Error events on the listening socket. A failing `epoll_wait` ends the server in
  `ServerStart`, and is no step of `RtspServer`.
* More than `MAXEVENTS` (1024) ready descriptors in one batch.
* Writes to an open log file succeed; opening the next one may fail.
* What `recv_message` returns when data came: it falls off its end without a
  `return`. In the build of `CMakeLists.txt` (Debug, no optimisation) the value is never
  -1, and the request is handled; the model takes that.
* More than one raw data block in an ADTS frame, which the code does not tell apart.
* What happens after a sender has written behind its buffers.
* Datagrams that overtake one another.
* The abort of `streaming_crc` is not a step of `RtspServer`, which streams a file
  without CRCs.
* `releasePorts` and `deleteSession`, which nothing calls. Other requests than SETUP over
  UDP: they are those of `RtspServer`, word for word.
* The conversions of `Value` to and from bool and double, which nothing calls; a file that
  is written only in part.
* `RtmpHandler`, an empty body; formatting, constants; the single-file programs under
  `src/rtsp`, `tests` and `tmp`, which are not linked into the server.

## 6. What is left

The modules above cover every component that the server is linked from and that keeps
state. What could be added, in order of weight:

1. `RtspServer` and `RtspUdp` in one module, should the call of `interact_rtsp` ever be
   restored: the sessions of both transports share a table.
2. A file whose NALs contain start codes or end in zero, or in which bytes precede the first
   start code: the assumptions of `H264Stream` exclude them, as does the format.
