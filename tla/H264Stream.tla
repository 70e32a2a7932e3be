----------------------------- MODULE H264Stream -----------------------------
(***************************************************************************)
(* What is in the packets of a video stream: sendH264OverTcp cuts the file *)
(* into NALs at its start codes and sends each in one RTP packet or in     *)
(* FU-A fragments; a receiver puts them together again.  sendH264OverUdp   *)
(* differs in what becomes of a packet.  When a TCP socket takes a packet  *)
(* is the subject of TcpStreaming; here a socket takes each, or fails.     *)
(***************************************************************************)
EXTENDS Rtp

CONSTANTS Videos,            \* contents of H264_FILE_NAME, as NALs
          Heap,              \* what malloc'ed memory may hold, and what is behind it
          H264_FILE_BUFFER,  \* size of the buffer
          RTP_MAX_PKT_SIZE   \* the largest NAL sent in one packet

\* A NAL and the length of the start code before it.
Unit == [code : {3, 4}, nal : Seq(Byte) \ {<<>>}]

\* 00 00 01 begins at the k-th of the bytes, and 00 00 00 01.
Code3In(bytes, k) == bytes[k] = 0 /\ bytes[k + 1] = 0 /\ bytes[k + 2] = 1
Code4In(bytes, k) == bytes[k] = 0 /\ Code3In(bytes, k + 1)

\* The type of a NAL, or that of a fragment of one.
Type(header) == header % 32
FU_A == 28

\* The buffer holds what is sent in one packet, between two start codes (500000 and
\* 1400 in the code).
ASSUME BufferAssumption ==
  /\ H264_FILE_BUFFER \in Nat /\ RTP_MAX_PKT_SIZE \in Nat \ {0}
  /\ H264_FILE_BUFFER >= RTP_MAX_PKT_SIZE + 8
  /\ Heap \subseteq [0..(H264_FILE_BUFFER + 3) -> Byte]
\* A file has a NAL, none of which contains a start code or ends in zero.  The first
\* bit of a NAL is 0 (forbidden_zero_bit), and its type is not that of fragments.
ASSUME VideosAssumption ==
  /\ Videos \subseteq Seq(Unit) \ {<<>>}
  /\ \A v \in Videos : \A i \in DOMAIN v :
       /\ v[i].nal[Len(v[i].nal)] # 0
       /\ v[i].nal[1] < 128 /\ Type(v[i].nal[1]) # FU_A
       /\ \A k \in 1..(Len(v[i].nal) - 2) : ~Code3In(v[i].nal, k)
\* A receiver cannot see that as many packets were lost as there are numbers.
ASSUME LossAssumption == MaxLost < SeqModulus

VARIABLES
  video,      \* the NALs of the file
  file,       \* and its bytes
  offset,     \* the position in the file
  pc,         \* "read", "send", "closed"; "noNal" or "sendFailed" where the
              \* thread returns with the file open
  rec,        \* the buffer, and the bytes behind it that the search looks at
  step,       \* length of the start code at its beginning
  filesize,   \* length of the NAL after that
  current,    \* its number in the file
  sent,       \* packets of this NAL already sent
  seq, timestamp,  \* of the next packet
  expected,   \* receiver: the sequence number after those it has seen
  gathered,   \* receiver: the fragments of a NAL that is not complete
  units,      \* receiver: the NALs it has, with their timestamps
  lost        \* datagrams lost on the way

readVars == <<offset, rec, step, filesize, current>>
receiverVars == <<expected, gathered, units, lost>>
inputVars == <<transport, video, file>>
vars == <<inputVars, readVars, pc, sent, seq, timestamp, receiverVars>>

TypeOK ==
  /\ transport \in {"tcp", "udp"} /\ video \in Videos /\ file \in Seq(Byte)
  /\ offset \in 0..Len(file)
  /\ pc \in {"read", "send", "closed", "noNal", "sendFailed"}
  /\ rec \in [0..(H264_FILE_BUFFER + 3) -> Byte]
  /\ step \in {0, 3, 4} /\ filesize \in 0..H264_FILE_BUFFER
  /\ step + filesize <= H264_FILE_BUFFER
  /\ current \in 0..Len(video) /\ sent \in 0..filesize /\ lost \in 0..MaxLost
  /\ seq \in SeqNumber /\ expected \in SeqNumber
  /\ timestamp \in Stamp
  /\ gathered \in Seq(Byte)
  /\ units \in Seq([nal : Seq(Byte), stamp : Stamp, of : Nat])

Init ==
  /\ transport \in {"tcp", "udp"}
  /\ video \in Videos
  /\ file = FlattenSeq([i \in DOMAIN video |->
                         (IF video[i].code = 4 THEN <<0, 0, 0, 1>> ELSE <<0, 0, 1>>) \o video[i].nal])
  /\ offset = 0 /\ pc = "read"
  /\ rec \in Heap
  /\ step = 0 /\ filesize = 0 /\ current = 0 /\ sent = 0
  /\ seq = 0 /\ timestamp = 0
  /\ expected = 0 /\ gathered = <<>> /\ units = <<>> /\ lost = 0

-----------------------------------------------------------------------------
(* Reading *)

\* fread: as much of the file as fits; the rest of the buffer stays as it was.
Available == Smaller(H264_FILE_BUFFER, Len(file) - offset)
Buffered == [k \in DOMAIN rec |-> IF k < Available THEN file[offset + k + 1] ELSE rec[k]]

startCode3(buf, k) == Code3In(buf, k)
startCode4(buf, k) == Code4In(buf, k)

\* The start code at the beginning, 0 if there is none.
StartCode(buf) ==
  IF startCode3(buf, 0) THEN 3 ELSE IF startCode4(buf, 0) THEN 4 ELSE 0

\* Where extract_content looks for the next one: the last of these positions
\* takes the comparison past what was read.
Found(buf, size) ==
  {k \in StartCode(buf)..(StartCode(buf) + size - 4) : startCode3(buf, k) \/ startCode4(buf, k)}

Extracts(buf, size) == StartCode(buf) > 0 /\ Found(buf, size) # {}
First(positions) == CHOOSE k \in positions : \A j \in positions : k <= j

\* Mutation: the length handed to fseek leaves out the start code.
ReadNalFromCode ==
  /\ pc = "read" /\ Available > 0
  /\ Extracts(Buffered, Available)
  /\ rec' = Buffered
  /\ step' = StartCode(Buffered)
  /\ filesize' = First(Found(Buffered, Available)) - step'
  /\ offset' = offset + filesize'
  /\ current' = current + 1 /\ sent' = 0 /\ pc' = "send"
  /\ UNCHANGED <<inputVars, seq, timestamp, receiverVars>>

\* A NAL ends where the next start code is found, and fseek goes back to there.
ReadNal ==
  /\ pc = "read" /\ Available > 0
  /\ Extracts(Buffered, Available)
  /\ rec' = Buffered
  /\ step' = StartCode(Buffered)
  /\ filesize' = First(Found(Buffered, Available)) - step'
  /\ offset' = offset + step' + filesize'
  /\ current' = current + 1 /\ sent' = 0 /\ pc' = "send"
  /\ UNCHANGED <<inputVars, seq, timestamp, receiverVars>>

\* Without one the thread returns, and leaves the file open.
ExtractFails ==
  /\ pc = "read" /\ Available > 0
  /\ ~Extracts(Buffered, Available)
  /\ rec' = Buffered
  /\ pc' = "noNal"
  /\ UNCHANGED <<inputVars, offset, step, filesize, current, sent, seq, timestamp, receiverVars>>

Close ==
  /\ pc = "read" /\ Available = 0
  /\ pc' = "closed"
  /\ UNCHANGED <<inputVars, readVars, sent, seq, timestamp, receiverVars>>

-----------------------------------------------------------------------------
(* Sending *)

NalHeader == rec[step]
Importance(header) == (header \div 32) % 4

\* n bytes of the NAL from position pos on.
Copied(pos, n) == [k \in 1..n |-> rec[step + pos + k - 1]]

split_size == filesize \div RTP_MAX_PKT_SIZE
remain_size == filesize % RTP_MAX_PKT_SIZE

Single == filesize <= RTP_MAX_PKT_SIZE
PacketsOfNal == IF Single THEN 1 ELSE split_size + (IF remain_size > 0 THEN 1 ELSE 0)

Start == 128
End == 64

FragmentFlag(i) ==
  IF i = 0 THEN Start ELSE IF i = PacketsOfNal - 1 THEN End ELSE 0

\* Mutation: the header byte is sent in the first fragment as well (pos = 0).
FragmentWithHeader(i) ==
  <<Importance(NalHeader) * 32 + FU_A, FragmentFlag(i) + Type(NalHeader)>>
  \o Copied(i * RTP_MAX_PKT_SIZE, IF i < split_size THEN RTP_MAX_PKT_SIZE ELSE remain_size)

\* The i-th fragment.  The header byte is left out (pos = 1), but the sizes are
\* those of the whole NAL: the last fragment has the byte behind it as well.
Fragment(i) ==
  <<Importance(NalHeader) * 32 + FU_A, FragmentFlag(i) + Type(NalHeader)>>
  \o Copied(1 + i * RTP_MAX_PKT_SIZE, IF i < split_size THEN RTP_MAX_PKT_SIZE ELSE remain_size)

Payload == IF Single THEN Copied(0, filesize) ELSE Fragment(sent)

Sei == 6
Sps == 7
Pps == 8
NoPicture == {Sei, Sps, Pps}

\* The receiver takes a packet: a whole NAL, or a fragment that continues those
\* it has gathered; after a gap it drops them.
Fragments(payload, number) ==
  IF payload[2] >= Start
  THEN <<(payload[1] \div 32) * 32 + (payload[2] % 32)>> \o SubSeq(payload, 3, Len(payload))
  ELSE IF gathered # <<>> /\ number = expected
       THEN gathered \o SubSeq(payload, 3, Len(payload))
       ELSE <<>>

Deliver(nal, stamp) ==
  units' = Append(units, [nal |-> nal, stamp |-> stamp, of |-> current])

Receive(payload, number, stamp) ==
  /\ expected' = After(number)
  /\ IF Type(payload[1]) # FU_A
     THEN Deliver(payload, stamp) /\ gathered' = <<>>
     ELSE LET nal == Fragments(payload, number) IN
          IF nal # <<>> /\ (payload[2] \div End) % 2 = 1
          THEN Deliver(nal, stamp) /\ gathered' = <<>>
          ELSE gathered' = nal /\ UNCHANGED units

PerFrame == 90000 \div 30

\* Mutation: parameter sets keep the timestamp whatever their size.
NextTimestampByType ==
  IF Type(NalHeader) \in NoPicture THEN timestamp ELSE (timestamp + PerFrame) % StampModulus

\* Parameter sets and SEI have the timestamp of what follows, if they are small.
NextTimestamp ==
  IF Single /\ Type(NalHeader) \in NoPicture
  THEN timestamp ELSE (timestamp + PerFrame) % StampModulus

sendOverTcp == Receive(Payload, seq, timestamp) /\ UNCHANGED lost

\* A datagram arrives or not.
sendOverUdp ==
  \/ sendOverTcp
  \/ lost < MaxLost /\ lost' = lost + 1 /\ UNCHANGED <<expected, gathered, units>>

PacketSent ==
  /\ seq' = After(seq)
  /\ sent' = sent + 1
  /\ IF sent' = PacketsOfNal
     THEN pc' = "read" /\ timestamp' = NextTimestamp
     ELSE UNCHANGED <<pc, timestamp>>
  /\ UNCHANGED <<inputVars, readVars>>

\* One packet of a NAL; the two functions are the same but for the socket.
sendManagerTcp == pc = "send" /\ transport = "tcp" /\ sendOverTcp /\ PacketSent
sendManager == pc = "send" /\ transport = "udp" /\ sendOverUdp /\ PacketSent

\* send() returns -1.
SendFails ==
  /\ pc = "send" /\ pc' = "sendFailed"
  /\ UNCHANGED <<inputVars, readVars, sent, seq, timestamp, receiverVars>>

Next == ReadNal \/ ExtractFails \/ Close \/ sendManagerTcp \/ sendManager \/ SendFails

Spec == Init /\ [][Next]_vars

-----------------------------------------------------------------------------
\* The i-th NAL fits in the buffer together with the start code after it.
Fits(i) ==
  video[i].code + Len(video[i].nal)
    + (IF i < Len(video) THEN video[i + 1].code ELSE 0) <= H264_FILE_BUFFER

\* The unit is the NAL and at most n zeros.
Padded(unit, nal, n) ==
  \E zeros \in 0..n : unit = nal \o [k \in 1..zeros |-> 0]

\* What is received is NALs of the file in their order, whatever stale bytes
\* the buffer has and whatever is lost.  One that is sent in fragments has a zero
\* byte too many, the first of the next start code (h264.h 211-217).  One that does
\* not fit in the buffer with the start code behind it can have one zero more, if
\* stale bytes complete that code; or it is the last that is sent, and may be a part.
UnitsAreNals ==
  \A i \in DOMAIN units :
    LET nal == video[units[i].of].nal IN
    /\ i > 1 => units[i - 1].of < units[i].of
    /\ \/ Padded(units[i].nal, nal, IF Len(nal) > RTP_MAX_PKT_SIZE THEN 1 ELSE 0)
       \/ ~Fits(units[i].of) /\ Padded(units[i].nal, nal, 2)
       \/ /\ ~Fits(units[i].of) /\ i = Len(units) /\ units[i].of = current
          /\ \E n \in 1..Len(nal) : Padded(units[i].nal, SubSeq(nal, 1, n), 4)

\* A stream that is not broken off by send() reads all NALs but the last, and the
\* last as well if it gets to close its file.  A lost datagram costs the
\* receiver one NAL, and no other.
OnlyTheLastIsMissing ==
  (\A i \in DOMAIN video : Fits(i)) =>
    /\ pc = "closed" => current = Len(video)
    /\ pc = "noNal" => current = Len(video) - 1
    /\ pc \in {"closed", "noNal"} => Len(units) >= current - lost

\* The NALs that share the time of the next one: parameter sets and SEI that need
\* no second packet.
Untimed ==
  {k \in DOMAIN video :
     Type(video[k].nal[1]) \in NoPicture /\ Len(video[k].nal) <= RTP_MAX_PKT_SIZE}

\* The timestamp of a NAL counts the others that the file has before it, modulo 2^32:
\* whatever was lost on the way, in however many packets they were sent and whatever
\* stale bytes were in the buffer.  So every slice of a picture, a delimiter and a
\* large parameter set has a time of its own (h264.h 263 and 331).
VideoClock ==
  \A i \in DOMAIN units :
    LET before == Cardinality((1..(units[i].of - 1)) \ Untimed) IN
    units[i].stamp = (before * PerFrame) % StampModulus
=============================================================================
