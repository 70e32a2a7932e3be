------------------------------ MODULE AacStream ------------------------------
(***************************************************************************)
(* What is in the packets of an audio stream: sendAacOverTcp, and the same *)
(* for UDP, take the file apart by the lengths in its ADTS headers and     *)
(* send each frame, without header and CRC, as one access unit.            *)
(*                                                                         *)
(* Stale bytes of the buffer are never sent: a header of fewer than seven  *)
(* bytes is the end of the file, and there is no data behind it.           *)
(***************************************************************************)
EXTENDS Rtp

CONSTANTS Audios,           \* contents of AAC_FILE_NAME, as frames
          Cuts,             \* how many bytes may be missing at its end
          AAC_BUFFER_SIZE   \* size of the buffer, and of the packet

AdtsLength == 7
CrcLength == 2
RtpLength == 12
AuLength == 4
PerAudioFrame == 1025

\* A frame: whether it begins with the syncword, what its header says, and the
\* bytes behind the header, the first two of which are the CRC if it has one.
Frame == [syncword : BOOLEAN, crc : BOOLEAN, aacFrameLength : 0..8191, data : Seq(Byte)]

ASSUME AudiosAssumption == Audios \subseteq Seq(Frame) /\ Cuts \subseteq Nat
ASSUME AacAssumption == AAC_BUFFER_SIZE \in Nat \ {0}

VARIABLES
  audio,      \* the frames of the file
  aacFile,    \* and its bytes
  aacOffset,  \* the position in it
  aacPc,      \* "read", "send", "closed"; "aborted" by free(), "undefined" when
              \* the thread has used memory behind its buffers
  moved,      \* frame minus what malloc returned
  rSize,      \* length of the data to send, the last that were read
  frames,     \* the frames read
  aacSeq, aacTimestamp,  \* of the next packet
  failed,     \* the frames that send() refused
  aacLost,    \* the frames whose datagram was lost
  received    \* receiver: the access units, with number and timestamp

aacInput == <<transport, audio, aacFile>>
aacRead == <<aacOffset, moved, rSize, frames>>
aacSent == <<aacSeq, aacTimestamp, failed, aacLost, received>>
aacVars == <<aacInput, aacPc, aacRead, aacSent>>

AacTypeOK ==
  /\ transport \in {"tcp", "udp"} /\ audio \in Audios /\ aacFile \in Seq(Byte)
  /\ aacPc \in {"read", "send", "closed", "aborted", "undefined"}
  /\ aacOffset \in 0..Len(aacFile)
  /\ moved \in Nat /\ rSize \in 0..aacOffset /\ frames \in Nat
  /\ aacSeq \in SeqNumber /\ aacTimestamp \in Stamp
  /\ failed \subseteq 1..frames /\ aacLost \subseteq (1..frames) \ failed
  /\ received \in Seq([of : 1..frames, seq : SeqNumber, stamp : Stamp, data : Seq(Byte)])

Flag(bit, is) == IF is THEN bit ELSE 0

AdtsHeader(f) ==
  <<Flag(255, f.syncword), 240 + Flag(1, ~f.crc), 80, 128 + f.aacFrameLength \div 2048,
    (f.aacFrameLength \div 8) % 256, (f.aacFrameLength % 8) * 32 + 31, 252>>

Bytes(fs) == FlattenSeq([i \in DOMAIN fs |-> AdtsHeader(fs[i]) \o fs[i].data])

AacInit ==
  /\ transport \in {"tcp", "udp"}
  /\ audio \in Audios
  /\ \E cut \in Cuts : aacFile = SubSeq(Bytes(audio), 1, Len(Bytes(audio)) - cut)
  /\ aacOffset = 0 /\ aacPc = "read"
  /\ moved = 0 /\ rSize = 0 /\ frames = 0
  /\ aacSeq = 0 /\ aacTimestamp = 0
  /\ failed = {} /\ aacLost = {} /\ received = <<>>

-----------------------------------------------------------------------------
(* Reading *)

Left == Len(aacFile) - aacOffset

\* parseAdtsHeader
In(k) == aacFile[aacOffset + 1 + k]
Synced == In(0) = 255 /\ In(1) \div 16 = 15
protectionAbsent == In(1) % 2
aacFrameLength == (In(3) % 4) * 2048 + In(4) * 8 + In(5) \div 32

\* Mutation: the length of the header is not subtracted.
DataReadWithHeader == Smaller(aacFrameLength, Left - AdtsLength)

\* fread of what is behind the header.  The difference is unsigned: below 0 it is
\* more than any file has.
DataRead ==
  IF aacFrameLength < AdtsLength THEN Left - AdtsLength
  ELSE Smaller(aacFrameLength - AdtsLength, Left - AdtsLength)

HasFrame == Left >= AdtsLength /\ Synced /\ DataRead > 0

\* Mutation: the CRC is sent with the data.
CrcSent == 0

Crc == IF protectionAbsent = 0 THEN CrcLength ELSE 0

\* The data go behind the buffer, the packet does not hold them, or a CRC is cut
\* short and their length is negative.
Overruns ==
  \/ Left > 0 /\ moved + AdtsLength > AAC_BUFFER_SIZE
  \/ HasFrame /\ \/ moved + DataRead > AAC_BUFFER_SIZE
                 \/ DataRead < Crc
                 \/ RtpLength + AuLength + DataRead - Crc > AAC_BUFFER_SIZE

ReadAacFrame ==
  /\ aacPc = "read" /\ HasFrame /\ ~Overruns
  /\ aacOffset' = aacOffset + AdtsLength + DataRead
  /\ moved' = moved + Crc
  /\ rSize' = DataRead - Crc
  /\ frames' = frames + 1
  /\ aacPc' = "send"
  /\ UNCHANGED <<aacInput, aacSent>>

Overrun == aacPc = "read" /\ Overruns /\ aacPc' = "undefined" /\ UNCHANGED <<aacInput, aacRead, aacSent>>

\* The end of the file, no syncword, or no data.  free() gets the moved pointer.
CloseAac ==
  /\ aacPc = "read" /\ ~HasFrame /\ ~Overruns
  /\ aacPc' = IF moved = 0 THEN "closed" ELSE "aborted"
  /\ UNCHANGED <<aacInput, aacRead, aacSent>>

-----------------------------------------------------------------------------
(* Sending *)

\* The AU header has the length in 13 bits.
Packet ==
  <<0, 16, (rSize \div 32) % 256, (rSize % 32) * 8>>
  \o SubSeq(aacFile, aacOffset - rSize + 1, aacOffset)

\* The receiver takes as many bytes as the AU header says.
Unpacked(packet) == SubSeq(packet, AuLength + 1, AuLength + packet[3] * 32 + packet[4] \div 8)

Delivered ==
  received' = Append(received,
    [of |-> frames, seq |-> aacSeq, stamp |-> aacTimestamp, data |-> Unpacked(Packet)])

AacPacketSent ==
  /\ aacPc = "send" /\ aacPc' = "read"
  /\ aacSeq' = After(aacSeq)
  /\ aacTimestamp' = (aacTimestamp + PerAudioFrame) % StampModulus
  /\ UNCHANGED <<aacInput, aacRead, failed>>

rtpSendAACFrameTcp ==
  /\ transport = "tcp"
  /\ Delivered /\ UNCHANGED aacLost
  /\ AacPacketSent

\* A datagram arrives or not.
rtpSendAACFrame ==
  /\ transport = "udp"
  /\ \/ Delivered /\ UNCHANGED aacLost
     \/ Cardinality(aacLost) < MaxLost /\ aacLost' = aacLost \cup {frames} /\ UNCHANGED received
  /\ AacPacketSent

\* Mutation: number and timestamp move on when a packet is refused.
AacSendFailsCounted ==
  /\ aacPc = "send" /\ aacPc' = "read"
  /\ Cardinality(failed) < MaxLost
  /\ failed' = failed \cup {frames}
  /\ aacSeq' = After(aacSeq)
  /\ aacTimestamp' = (aacTimestamp + PerAudioFrame) % StampModulus
  /\ UNCHANGED <<aacInput, aacRead, aacLost, received>>

\* send() returns -1, at most MaxLost times: the next frame gets the number and
\* the timestamp of this one.
AacSendFails ==
  /\ aacPc = "send" /\ aacPc' = "read"
  /\ Cardinality(failed) < MaxLost
  /\ failed' = failed \cup {frames}
  /\ UNCHANGED <<aacInput, aacRead, aacSeq, aacTimestamp, aacLost, received>>

AacNext ==
  \/ ReadAacFrame \/ Overrun \/ CloseAac
  \/ rtpSendAACFrameTcp \/ rtpSendAACFrame \/ AacSendFails

AacSpec == AacInit /\ [][AacNext]_aacVars

-----------------------------------------------------------------------------
CrcOf(f) == IF f.crc THEN CrcLength ELSE 0

\* The header of the i-th frame is right, and the frame is there and not empty.
Sound(i) ==
  /\ audio[i].syncword
  /\ audio[i].aacFrameLength = AdtsLength + Len(audio[i].data)
  /\ Len(audio[i].data) > CrcOf(audio[i])
  /\ Len(Bytes(SubSeq(audio, 1, i))) <= Len(aacFile)

SoundUpTo(n) == n <= Len(audio) /\ \A i \in 1..n : Sound(i)

\* The buffer has room for the i-th frame, behind the CRCs of those before it, and
\* the packet for its data.
Holds(i) ==
  LET crcs == {j \in 1..(i - 1) : audio[j].crc} IN
  /\ CrcLength * Cardinality(crcs) + Max({AdtsLength, Len(audio[i].data)}) <= AAC_BUFFER_SIZE
  /\ RtpLength + AuLength + Len(audio[i].data) - CrcOf(audio[i]) <= AAC_BUFFER_SIZE

\* Up to the first damaged frame each access unit is a frame of the file without
\* its CRC, and none is missing but those refused or lost.
AccessUnitsAreFrames ==
  /\ \A i \in DOMAIN received :
       LET n == received[i].of IN
       /\ i > 1 => received[i - 1].of < n
       /\ SoundUpTo(n) =>
            received[i].data = SubSeq(audio[n].data, CrcOf(audio[n]) + 1, Len(audio[n].data))
  /\ aacPc # "send" => {received[i].of : i \in DOMAIN received} = (1..frames) \ (failed \cup aacLost)

\* Numbers and timestamps count the packets, not the frames: a datagram that is
\* lost leaves a gap in both, and a frame that send() refuses leaves none.
AudioClock ==
  \A i \in DOMAIN received :
    LET before == Cardinality((1..(received[i].of - 1)) \ failed) IN
    /\ received[i].seq = before % SeqModulus
    /\ received[i].stamp = (before * PerAudioFrame) % StampModulus

\* The thread does not stop, and touches no foreign memory, before the end of the
\* file, a damaged frame, or one that the CRCs before it have left no room for.
OnlyDamageStops ==
  aacPc \in {"closed", "aborted", "undefined"} =>
    frames >= Len(audio) \/ ~SoundUpTo(frames + 1) \/ (aacPc = "undefined" /\ ~Holds(frames + 1))
=============================================================================
