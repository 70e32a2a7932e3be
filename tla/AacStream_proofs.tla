--------------------------- MODULE AacStream_proofs ---------------------------
(***************************************************************************)
(* What a receiver of the audio stream gets, for every file, however       *)
(* damaged or cut short, for every buffer size and whatever is lost or     *)
(* refused.                                                                *)
(*                                                                         *)
(* ClockInv counts: what is done with, and how many packets that took.     *)
(* FrameInv adds where the reader is: up to the first damaged frame its    *)
(* position is the end of a frame, and it finds the header of the next.    *)
(***************************************************************************)
EXTENDS MediaStreams, SequenceLemmas

(* The bytes of a frame, and of a file *)

\* The length in a header, where the reader finds it.
LengthOf(h) == (h[4] % 4) * 2048 + h[5] * 8 + h[6] \div 32

\* The length of a frame is one of 13 bits.
Lengths == 0..8191

LEMMA LengthField == \A f \in Frame : f.aacFrameLength \in Lengths
<1>1. Frame = [syncword : BOOLEAN, crc : BOOLEAN, aacFrameLength : Lengths, data : Seq(Byte)]
  BY DEF Frame, Lengths
<1> QED
  BY <1>1

LEMMA LengthInHeader ==
  ASSUME NEW f \in Frame
  PROVE  /\ AdtsHeader(f)[4] \in Byte /\ AdtsHeader(f)[5] \in Byte /\ AdtsHeader(f)[6] \in Byte
         /\ LengthOf(AdtsHeader(f)) = f.aacFrameLength
<1> DEFINE n == f.aacFrameLength
           h == AdtsHeader(f)
<1>1. n \in 0..8191
  <2>1. n \in Lengths
    BY LengthField
  <2> HIDE DEF n
  <2> QED
    BY <2>1 DEF Lengths
<1>2. /\ h[4] = 128 + n \div 2048 /\ h[5] = (n \div 8) % 256 /\ h[6] = (n % 8) * 32 + 31
  BY DEF AdtsHeader
<1> HIDE DEF n, h
<1>3. n \div 2048 \in 0..3 /\ n \div 8 \in 0..1023 /\ n % 8 \in 0..7
  <2>1. n \in Int /\ 0 <= n /\ n <= 8191
    BY <1>1
  <2>2. n \div 2048 \in Int /\ n \div 8 \in Int /\ n % 8 \in Int
    BY <2>1
  <2>3. 0 <= n \div 2048 /\ n \div 2048 <= 3
    BY <2>1
  <2>4. 0 <= n \div 8 /\ n \div 8 <= 1023
    BY <2>1
  <2>5. 0 <= n % 8 /\ n % 8 <= 7
    BY <2>1
  <2> QED
    BY <2>2, <2>3, <2>4, <2>5
<1>4. (128 + n \div 2048) % 4 = n \div 2048 /\ ((n % 8) * 32 + 31) \div 32 = n % 8
  BY <1>3
<1>5. n = 8 * (n \div 8) + (n % 8) /\ n \div 8 = 256 * (n \div 2048) + ((n \div 8) % 256)
  BY <1>1
<1>6. (n \div 8) % 256 \in 0..255 /\ (n % 8) * 32 + 31 \in 0..255
  BY <1>3
<1>7. ((128 + n \div 2048) % 4) * 2048 + ((n \div 8) % 256) * 8 + ((n % 8) * 32 + 31) \div 32 = n
  BY <1>1, <1>3, <1>4, <1>5, <1>6
<1>8. LengthOf(h) = n
  BY <1>2, <1>7 DEF LengthOf
<1>9. h[4] \in Byte /\ h[5] \in Byte /\ h[6] \in Byte
  BY <1>2, <1>3, <1>6 DEF Byte
<1> QED
  BY <1>8, <1>9 DEF n, h

\* The length in an AU header.
LEMMA AuSize ==
  ASSUME NEW n \in Nat
  PROVE  /\ (n \div 32) % 256 \in 0..255 /\ (n % 32) * 8 \in 0..255
         /\ ((n \div 32) % 256) * 32 + ((n % 32) * 8) \div 8 \in 0..n
         /\ n < 8192 => ((n \div 32) % 256) * 32 + ((n % 32) * 8) \div 8 = n
BY SMTT(30)

\* A frame in the file.
FrameBytes(f) == AdtsHeader(f) \o f.data

\* The bytes of the first n frames.
BytesTo(fs, n) == Bytes(SubSeq(fs, 1, n))

LEMMA HeaderType ==
  ASSUME NEW f \in Frame
  PROVE  AdtsHeader(f) \in Seq(Byte) /\ Len(AdtsHeader(f)) = AdtsLength
<1> DEFINE h == AdtsHeader(f)
<1>1. h = <<h[1], h[2], 80, h[4], h[5], h[6], 252>>
  BY DEF AdtsHeader
<1>2. h[1] \in Byte /\ h[2] \in Byte
  BY DEF AdtsHeader, Flag, Byte
<1>3. h[4] \in Byte /\ h[5] \in Byte /\ h[6] \in Byte
  BY LengthInHeader
<1> HIDE DEF h
<1>4. PICK a \in Byte, b \in Byte, c \in Byte, d \in Byte, e \in Byte :
        h = <<a, b, 80, c, d, e, 252>>
  BY <1>1, <1>2, <1>3, ZenonT(40)
<1>5. 80 \in Byte /\ 252 \in Byte
  BY DEF Byte
<1>6. h \in Seq(Byte) /\ Len(h) = 7
  BY <1>4, <1>5
<1> QED
  BY <1>6 DEF h, AdtsLength

LEMMA FrameType ==
  ASSUME NEW f \in Frame
  PROVE  /\ FrameBytes(f) \in Seq(Byte) /\ f.data \in Seq(Byte)
         /\ Len(FrameBytes(f)) = AdtsLength + Len(f.data)
         /\ \A k \in 1..AdtsLength : FrameBytes(f)[k] = AdtsHeader(f)[k]
         /\ \A k \in 1..Len(f.data) : FrameBytes(f)[AdtsLength + k] = f.data[k]
<1> DEFINE h == AdtsHeader(f)
           d == f.data
<1>1. d \in Seq(Byte)
  BY DEF Frame
<1>2. h \in Seq(Byte) /\ Len(h) = AdtsLength /\ AdtsLength \in Nat
  BY HeaderType DEF AdtsLength
<1> HIDE DEF h, d
<1> QED
  BY <1>1, <1>2, PutBehind DEF FrameBytes, h, d

\* What a file is flattened from.
Parts(fs) == [i \in DOMAIN fs |-> FrameBytes(fs[i])]

LEMMA PartsType ==
  ASSUME NEW fs \in Seq(Frame)
  PROVE  /\ Parts(fs) \in Seq(Seq(Byte)) /\ Len(Parts(fs)) = Len(fs)
         /\ \A i \in 1..Len(fs) : Parts(fs)[i] = FrameBytes(fs[i])
<1>1. \A i \in 1..Len(fs) : FrameBytes(fs[i]) \in Seq(Byte)
  <2>1. \A i \in 1..Len(fs) : fs[i] \in Frame
    OBVIOUS
  <2> QED
    BY <2>1, FrameType
<1>2. DOMAIN fs = 1..Len(fs) /\ Len(fs) \in Nat
  OBVIOUS
<1>3. Parts(fs) = [i \in 1..Len(fs) |-> FrameBytes(fs[i])]
  BY <1>2 DEF Parts
<1> DEFINE p == Parts(fs)
<1> HIDE DEF p
<1>4. DOMAIN p = 1..Len(fs) /\ \A i \in 1..Len(fs) : p[i] = FrameBytes(fs[i])
  BY <1>3 DEF p
<1>5. p \in [1..Len(fs) -> Seq(Byte)]
  BY <1>1, <1>3 DEF p
<1>6. p \in Seq(Seq(Byte))
  BY <1>2, <1>5
<1> QED
  BY <1>2, <1>4, <1>6 DEF p

LEMMA BytesType ==
  ASSUME NEW fs \in Seq(Frame)
  PROVE  Bytes(fs) \in Seq(Byte) /\ Bytes(fs) = FlattenSeq(Parts(fs))
<1>1. FlattenSeq(Parts(fs)) \in Seq(Byte)
  BY PartsType, FlattenType
<1> QED
  BY <1>1 DEF Parts, Bytes, FrameBytes

LEMMA BytesJoined ==
  ASSUME NEW fs \in Seq(Frame), NEW n \in 0..Len(fs)
  PROVE  BytesTo(fs, n) = Joined(Parts(fs), n)
<1> DEFINE gs == SubSeq(fs, 1, n)
           p == Parts(fs)
<1>1. /\ gs \in Seq(Frame) /\ Len(gs) = n /\ \A i \in 1..n : gs[i] = fs[i] /\ i \in 1..Len(fs)
  OBVIOUS
<1>2. p \in Seq(Seq(Byte)) /\ Len(p) = Len(fs) /\ \A i \in 1..Len(fs) : p[i] = FrameBytes(fs[i])
  BY PartsType
<1> HIDE DEF gs
<1>3. Parts(gs) \in Seq(Seq(Byte)) /\ Len(Parts(gs)) = n /\ \A i \in 1..n : Parts(gs)[i] = FrameBytes(gs[i])
  BY <1>1, PartsType
<1> HIDE DEF p
<1>4. Parts(gs) = SubSeq(p, 1, n)
  <2> DEFINE q == SubSeq(p, 1, n)
  <2>1. q \in Seq(Seq(Byte)) /\ Len(q) = n /\ \A i \in 1..n : q[i] = p[i]
    BY <1>2
  <2> HIDE DEF q
  <2>2. \A i \in 1..n : Parts(gs)[i] = q[i]
    BY <1>1, <1>2, <1>3, <2>1
  <2>3. Parts(gs) = q
    BY <1>3, <2>1, <2>2
  <2> QED
    BY <2>3 DEF q
<1>5. Bytes(gs) = FlattenSeq(Parts(gs))
  BY <1>1, BytesType
<1> QED
  BY <1>4, <1>5 DEF BytesTo, Joined, gs, p

\* One frame more.
LEMMA BytesNext ==
  ASSUME NEW fs \in Seq(Frame), NEW n \in Nat, n + 1 <= Len(fs)
  PROVE  /\ fs[n+1] \in Frame /\ BytesTo(fs, n) \in Seq(Byte)
         /\ BytesTo(fs, n + 1) = BytesTo(fs, n) \o FrameBytes(fs[n+1])
<1>1. fs[n+1] \in Frame /\ n \in 0..Len(fs) /\ n + 1 \in 0..Len(fs) /\ n + 1 \in 1..Len(fs)
  OBVIOUS
<1>2. BytesTo(fs, n) = Joined(Parts(fs), n) /\ BytesTo(fs, n + 1) = Joined(Parts(fs), n + 1)
  BY <1>1, BytesJoined
<1> QED
  BY <1>1, <1>2, PartsType, JoinedNext

\* The file begins with its first frames, however many.
LEMMA BytesPrefix ==
  ASSUME NEW fs \in Seq(Frame), NEW n \in 0..Len(fs)
  PROVE  \E rest \in Seq(Byte) : Bytes(fs) = BytesTo(fs, n) \o rest
<1> DEFINE p == Parts(fs)
<1>1. p \in Seq(Seq(Byte)) /\ Len(p) = Len(fs) /\ Len(p) \in 0..Len(p) /\ n \in 0..Len(p)
  BY PartsType
<1>2. BytesTo(fs, n) = Joined(p, n) /\ Bytes(fs) = FlattenSeq(p)
  BY BytesJoined, BytesType
<1> HIDE DEF p
<1>3. \E rest \in Seq(Byte) : Joined(p, Len(p)) = Joined(p, n) \o rest
  BY <1>1, JoinedPrefix
<1> QED
  BY <1>1, <1>2, <1>3, JoinedAll

-----------------------------------------------------------------------------
(* Numbers and timestamps *)

\* The frames that are done with.
Done == IF aacPc = "send" THEN frames - 1 ELSE frames

\* How many packets have been sent before the n-th frame.
SentBefore(n) == Cardinality((1..(n - 1)) \ failed)

\* What may be missing of the file is at its end.
InFile ==
  /\ aacFile \in Seq(Byte) /\ Len(aacFile) <= Len(Bytes(audio))
  /\ \A k \in 1..Len(aacFile) : aacFile[k] = Bytes(audio)[k]

\* What is done with has been received, refused or lost, in the order of the file.
InOrder ==
  /\ aacPc = "send" => frames > 0
  /\ failed \cup aacLost \subseteq 1..Done
  /\ \A i \in DOMAIN received : received[i].of \in 1..Done
  /\ \A i \in DOMAIN received : i > 1 => received[i - 1].of < received[i].of
  /\ {received[i].of : i \in DOMAIN received} = (1..Done) \ (failed \cup aacLost)

\* The next number and timestamp.
Counted ==
  /\ aacSeq = SentBefore(Done + 1) % SeqModulus
  /\ aacTimestamp = (SentBefore(Done + 1) * PerAudioFrame) % StampModulus

ClockInv == AacTypeOK /\ InOrder /\ Counted /\ AudioClock

LEMMA InitFile ==
  ASSUME AacInit
  PROVE  /\ audio \in Seq(Frame) /\ Bytes(audio) \in Seq(Byte) /\ InFile
<1>1. audio \in Seq(Frame)
  BY AudiosAssumption DEF AacInit
<1>2. Bytes(audio) \in Seq(Byte)
  BY <1>1, BytesType
<1>3. PICK cut \in Cuts : aacFile = SubSeq(Bytes(audio), 1, Len(Bytes(audio)) - cut)
  BY DEF AacInit
<1> DEFINE b == Bytes(audio)
           n == Len(b) - cut
<1>4. cut \in Nat /\ Len(b) \in Nat /\ n \in Int /\ n <= Len(b)
  BY <1>2, AudiosAssumption
<1> HIDE DEF b, n
<1>s. aacFile = SubSeq(b, 1, n) /\ b \in Seq(Byte)
  BY <1>2, <1>3 DEF b, n
<1>5. ASSUME n < 1 PROVE InFile
  <2>1. SubSeq(b, 1, n) = <<>>
    BY <1>4, <1>5, <1>s, SubSeqEmpty
  <2>2. aacFile = <<>>
    BY <1>s, <2>1
  <2> QED
    BY <1>4, <2>2 DEF InFile, b
<1>6. ASSUME n >= 1 PROVE InFile
  <2>1. /\ aacFile \in Seq(Byte) /\ Len(aacFile) = n
        /\ \A k \in 1..n : aacFile[k] = b[k]
    BY <1>4, <1>6, <1>s
  <2> QED
    BY <1>4, <2>1 DEF InFile, b
<1> QED
  BY <1>1, <1>2, <1>4, <1>5, <1>6

LEMMA ClockInit == AacInit => ClockInv
<1> SUFFICES ASSUME AacInit PROVE ClockInv
  OBVIOUS
<1>1. AacTypeOK
  <2>1. aacFile \in Seq(Byte) /\ Len(aacFile) \in Nat
    BY InitFile DEF InFile
  <2> QED
    BY <2>1, RtpAssumption DEF AacInit, AacTypeOK, SeqNumber, Stamp
<1>2. InOrder
  BY DEF AacInit, InOrder, Done
<1>3. Counted
  <2>1. SentBefore(Done + 1) = 0
    BY FS_EmptySet DEF AacInit, SentBefore, Done
  <2> QED
    BY <2>1, RtpAssumption DEF AacInit, Counted, PerAudioFrame
<1>4. AudioClock
  BY DEF AacInit, AudioClock
<1> QED
  BY <1>1, <1>2, <1>3, <1>4 DEF ClockInv

\* What is read of a frame, and where its data lie in the packet.
LEMMA ReadType ==
  ASSUME AacTypeOK, ReadAacFrame
  PROVE  /\ aacOffset' \in 0..Len(aacFile) /\ rSize' \in 0..aacOffset'
         /\ moved' \in Nat
<1>1. /\ Len(aacFile) \in Nat /\ aacOffset \in 0..Len(aacFile) /\ moved \in Nat
      /\ Left \in Nat /\ Left >= 7
  BY DEF AacTypeOK, ReadAacFrame, HasFrame, AdtsLength, Left
<1>2. DataRead \in Int /\ DataRead > 0 /\ DataRead <= Left - 7
  <2>1. aacFrameLength \in Int
    <3>1. \A k \in 0..6 : In(k) \in Byte
      BY <1>1 DEF In, Left, AacTypeOK
    <3>2. In(3) \in Int /\ In(4) \in Int /\ In(5) \in Int
      BY <3>1 DEF Byte
    <3> QED
      BY <3>2 DEF aacFrameLength
  <2> QED
    BY <1>1, <2>1 DEF DataRead, Smaller, ReadAacFrame, HasFrame, AdtsLength
<1>3. Crc \in {0, 2} /\ DataRead >= Crc
  BY <1>2 DEF ReadAacFrame, Overruns, Crc, CrcLength
<1> QED
  BY <1>1, <1>2, <1>3 DEF ReadAacFrame, AdtsLength, Left

LEMMA PacketType ==
  ASSUME AacTypeOK
  PROVE  /\ Unpacked(Packet) \in Seq(Byte)
         /\ rSize < 8192 => Unpacked(Packet) = SubSeq(aacFile, aacOffset - rSize + 1, aacOffset)
<1> DEFINE au == <<0, 16, (rSize \div 32) % 256, (rSize % 32) * 8>>
           data == SubSeq(aacFile, aacOffset - rSize + 1, aacOffset)
           size == ((rSize \div 32) % 256) * 32 + ((rSize % 32) * 8) \div 8
<1>1. /\ rSize \in Nat /\ rSize <= aacOffset /\ aacOffset \in Nat /\ aacOffset <= Len(aacFile)
      /\ Len(aacFile) \in Nat /\ aacFile \in Seq(Byte)
  BY DEF AacTypeOK
<1>2. /\ (rSize \div 32) % 256 \in 0..255 /\ (rSize % 32) * 8 \in 0..255
      /\ size \in 0..rSize
      /\ rSize < 8192 => size = rSize
  BY <1>1, AuSize
<1>3. au \in Seq(Byte) /\ Len(au) = AuLength /\ AuLength \in Nat
  BY <1>2 DEF Byte, AuLength
<1>4. data \in Seq(Byte) /\ Len(data) = rSize
  BY <1>1, SubSeqProperties
<1>5. /\ (au \o data)[3] = (rSize \div 32) % 256 /\ (au \o data)[4] = (rSize % 32) * 8
  BY <1>3, <1>4, PutBehind DEF AuLength
<1>6. Unpacked(Packet) = SubSeq(au \o data, AuLength + 1, AuLength + size)
  <2> DEFINE p == au \o data
             a == (rSize \div 32) % 256
             b == (rSize % 32) * 8
  <2>1. Packet = p
    BY DEF Packet
  <2>2. p[3] = a /\ p[4] = b /\ a \in Int /\ b \in Int
    BY <1>2, <1>5
  <2>3. size = a * 32 + b \div 8
    OBVIOUS
  <2> HIDE DEF p, a, b, size
  <2>4. AuLength + p[3] * 32 + p[4] \div 8 = AuLength + size
    BY <1>3, <2>2, <2>3
  <2>5. Unpacked(p) = SubSeq(p, AuLength + 1, AuLength + p[3] * 32 + p[4] \div 8)
    BY DEF Unpacked
  <2> QED
    BY <2>1, <2>4, <2>5 DEF p
<1> HIDE DEF au, data, size
<1>7. SubSeq(au \o data, AuLength + 1, AuLength + size) = SubSeq(data, 1, size)
  <2>1. size \in Nat /\ size <= Len(data)
    BY <1>1, <1>2, <1>4
  <2>3. AuLength + 1 > Len(au) /\ AuLength + 1 \in Nat /\ AuLength + size \in Nat
        /\ AuLength + size <= Len(au) + Len(data)
    BY <1>3, <1>4, <2>1
  <2>4. CASE size = 0
    <3>1. AuLength + size < AuLength + 1 /\ size < 1
      BY <1>3, <2>4
    <3> QED
      BY <2>1, <2>3, <3>1, SubSeqEmpty
  <2>5. CASE size # 0
    <3> DEFINE m == AuLength + 1
               n == AuLength + size
    <3>1. m \in (Len(au) + 1)..(Len(au) + Len(data)) /\ n \in (Len(au) + 1)..(Len(au) + Len(data))
      BY <1>3, <1>4, <2>1, <2>5
    <3>2. m - Len(au) = 1 /\ n - Len(au) = size
      BY <1>3, <2>1
    <3> HIDE DEF m, n
    <3>3. SubSeq(au \o data, m, n) = SubSeq(data, m - Len(au), n - Len(au))
      BY <1>3, <1>4, <3>1, SubSeqOfConcat2
    <3> QED
      BY <3>2, <3>3 DEF m, n
  <2> QED
    BY <2>4, <2>5
<1>8. SubSeq(data, 1, size) \in Seq(Byte) /\ (size = rSize => SubSeq(data, 1, size) = data)
  <2>1. size \in Nat /\ size <= Len(data) /\ Len(data) \in Nat
    BY <1>1, <1>2, <1>4
  <2>2. SubSeq(data, 1, size) \in Seq(Byte)
    BY <1>4, <2>1, SubSeqProperties
  <2>3. SubSeq(data, 1, Len(data)) = data
    BY <1>4, SubSeqFull
  <2> QED
    BY <1>4, <2>2, <2>3
<1>9. Unpacked(Packet) \in Seq(Byte) /\ (rSize < 8192 => Unpacked(Packet) = data)
  <2>1. rSize < 8192 => size = rSize
    BY <1>2
  <2>2. Unpacked(Packet) = SubSeq(data, 1, size)
    BY <1>6, <1>7
  <2>3. Unpacked(Packet) \in Seq(Byte)
    BY <1>8, <2>2
  <2>4. rSize < 8192 => Unpacked(Packet) = data
    BY <1>8, <2>1, <2>2
  <2> QED
    BY <2>3, <2>4
<1> QED
  BY <1>9 DEF data

-----------------------------------------------------------------------------
(* One frame is sent, lost or refused *)

LEMMA SendFacts ==
  ASSUME ClockInv, aacPc = "send"
  PROVE  /\ frames \in Nat \ {0} /\ Done = frames - 1 /\ Done \in Nat
         /\ frames \notin failed /\ frames \notin aacLost
         /\ SentBefore(frames) \in Nat
         /\ Cardinality((1..frames) \ failed) = SentBefore(frames) + 1
         /\ Cardinality((1..frames) \ (failed \cup {frames})) = SentBefore(frames)
         /\ aacSeq = SentBefore(frames) % SeqModulus
         /\ aacTimestamp = (SentBefore(frames) * PerAudioFrame) % StampModulus
<1>1. frames \in Nat \ {0} /\ Done = frames - 1 /\ Done \in Nat /\ Done + 1 = frames
  BY DEF ClockInv, AacTypeOK, InOrder, Done
<1>2. frames \notin failed /\ frames \notin aacLost
  BY <1>1 DEF ClockInv, InOrder
<1> DEFINE k == frames - 1
<1>3. k \in Nat /\ k + 1 = frames
  BY <1>1
<1> HIDE DEF k
<1>4. Cardinality((1..k) \ failed) \in Nat
  BY <1>3, Counting
<1>5. Cardinality((1..(k + 1)) \ failed) = Cardinality((1..k) \ failed) + 1
  BY <1>2, <1>3, <1>4, Counting
<1>6. (1..frames) \ (failed \cup {frames}) = (1..k) \ failed
  BY <1>1, <1>3
<1>7. SentBefore(frames) = Cardinality((1..k) \ failed)
  BY DEF SentBefore, k
<1>8. Counted
  BY DEF ClockInv
<1> QED
  BY <1>1, <1>2, <1>3, <1>4, <1>5, <1>6, <1>7, <1>8 DEF Counted

\* What the numbers of the next packet become when this one is sent.
LEMMA Advance ==
  ASSUME ClockInv, aacPc = "send"
  PROVE  LET n == Cardinality((1..frames) \ failed) IN
         /\ After(aacSeq) = n % SeqModulus /\ After(aacSeq) \in SeqNumber
         /\ (aacTimestamp + PerAudioFrame) % StampModulus = (n * PerAudioFrame) % StampModulus
         /\ (aacTimestamp + PerAudioFrame) % StampModulus \in Stamp
<1> DEFINE b == SentBefore(frames)
           t == b * PerAudioFrame
<1>1. /\ b \in Nat /\ Cardinality((1..frames) \ failed) = b + 1
      /\ aacSeq = b % SeqModulus /\ aacTimestamp = t % StampModulus
  BY SendFacts
<1>2. PerAudioFrame \in Nat /\ t \in Nat /\ (b + 1) * PerAudioFrame = t + PerAudioFrame
  BY <1>1 DEF PerAudioFrame
<1>3. SeqModulus \in Nat \ {0} /\ StampModulus \in Nat \ {0}
  BY RtpAssumption
<1>4. aacSeq \in Nat /\ aacTimestamp \in Nat
  BY <1>3 DEF ClockInv, AacTypeOK, SeqNumber, Stamp
<1> HIDE DEF b, t
<1>5. ((b % SeqModulus) + 1) % SeqModulus = (b + 1) % SeqModulus
  BY <1>1, <1>3, ModStep
<1>6. ((t % StampModulus) + PerAudioFrame) % StampModulus = (t + PerAudioFrame) % StampModulus
  BY <1>2, <1>3, ModStep
<1>7. /\ (aacSeq + 1) % SeqModulus \in 0..(SeqModulus - 1)
      /\ (aacTimestamp + PerAudioFrame) % StampModulus \in Stamp
  BY <1>2, <1>3, <1>4 DEF Stamp
<1> QED
  BY <1>1, <1>2, <1>5, <1>6, <1>7 DEF After, SeqNumber

\* The access units a receiver may have of the first n frames.
AudioUnit(n) ==
  [of : 1..n, seq : SeqNumber, stamp : Stamp, data : Seq(Byte)]

LEMMA ClockRead == ASSUME ClockInv, ReadAacFrame PROVE ClockInv'
<1>1. /\ aacPc = "read" /\ aacPc' = "send" /\ frames' = frames + 1 /\ frames \in Nat
      /\ UNCHANGED <<aacInput, aacSent>>
  BY DEF ReadAacFrame, ClockInv, AacTypeOK
<1>2. Done' = Done /\ Done = frames
  BY <1>1 DEF Done
<1>3. AacTypeOK'
  <2>1. aacOffset' \in 0..Len(aacFile) /\ rSize' \in 0..aacOffset' /\ moved' \in Nat
    BY ReadType DEF ClockInv
  <2>2. received \in Seq(AudioUnit(frames)) /\ AudioUnit(frames) \subseteq AudioUnit(frames + 1)
    BY <1>1 DEF ClockInv, AacTypeOK, AudioUnit
  <2>3. received \in Seq(AudioUnit(frames + 1))
    <3> DEFINE S == AudioUnit(frames)
               R == AudioUnit(frames + 1)
    <3> HIDE DEF S, R
    <3>1. received \in Seq(S) /\ S \subseteq R
      BY <2>2 DEF S, R
    <3>2. received \in Seq(R)
      BY <3>1
    <3> QED
      BY <3>2 DEF R
  <2>4. failed \subseteq 1..(frames + 1) /\ aacLost \subseteq (1..(frames + 1)) \ failed
    BY <1>1 DEF ClockInv, AacTypeOK
  <2> QED
    BY <1>1, <2>1, <2>3, <2>4 DEF ClockInv, AacTypeOK, AudioUnit, aacInput, aacSent
<1>4. InOrder'
  BY <1>1, <1>2 DEF ClockInv, InOrder, aacSent
<1>5. Counted' /\ AudioClock'
  BY <1>1, <1>2 DEF ClockInv, Counted, AudioClock, SentBefore, aacSent
<1> QED
  BY <1>3, <1>4, <1>5 DEF ClockInv

LEMMA ClockStays ==
  ASSUME ClockInv, Overrun \/ CloseAac \/ UNCHANGED aacVars
  PROVE  ClockInv'
<1>1. /\ UNCHANGED <<aacInput, aacRead, aacSent>> /\ Done' = Done
      /\ aacPc' = "send" <=> aacPc = "send"
      /\ aacPc' \in {"closed", "aborted", "undefined", aacPc}
  BY DEF Overrun, CloseAac, aacVars, Done, aacRead
<1>2. AacTypeOK'
  BY <1>1 DEF ClockInv, AacTypeOK, aacInput, aacRead, aacSent
<1>3. InOrder'
  BY <1>1 DEF ClockInv, InOrder, aacRead, aacSent
<1>4. Counted' /\ AudioClock'
  BY <1>1 DEF ClockInv, Counted, AudioClock, SentBefore, aacSent
<1> QED
  BY <1>2, <1>3, <1>4 DEF ClockInv

LEMMA ClockFails == ASSUME ClockInv, AacSendFails PROVE ClockInv'
<1>1. /\ aacPc = "send" /\ aacPc' = "read" /\ failed' = failed \cup {frames}
      /\ UNCHANGED <<aacInput, aacRead, aacSeq, aacTimestamp, aacLost, received>>
  BY DEF AacSendFails
<1>2. /\ frames \in Nat \ {0} /\ Done = frames - 1 /\ Done' = frames
      /\ frames \notin failed /\ frames \notin aacLost
  BY <1>1, SendFacts DEF Done, aacRead
<1>3. AacTypeOK'
  BY <1>1, <1>2 DEF ClockInv, AacTypeOK, aacInput, aacRead
<1>4. InOrder'
  <2>1. /\ failed \cup aacLost \subseteq 1..(frames - 1)
        /\ \A i \in DOMAIN received : received[i].of \in 1..(frames - 1)
    BY <1>2 DEF ClockInv, InOrder
  <2>2. /\ failed' \cup aacLost \subseteq 1..frames
        /\ \A i \in DOMAIN received : received[i].of \in 1..frames
        /\ (1..frames) \ (failed' \cup aacLost) = (1..(frames - 1)) \ (failed \cup aacLost)
    BY <1>1, <1>2, <2>1
  <2> QED
    BY <1>1, <1>2, <2>2 DEF ClockInv, InOrder, aacRead
<1>5. Counted'
  <2>1. frames + 1 - 1 = frames
    BY <1>2
  <2>2. (SentBefore(Done + 1))' = Cardinality((1..frames) \ (failed \cup {frames}))
    BY <1>1, <1>2, <2>1 DEF SentBefore
  <2> QED
    BY <1>1, <2>2, SendFacts DEF Counted
<1>6. AudioClock'
  <2> SUFFICES ASSUME NEW i \in DOMAIN received
               PROVE  (1..(received[i].of - 1)) \ failed' = (1..(received[i].of - 1)) \ failed
    BY <1>1 DEF ClockInv, AudioClock
  <2>1. received[i].of \in 1..(frames - 1)
    BY <1>2 DEF ClockInv, InOrder
  <2> QED
    BY <1>1, <1>2, <2>1
<1> QED
  BY <1>3, <1>4, <1>5, <1>6 DEF ClockInv

LEMMA ClockSent ==
  ASSUME ClockInv, AacPacketSent,
         \/ Delivered /\ UNCHANGED aacLost
         \/ aacLost' = aacLost \cup {frames} /\ UNCHANGED received
  PROVE  ClockInv'
<1>1. /\ aacPc = "send" /\ aacPc' = "read"
      /\ aacSeq' = After(aacSeq)
      /\ aacTimestamp' = (aacTimestamp + PerAudioFrame) % StampModulus
      /\ UNCHANGED <<aacInput, aacRead, failed>>
  BY DEF AacPacketSent
<1>2. /\ frames \in Nat \ {0} /\ Done = frames - 1 /\ Done' = frames
      /\ frames \notin failed /\ frames \notin aacLost
  BY <1>1, SendFacts DEF Done, aacRead
<1> DEFINE new == [of |-> frames, seq |-> aacSeq, stamp |-> aacTimestamp, data |-> Unpacked(Packet)]
<1>3. new \in AudioUnit(frames) /\ received \in Seq(AudioUnit(frames))
  BY <1>2, PacketType DEF ClockInv, AacTypeOK, AudioUnit
<1>4. Counted' /\ aacSeq' \in SeqNumber /\ aacTimestamp' \in Stamp
  <2>1. frames + 1 - 1 = frames
    BY <1>2
  <2>2. (SentBefore(Done + 1))' = Cardinality((1..frames) \ failed)
    BY <1>1, <1>2, <2>1 DEF SentBefore
  <2> QED
    BY <1>1, <2>2, Advance DEF Counted
<1>5. /\ failed \cup aacLost \subseteq 1..(frames - 1)
      /\ \A i \in DOMAIN received : received[i].of \in 1..(frames - 1)
      /\ {received[i].of : i \in DOMAIN received} = (1..(frames - 1)) \ (failed \cup aacLost)
  BY <1>2 DEF ClockInv, InOrder
<1>6. CASE aacLost' = aacLost \cup {frames} /\ UNCHANGED received
  <2>1. AacTypeOK'
    BY <1>1, <1>2, <1>4, <1>6 DEF ClockInv, AacTypeOK, aacInput, aacRead
  <2>2. InOrder'
    <3>1. /\ failed \cup aacLost' \subseteq 1..frames
          /\ \A i \in DOMAIN received : received[i].of \in 1..frames
          /\ (1..frames) \ (failed \cup aacLost') = (1..(frames - 1)) \ (failed \cup aacLost)
      BY <1>2, <1>5, <1>6
    <3> QED
      BY <1>1, <1>2, <1>5, <1>6, <3>1 DEF ClockInv, InOrder, aacRead
  <2>3. AudioClock'
    BY <1>1, <1>6 DEF ClockInv, AudioClock
  <2> QED
    BY <1>4, <2>1, <2>2, <2>3 DEF ClockInv
<1>7. CASE Delivered /\ UNCHANGED aacLost
  <2> DEFINE n == Len(received) + 1
  <2>1. /\ received' = Append(received, new) /\ received' \in Seq(AudioUnit(frames))
        /\ DOMAIN received' = DOMAIN received \cup {n} /\ n \notin DOMAIN received
        /\ n \in Nat \ {0} /\ DOMAIN received = 1..(n - 1)
        /\ received'[n] = new /\ \A i \in DOMAIN received : received'[i] = received[i]
    <3>1. received' = Append(received, new)
      BY <1>7 DEF Delivered
    <3> DEFINE S == AudioUnit(frames)
    <3> HIDE DEF new, S
    <3>2. new \in S /\ received \in Seq(S)
      BY <1>3 DEF S
    <3> QED
      BY <3>1, <3>2 DEF S
  <2>2. new.of = frames /\ new.seq = aacSeq /\ new.stamp = aacTimestamp
    OBVIOUS
  <2> HIDE DEF new, n
  <2>3. AacTypeOK'
    BY <1>1, <1>2, <1>4, <1>7, <2>1 DEF ClockInv, AacTypeOK, AudioUnit, aacInput, aacRead
  <2>4. InOrder'
    <3>1. /\ failed \cup aacLost \subseteq 1..frames
          /\ \A i \in DOMAIN received' : received'[i].of \in 1..frames
          /\ (1..frames) \ (failed \cup aacLost) = ((1..(frames - 1)) \ (failed \cup aacLost)) \cup {frames}
      BY <1>2, <1>5, <2>1, <2>2
    <3>2. {received'[i].of : i \in DOMAIN received'} = {received[i].of : i \in DOMAIN received} \cup {frames}
      BY <2>1, <2>2
    <3>3. \A i \in DOMAIN received' : i > 1 => received'[i - 1].of < received'[i].of
      <4> SUFFICES ASSUME NEW i \in DOMAIN received', i > 1
                   PROVE  received'[i - 1].of < received'[i].of
        OBVIOUS
      <4>1. CASE i = n
        <5>1. i - 1 \in DOMAIN received
          BY <2>1, <4>1
        <5> QED
          BY <1>2, <1>5, <2>1, <2>2, <4>1, <5>1
      <4>2. CASE i # n
        <5>1. i \in DOMAIN received /\ i - 1 \in DOMAIN received
          BY <2>1, <4>2
        <5> QED
          BY <2>1, <5>1 DEF ClockInv, InOrder
      <4> QED
        BY <4>1, <4>2
    <3> QED
      BY <1>1, <1>2, <1>5, <1>7, <3>1, <3>2, <3>3 DEF InOrder, aacRead
  <2>5. AudioClock'
    <3> SUFFICES ASSUME NEW i \in DOMAIN received'
                 PROVE  LET before == Cardinality((1..(received'[i].of - 1)) \ failed) IN
                        /\ received'[i].seq = before % SeqModulus
                        /\ received'[i].stamp = (before * PerAudioFrame) % StampModulus
      BY <1>1 DEF AudioClock
    <3>1. CASE i = n
      BY <2>1, <2>2, <3>1, <1>1, SendFacts DEF SentBefore
    <3>2. CASE i # n
      BY <2>1, <3>2 DEF ClockInv, AudioClock
    <3> QED
      BY <3>1, <3>2
  <2> QED
    BY <1>4, <2>3, <2>4, <2>5 DEF ClockInv
<1> QED
  BY <1>6, <1>7

LEMMA ClockStep == ASSUME ClockInv, [AacNext]_aacVars PROVE ClockInv'
<1>1. CASE rtpSendAACFrameTcp \/ rtpSendAACFrame
  BY <1>1, ClockSent DEF rtpSendAACFrameTcp, rtpSendAACFrame
<1> QED
  BY <1>1, ClockRead, ClockStays, ClockFails DEF AacNext

\* Every variable of the sender has its type, whatever the file and its damage.
THEOREM AudioTypeCorrect == AacSpec => []AacTypeOK
<1>1. ClockInv => AacTypeOK
  BY DEF ClockInv
<1> QED
  BY <1>1, ClockInit, ClockStep, PTL DEF AacSpec

\* Numbers and timestamps of sendAacOverTcp and sendAacOverUdp count the packets
\* sent, for any number of frames and however often they wrap.
THEOREM AudioClockRight == AacSpec => []AudioClock
<1>1. ClockInv => AudioClock
  BY DEF ClockInv
<1> QED
  BY <1>1, ClockInit, ClockStep, PTL DEF AacSpec

-----------------------------------------------------------------------------
(* Access units *)

\* Which of the first n frames have a CRC.
Crcs(n) == {j \in 1..n : audio[j].crc}

\* A frame without header and CRC.
AccessUnit(f) == SubSeq(f.data, CrcOf(f) + 1, Len(f.data))

\* Up to a damaged frame the position, the buffer and the data read are those of
\* the frames of the file.
Placed ==
  SoundUpTo(frames) =>
    /\ aacOffset = Len(BytesTo(audio, frames))
    /\ moved = CrcLength * Cardinality(Crcs(frames))
    /\ aacPc = "send" =>
         /\ rSize < 8192
         /\ SubSeq(aacFile, aacOffset - rSize + 1, aacOffset) = AccessUnit(audio[frames])

\* What was received of frames before a damaged one.
DataRight ==
  \A i \in DOMAIN received :
    SoundUpTo(received[i].of) => received[i].data = AccessUnit(audio[received[i].of])

FrameInv ==
  ClockInv /\ audio \in Seq(Frame) /\ InFile /\ Placed /\ DataRight /\ OnlyDamageStops

LEMMA CrcsNext ==
  ASSUME audio \in Seq(Frame), NEW n \in Nat, n + 1 <= Len(audio)
  PROVE  /\ Cardinality(Crcs(n)) \in Nat
         /\ Cardinality(Crcs(n + 1)) = Cardinality(Crcs(n)) + (IF audio[n + 1].crc THEN 1 ELSE 0)
<1> DEFINE F == {j \in 1..Len(audio) : ~audio[j].crc}
<1>1. Crcs(n) = (1..n) \ F /\ Crcs(n + 1) = (1..(n + 1)) \ F
  BY DEF Crcs
<1>2. n + 1 \in F <=> ~audio[n + 1].crc
  OBVIOUS
<1> HIDE DEF F
<1> QED
  BY <1>1, <1>2, Counting

\* The frame after those read, where the reader stands.
LEMMA NextFrame ==
  ASSUME FrameInv, aacPc = "read", SoundUpTo(frames + 1)
  PROVE  LET f == audio[frames + 1] IN
         /\ f \in Frame /\ f.data \in Seq(Byte) /\ Len(f.data) \in Nat
         /\ Len(BytesTo(audio, frames + 1)) = aacOffset + 7 + Len(f.data)
         /\ aacOffset + 7 + Len(f.data) <= Len(aacFile)
         /\ \A k \in 1..7 : In(k - 1) = AdtsHeader(f)[k]
         /\ \A k \in 1..Len(f.data) : aacFile[aacOffset + 7 + k] = f.data[k]
<1> DEFINE f == audio[frames + 1]
           before == BytesTo(audio, frames)
           here == FrameBytes(f)
           n == Len(here)
<1>1. /\ frames \in Nat /\ frames + 1 <= Len(audio) /\ audio \in Seq(Frame) /\ InFile
      /\ Len(audio) \in Nat /\ Sound(frames + 1)
  BY DEF FrameInv, ClockInv, AacTypeOK, SoundUpTo
<1>2. SoundUpTo(frames)
  BY <1>1 DEF SoundUpTo
<1>3. aacOffset = Len(before) /\ aacOffset \in Nat
  BY <1>2 DEF FrameInv, Placed, ClockInv, AacTypeOK
<1>4. f \in Frame /\ before \in Seq(Byte) /\ BytesTo(audio, frames + 1) = before \o here
  BY <1>1, BytesNext
<1>5. /\ here \in Seq(Byte) /\ f.data \in Seq(Byte) /\ n = 7 + Len(f.data) /\ Len(f.data) \in Nat
      /\ \A k \in 1..7 : here[k] = AdtsHeader(f)[k]
      /\ \A k \in 1..Len(f.data) : here[7 + k] = f.data[k]
  <2>1. AdtsLength = 7
    BY DEF AdtsLength
  <2> HIDE DEF f
  <2>2. /\ here \in Seq(Byte) /\ f.data \in Seq(Byte) /\ n = 7 + Len(f.data)
        /\ \A k \in 1..7 : here[k] = AdtsHeader(f)[k]
        /\ \A k \in 1..Len(f.data) : here[7 + k] = f.data[k]
    BY <1>4, <2>1, FrameType
  <2>3. Len(f.data) \in Nat
    BY <2>2
  <2> QED
    BY <2>2, <2>3
<1>6. PICK rest \in Seq(Byte) : Bytes(audio) = BytesTo(audio, frames + 1) \o rest
  <2>1. frames + 1 \in 0..Len(audio)
    BY <1>1
  <2> QED
    BY <1>1, <2>1, BytesPrefix
<1>7. /\ Len(before \o here) = aacOffset + n
      /\ Len(BytesTo(audio, frames + 1)) <= Len(aacFile)
  <2>1. Len(BytesTo(audio, frames + 1)) <= Len(aacFile)
    BY <1>1 DEF Sound, BytesTo
  <2>2. before \in Seq(Byte) /\ here \in Seq(Byte)
    BY <1>4, <1>5
  <2> HIDE DEF f, before, here
  <2>3. Len(before \o here) = Len(before) + Len(here)
    BY <2>2
  <2> QED
    BY <1>3, <2>1, <2>3
<1> HIDE DEF f, before, here
<1>8. ASSUME NEW k \in 1..n PROVE aacFile[aacOffset + k] = here[k]
  <2> DEFINE j == aacOffset + k
  <2>1. j \in 1..(aacOffset + n) /\ j \in 1..Len(aacFile) /\ n \in Nat
    <3>1. n \in Nat /\ aacOffset + n <= Len(aacFile) /\ Len(aacFile) \in Nat
      <4>1. n \in Nat /\ Len(aacFile) \in Nat
        BY <1>1, <1>5 DEF InFile
      <4>2. aacOffset + n <= Len(aacFile)
        BY <1>4, <1>7
      <4> QED
        BY <4>1, <4>2
    <3> HIDE DEF n
    <3> QED
      BY <1>3, <3>1
  <2>2. aacFile[j] = Bytes(audio)[j]
    BY <1>1, <2>1 DEF InFile
  <2>3. ((before \o here) \o rest)[j] = (before \o here)[j]
    <3>1. before \o here \in Seq(Byte) /\ aacOffset + n \in Nat
      BY <1>3, <1>4, <1>5
    <3> HIDE DEF j
    <3> QED
      BY <1>6, <1>7, <2>1, <3>1, PutBehind
  <2>4. (before \o here)[j] = here[k]
    BY <1>3, <1>4, <1>5, <2>1, PutBehind, SMTT(30)
  <2> QED
    BY <1>4, <1>6, <2>2, <2>3, <2>4
<1>9. \A k \in 1..7 : In(k - 1) = AdtsHeader(f)[k]
  <2> TAKE k \in 1..7
  <2>1. k \in 1..n /\ aacOffset + 1 + (k - 1) = aacOffset + k
    <3>1. n >= 7 /\ n \in Nat /\ aacOffset \in Nat
      BY <1>3, <1>5
    <3> HIDE DEF n
    <3> QED
      BY <3>1
  <2> QED
    BY <1>5, <1>8, <2>1 DEF In
<1>10. \A k \in 1..Len(f.data) : aacFile[aacOffset + 7 + k] = f.data[k]
  <2> TAKE k \in 1..Len(f.data)
  <2>1. 7 + k \in 1..n /\ aacOffset + (7 + k) = aacOffset + 7 + k
    BY <1>3, <1>5
  <2> QED
    BY <1>5, <1>8, <2>1
<1>11. /\ f \in Frame /\ f.data \in Seq(Byte) /\ Len(f.data) \in Nat
       /\ Len(BytesTo(audio, frames + 1)) = aacOffset + 7 + Len(f.data)
       /\ aacOffset + 7 + Len(f.data) <= Len(aacFile)
  <2>1. Len(BytesTo(audio, frames + 1)) = aacOffset + n /\ n = 7 + Len(f.data)
    BY <1>4, <1>5, <1>7
  <2> DEFINE data == f.data
  <2>2. n = 7 + Len(data) /\ Len(data) \in Nat /\ aacOffset \in Nat
    BY <1>3, <1>5
  <2> HIDE DEF n, data
  <2>3. aacOffset + n = aacOffset + 7 + Len(data)
    BY <2>2
  <2> QED
    BY <1>4, <1>5, <1>7, <2>1, <2>3 DEF data
<1> QED
  BY <1>9, <1>10, <1>11, Zenon DEF f

\* What the reader makes of it.
LEMMA FrameRead ==
  ASSUME FrameInv, aacPc = "read", SoundUpTo(frames + 1)
  PROVE  LET f == audio[frames + 1] IN
         HasFrame /\ DataRead = Len(f.data) /\ Crc = CrcOf(f)
<1> DEFINE f == audio[frames + 1]
           h == AdtsHeader(f)
<1>1. /\ f \in Frame /\ Len(f.data) \in Nat /\ f.syncword
      /\ f.aacFrameLength = 7 + Len(f.data) /\ Len(f.data) > CrcOf(f)
      /\ f.crc \in BOOLEAN
  <2>1. /\ f.syncword /\ f.aacFrameLength = 7 + Len(f.data)
        /\ Len(f.data) > CrcOf(f)
    <3>1. Sound(frames + 1)
      BY DEF SoundUpTo, FrameInv, ClockInv, AacTypeOK
    <3> QED
      BY <3>1 DEF Sound, AdtsLength
  <2>2. f \in Frame /\ Len(f.data) \in Nat
    BY NextFrame
  <2> HIDE DEF f
  <2>3. f.crc \in BOOLEAN
    BY <2>2 DEF Frame
  <2> QED
    BY <2>1, <2>2, <2>3
<1> DEFINE data == f.data
<1>2. Left \in Int /\ Left >= 7 + Len(data)
  <2>1. aacOffset + 7 + Len(data) <= Len(aacFile) /\ Len(data) \in Nat
    BY NextFrame
  <2>2. aacOffset \in Nat /\ Len(aacFile) \in Nat
    BY DEF FrameInv, ClockInv, AacTypeOK
  <2> HIDE DEF data
  <2> QED
    BY <2>1, <2>2 DEF Left
<1>3. \A k \in 1..7 : In(k - 1) = h[k]
  BY NextFrame
<1>4. h[1] = Flag(255, f.syncword) /\ h[2] = 240 + Flag(1, ~f.crc)
  BY DEF AdtsHeader
<1> HIDE DEF f, h
<1>5. In(0) = h[1] /\ In(1) = h[2] /\ In(3) = h[4] /\ In(4) = h[5] /\ In(5) = h[6]
  BY <1>3
<1>6. In(0) = 255 /\ In(1) = IF f.crc THEN 240 ELSE 241
  BY <1>1, <1>4, <1>5 DEF Flag
<1>7. Synced /\ protectionAbsent = IF f.crc THEN 0 ELSE 1
  BY <1>1, <1>6 DEF Synced, protectionAbsent
<1>8. aacFrameLength = f.aacFrameLength
  <2>1. LengthOf(h) = f.aacFrameLength
    BY <1>1, LengthInHeader DEF h
  <2> QED
    BY <1>5, <2>1 DEF aacFrameLength, LengthOf
<1>9. DataRead = Len(f.data)
  <2>1. aacFrameLength = 7 + Len(data) /\ Len(data) \in Nat
    BY <1>1, <1>8
  <2> HIDE DEF data
  <2>2. DataRead = Len(data)
    BY <1>2, <2>1 DEF DataRead, Smaller, AdtsLength
  <2> QED
    BY <2>2 DEF data
<1>10. Crc = CrcOf(f) /\ CrcOf(f) \in Nat
  BY <1>7 DEF Crc, CrcOf, CrcLength
<1>11. HasFrame
  <2>1. Len(data) > 0 /\ Len(data) \in Nat /\ DataRead = Len(data)
    BY <1>1, <1>9, <1>10
  <2> HIDE DEF data
  <2> QED
    BY <1>2, <1>7, <2>1 DEF HasFrame, AdtsLength
<1> QED
  BY <1>9, <1>10, <1>11 DEF f

LEMMA FrameInit == AacInit => FrameInv
<1> SUFFICES ASSUME AacInit PROVE FrameInv
  OBVIOUS
<1>1. audio \in Seq(Frame) /\ InFile
  BY InitFile
<1>2. Placed
  <2>1. BytesTo(audio, 0) = <<>>
    <3>1. SubSeq(audio, 1, 0) = <<>>
      BY SubSeqEmpty
    <3>2. Bytes(<<>>) = <<>>
      BY DEF Bytes, FlattenSeq
    <3> QED
      BY <3>1, <3>2 DEF BytesTo
  <2>2. Crcs(0) = {}
    BY DEF Crcs
  <2>3. Len(BytesTo(audio, 0)) = 0 /\ CrcLength * Cardinality(Crcs(0)) = 0
    BY <2>1, <2>2, FS_EmptySet DEF CrcLength
  <2> QED
    BY <2>3 DEF AacInit, Placed
<1>3. DataRight /\ OnlyDamageStops
  BY DEF AacInit, DataRight, OnlyDamageStops
<1> QED
  BY <1>1, <1>2, <1>3, ClockInit DEF FrameInv

LEMMA FrameReadStep == ASSUME FrameInv, ReadAacFrame PROVE FrameInv'
<1>1. /\ aacPc = "read" /\ aacPc' = "send" /\ frames' = frames + 1 /\ frames \in Nat
      /\ aacOffset' = aacOffset + AdtsLength + DataRead
      /\ moved' = moved + Crc /\ rSize' = DataRead - Crc
      /\ UNCHANGED <<aacInput, aacSent>>
  BY DEF ReadAacFrame, FrameInv, ClockInv, AacTypeOK
<1>2. ClockInv'
  BY ClockRead DEF FrameInv
<1>3. audio' \in Seq(Frame) /\ InFile'
  BY <1>1 DEF FrameInv, InFile, aacInput
<1>4. DataRight'
  BY <1>1 DEF FrameInv, DataRight, SoundUpTo, Sound, aacInput, aacSent
<1>5. OnlyDamageStops'
  BY <1>1 DEF OnlyDamageStops
<1>6. Placed'
  <2> SUFFICES ASSUME SoundUpTo(frames + 1)
               PROVE  /\ aacOffset' = Len(BytesTo(audio, frames + 1))
                      /\ moved' = CrcLength * Cardinality(Crcs(frames + 1))
                      /\ rSize' < 8192
                      /\ SubSeq(aacFile, aacOffset' - rSize' + 1, aacOffset')
                           = AccessUnit(audio[frames + 1])
    <3>1. SoundUpTo(frames)' <=> SoundUpTo(frames + 1)
      BY <1>1 DEF SoundUpTo, Sound, aacInput
    <3>2. Crcs(frames)' = Crcs(frames + 1) /\ audio' = audio /\ aacFile' = aacFile
      BY <1>1 DEF Crcs, aacInput
    <3> QED
      BY <1>1, <3>1, <3>2 DEF Placed
  <2> DEFINE f == audio[frames + 1]
             data == f.data
             inc == IF f.crc THEN 1 ELSE 0
             crc == CrcOf(f)
             cards == Cardinality(Crcs(frames))
  <2>1. /\ DataRead = Len(data) /\ Crc = crc
        /\ f \in Frame /\ data \in Seq(Byte) /\ Len(data) \in Nat
        /\ Len(BytesTo(audio, frames + 1)) = aacOffset + 7 + Len(data)
        /\ aacOffset + 7 + Len(data) <= Len(aacFile)
        /\ \A k \in 1..Len(data) : aacFile[aacOffset + 7 + k] = data[k]
    BY <1>1, FrameRead, NextFrame
  <2>2. /\ Sound(frames + 1) /\ SoundUpTo(frames) /\ frames + 1 <= Len(audio)
        /\ audio \in Seq(Frame)
    BY <1>1 DEF SoundUpTo, FrameInv
  <2>3. Len(data) < 8192 /\ crc <= Len(data) /\ crc = 2 * inc /\ inc \in {0, 1}
    <3> DEFINE long == f.aacFrameLength
    <3>1. long = 7 + Len(data) /\ Len(data) > crc
      BY <2>2 DEF Sound, AdtsLength
    <3>2. long \in 0..8191
      <4>1. long \in Lengths
        BY <2>1, LengthField
      <4> HIDE DEF long
      <4> QED
        BY <4>1 DEF Lengths
    <3>3. crc = 2 * inc /\ inc \in {0, 1}
      BY DEF CrcOf, CrcLength
    <3>4. Len(data) \in Nat
      BY <2>1
    <3> HIDE DEF data, crc, long, inc
    <3>5. Len(data) < 8192
      <4>1. Len(data) = long - 7
        BY <3>1, <3>4
      <4>2. long < 8192 + 7
        BY <3>2
      <4> QED
        BY <3>2, <3>4, <4>1, <4>2
    <3>6. crc <= Len(data)
      BY <3>1, <3>3, <3>4
    <3> QED
      BY <3>3, <3>5, <3>6
  <2>4. moved = CrcLength * cards /\ aacOffset \in Nat /\ aacFile \in Seq(Byte)
    BY <1>1, <2>2 DEF FrameInv, Placed, ClockInv, AacTypeOK
  <2>5. cards \in Nat /\ Cardinality(Crcs(frames + 1)) = cards + inc
    BY <1>1, <2>2, CrcsNext
  <2> HIDE DEF f, data, inc, crc, cards
  <2>6. aacOffset' = Len(BytesTo(audio, frames + 1)) /\ rSize' < 8192
    <3>1. aacOffset' = aacOffset + 7 + Len(data) /\ rSize' = Len(data) - crc
      BY <1>1, <2>1 DEF AdtsLength
    <3>2. aacOffset' = Len(BytesTo(audio, frames + 1))
      BY <2>1, <3>1
    <3>3. Len(data) \in Nat /\ crc \in Nat /\ Len(data) < 8192
      BY <2>1, <2>3
    <3>4. rSize' < 8192
      BY <3>1, <3>3
    <3> QED
      BY <3>2, <3>4
  <2>7. moved' = CrcLength * Cardinality(Crcs(frames + 1))
    BY <1>1, <2>1, <2>3, <2>4, <2>5 DEF CrcLength
  <2>8. SubSeq(aacFile, aacOffset' - rSize' + 1, aacOffset') = SubSeq(data, crc + 1, Len(data))
    <3> DEFINE a == aacOffset + 7
    <3>1. /\ aacOffset' = a + Len(data) /\ aacOffset' - rSize' + 1 = a + crc + 1
          /\ a \in Nat /\ crc \in Nat
      BY <1>1, <2>1, <2>3, <2>4 DEF AdtsLength
    <3> HIDE DEF a
    <3>2. SubSeq(aacFile, a + crc + 1, a + Len(data)) = SubSeq(data, crc + 1, Len(data))
      <4>1. \A k \in 1..Len(data) : aacFile[a + k] = data[k]
        BY <2>1 DEF a
      <4>2. a + Len(data) <= Len(aacFile) /\ crc <= Len(data) /\ Len(data) \in Nat /\ data \in Seq(Byte)
        BY <2>1, <2>3 DEF a
      <4> QED
        BY <2>4, <3>1, <4>1, <4>2, SamePart
    <3> QED
      BY <3>1, <3>2
  <2> QED
    <3>1. SubSeq(data, crc + 1, Len(data)) = AccessUnit(f)
      BY DEF AccessUnit, data, crc
    <3>2. SubSeq(aacFile, aacOffset' - rSize' + 1, aacOffset') = AccessUnit(f)
      BY <2>8, <3>1
    <3>3. SubSeq(aacFile, aacOffset' - rSize' + 1, aacOffset') = AccessUnit(audio[frames + 1])
      BY <3>2 DEF f
    <3> QED
      BY <2>6, <2>7, <3>3
<1> QED
  BY <1>2, <1>3, <1>4, <1>5, <1>6 DEF FrameInv

LEMMA FrameSent ==
  ASSUME FrameInv, AacPacketSent,
         \/ Delivered /\ UNCHANGED aacLost
         \/ aacLost' = aacLost \cup {frames} /\ UNCHANGED received
  PROVE  FrameInv'
<1>1. /\ aacPc = "send" /\ aacPc' = "read" /\ UNCHANGED <<aacInput, aacRead>>
  BY DEF AacPacketSent
<1>2. ClockInv'
  BY ClockSent DEF FrameInv
<1>3. audio' \in Seq(Frame) /\ InFile' /\ OnlyDamageStops' /\ Placed'
  BY <1>1 DEF FrameInv, InFile, OnlyDamageStops, Placed, SoundUpTo, Sound, Crcs, aacInput, aacRead
<1>4. DataRight'
  <2>1. CASE UNCHANGED received
    BY <1>1, <2>1 DEF FrameInv, DataRight, SoundUpTo, Sound, aacInput
  <2>2. CASE Delivered
    <3> DEFINE new == [of |-> frames, seq |-> aacSeq, stamp |-> aacTimestamp, data |-> Unpacked(Packet)]
               n == Len(received) + 1
    <3>1. /\ n \in Nat /\ DOMAIN received = 1..(n - 1) /\ DOMAIN received' = 1..n
          /\ received'[n] = new /\ \A i \in 1..(n - 1) : received'[i] = received[i]
      <4>1. received' = Append(received, new)
        BY <2>2 DEF Delivered
      <4>2. \E S : received \in Seq(S)
        BY DEF FrameInv, ClockInv, AacTypeOK
      <4> HIDE DEF new
      <4> QED
        BY <4>1, <4>2
    <3>2. new.of = frames /\ new.data = Unpacked(Packet)
      OBVIOUS
    <3>3. SoundUpTo(frames) => Unpacked(Packet) = AccessUnit(audio[frames])
      <4>1. SoundUpTo(frames) =>
              /\ rSize < 8192
              /\ SubSeq(aacFile, aacOffset - rSize + 1, aacOffset) = AccessUnit(audio[frames])
        BY <1>1 DEF FrameInv, Placed
      <4>2. rSize < 8192 => Unpacked(Packet) = SubSeq(aacFile, aacOffset - rSize + 1, aacOffset)
        BY PacketType DEF FrameInv, ClockInv
      <4> SUFFICES ASSUME SoundUpTo(frames) PROVE Unpacked(Packet) = AccessUnit(audio[frames])
        OBVIOUS
      <4> DEFINE s == SubSeq(aacFile, aacOffset - rSize + 1, aacOffset)
      <4>3. rSize < 8192 /\ s = AccessUnit(audio[frames])
        BY <4>1
      <4>4. Unpacked(Packet) = s
        BY <4>2, <4>3
      <4> HIDE DEF s
      <4> QED
        BY <4>3, <4>4
    <3> HIDE DEF new, n
    <3> SUFFICES ASSUME NEW i \in 1..n
                 PROVE  SoundUpTo(received'[i].of) =>
                          received'[i].data = AccessUnit(audio[received'[i].of])
      BY <1>1, <3>1 DEF DataRight, SoundUpTo, Sound, aacInput
    <3>4. CASE i = n
      <4>1. received'[i].of = frames /\ received'[i].data = Unpacked(Packet)
        BY <3>1, <3>2, <3>4
      <4> QED
        BY <3>3, <4>1, Zenon
    <3>5. CASE i # n
      BY <3>1, <3>5 DEF FrameInv, DataRight
    <3> QED
      BY <3>4, <3>5
  <2> QED
    BY <2>1, <2>2
<1> QED
  BY <1>2, <1>3, <1>4 DEF FrameInv

LEMMA FrameStops ==
  ASSUME FrameInv, Overrun \/ CloseAac
  PROVE  FrameInv'
<1>1. /\ aacPc = "read" /\ aacPc' \in {"closed", "aborted", "undefined"}
      /\ UNCHANGED <<aacInput, aacRead, aacSent>>
  BY DEF Overrun, CloseAac
<1>2. ClockInv'
  BY ClockStays DEF FrameInv
<1>3. audio' \in Seq(Frame) /\ InFile' /\ Placed' /\ DataRight'
  BY <1>1 DEF FrameInv, InFile, Placed, DataRight, SoundUpTo, Sound, Crcs, aacInput, aacRead, aacSent
<1>4. OnlyDamageStops'
  <2> SUFFICES ASSUME frames < Len(audio), SoundUpTo(frames + 1)
               PROVE  aacPc' = "undefined" /\ ~Holds(frames + 1)
    BY <1>1 DEF OnlyDamageStops, SoundUpTo, Sound, Holds, aacInput, aacRead,
                FrameInv, ClockInv, AacTypeOK
  <2> DEFINE f == audio[frames + 1]
             data == f.data
             crc == CrcOf(f)
             crcs == {j \in 1..(frames + 1 - 1) : audio[j].crc}
  <2>1. /\ HasFrame /\ DataRead = Len(data) /\ Crc = crc /\ Len(data) \in Nat
    BY <1>1, FrameRead, NextFrame
  <2>2. Overruns /\ aacPc' = "undefined"
    BY <2>1 DEF Overrun, CloseAac
  <2>3. /\ frames \in Nat /\ moved = CrcLength * Cardinality(crcs)
        /\ moved \in Nat
    <3>1. frames \in Nat /\ moved \in Nat
      BY DEF FrameInv, ClockInv, AacTypeOK
    <3>2. crcs = Crcs(frames)
      BY <3>1 DEF Crcs
    <3>3. SoundUpTo(frames)
      BY <3>1 DEF SoundUpTo
    <3>4. moved = CrcLength * Cardinality(Crcs(frames))
      BY <3>3 DEF FrameInv, Placed
    <3> HIDE DEF crcs
    <3> QED
      BY <3>1, <3>2, <3>4
  <2>4. Len(data) > crc /\ crc \in Nat
    <3>1. Sound(frames + 1)
      BY <2>3 DEF SoundUpTo
    <3>2. crc \in Nat
      BY DEF CrcOf, CrcLength
    <3> QED
      BY <3>1, <3>2 DEF Sound
  <2>5. ASSUME Holds(frames + 1) PROVE FALSE
    <3>1. /\ moved + Max({AdtsLength, Len(data)}) <= AAC_BUFFER_SIZE
          /\ RtpLength + AuLength + Len(data) - crc <= AAC_BUFFER_SIZE
      BY <2>3, <2>5 DEF Holds
    <3> HIDE DEF f, data, crc
    <3>2. /\ Max({AdtsLength, Len(data)}) \in Int
          /\ Max({AdtsLength, Len(data)}) >= AdtsLength /\ Max({AdtsLength, Len(data)}) >= Len(data)
      <4>1. AdtsLength \in Int /\ Len(data) \in Int
        BY <2>1 DEF AdtsLength
      <4> QED
        BY <4>1, MaxOfTwo
    <3>3. moved + AdtsLength <= AAC_BUFFER_SIZE /\ moved + Len(data) <= AAC_BUFFER_SIZE
      <4>1. AdtsLength \in Int /\ AAC_BUFFER_SIZE \in Int
        BY AacAssumption DEF AdtsLength
      <4> QED
        BY <2>1, <2>3, <3>1, <3>2, <4>1
    <3> QED
      BY <2>1, <2>2, <2>3, <2>4, <3>1, <3>3, AacAssumption, SMTT(30) DEF Overruns, AdtsLength, RtpLength, AuLength
  <2> QED
    BY <2>2, <2>5
<1> QED
  BY <1>2, <1>3, <1>4 DEF FrameInv

LEMMA FrameStep == ASSUME FrameInv, [AacNext]_aacVars PROVE FrameInv'
<1>1. CASE rtpSendAACFrameTcp \/ rtpSendAACFrame
  BY <1>1, FrameSent DEF rtpSendAACFrameTcp, rtpSendAACFrame
<1>2. CASE AacSendFails
  <2>1. ClockInv'
    BY <1>2, ClockFails DEF FrameInv
  <2> QED
    BY <1>2, <2>1 DEF AacSendFails, FrameInv, InFile, Placed, DataRight, OnlyDamageStops,
         SoundUpTo, Sound, Crcs, aacInput, aacRead
<1>3. CASE UNCHANGED aacVars
  <2>1. ClockInv'
    BY <1>3, ClockStays DEF FrameInv
  <2>2. audio' \in Seq(Frame) /\ InFile' /\ DataRight'
    BY <1>3 DEF FrameInv, InFile, DataRight, SoundUpTo, Sound, aacVars, aacInput, aacRead, aacSent
  <2>3. Placed'
    BY <1>3 DEF FrameInv, Placed, SoundUpTo, Sound, Crcs, aacVars, aacInput, aacRead
  <2>4. OnlyDamageStops'
    <3>1. /\ SoundUpTo(frames + 1)' <=> SoundUpTo(frames + 1)
          /\ Holds(frames + 1)' <=> Holds(frames + 1)
      BY <1>3 DEF SoundUpTo, Sound, Holds, aacVars, aacInput, aacRead
    <3> QED
      BY <1>3, <3>1 DEF FrameInv, OnlyDamageStops, aacVars, aacInput, aacRead
  <2> QED
    BY <2>1, <2>2, <2>3, <2>4 DEF FrameInv
<1> QED
  BY <1>1, <1>2, <1>3, FrameReadStep, FrameStops DEF AacNext

\* Up to the first damaged frame a receiver gets the frames of the file, whole and
\* in their order, but for those that are refused or lost.
THEOREM AudioFramesWhole == AacSpec => []AccessUnitsAreFrames
<1>1. FrameInv => AccessUnitsAreFrames
  BY DEF FrameInv, DataRight, AccessUnit, ClockInv, InOrder, Done, AccessUnitsAreFrames
<1> QED
  BY <1>1, FrameInit, FrameStep, PTL DEF AacSpec

\* The sender stops, aborts or leaves its buffers only at the end of the file, at a
\* damaged frame, or where the CRCs before have left no room.
THEOREM AudioOnlyDamageStops == AacSpec => []OnlyDamageStops
<1>1. FrameInv => OnlyDamageStops
  BY DEF FrameInv
<1> QED
  BY <1>1, FrameInit, FrameStep, PTL DEF AacSpec

-----------------------------------------------------------------------------
(* Both senders *)

\* Of the two senders side by side, each does what its own specification says and
\* is not disturbed by the other, so that what holds of one alone holds of both.
THEOREM MediaIsBothSenders == MediaSpec => Spec /\ AacSpec
<1>1. MediaInit => Init /\ AacInit
  BY DEF MediaInit
<1>2. [MediaNext]_mediaVars => [Next]_vars /\ [AacNext]_aacVars
  BY DEF MediaNext, mediaVars
<1> QED
  BY <1>1, <1>2, PTL DEF MediaSpec, Spec, AacSpec
=============================================================================
