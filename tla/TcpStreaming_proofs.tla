------------------------- MODULE TcpStreaming_proofs -------------------------
(***************************************************************************)
(* Theorems about TcpStreaming, for any files, packet size, buffer space   *)
(* and number of descriptors.                                              *)
(***************************************************************************)
EXTENDS TcpStreaming, TLAPS, SequenceTheorems

\* A thread has its file open while it reads and sends.
Live(t) == IF pc[t] \in {"read", "send"} THEN 1 ELSE 0
Unopened(t) == IF pc[t] = "open" THEN 1 ELSE 0

\* Between two streams no thread runs.
IdleDone == phase = "idle" => \A t \in Threads : pc[t] = "returned"

\* A thread that sends has a packet to send.
SendsPacket == \A t \in Threads : pc[t] = "send" => todo[t] # <<>>

\* The files of the threads that run are open, and of those before them there
\* is at most one per stream.
FilesHeld ==
  /\ Live("aac") + Live("h264") <= openFiles
  /\ openFiles <= streams + Live("aac") - Unopened("h264")

HasCrc == \E i \in DOMAIN AudioFile : AudioFile[i].crc
MovedByCrc == moved => HasCrc

Inv == TypeOK /\ IdleDone /\ SendsPacket /\ FilesHeld /\ MovedByCrc

-----------------------------------------------------------------------------
LEMMA NoUnits == <<>> \in Seq(Nat \ {0}) /\ <<>> \in Seq(Unit) /\ Len(<<>>) = 0
OBVIOUS

\* sendManagerTcp makes at least one packet of every NAL, and no empty one.
LEMMA PacketsOfNal ==
  ASSUME NEW nal \in Nat \ {0}
  PROVE  Packets(nal) \in Seq(Nat \ {0}) /\ Packets(nal) # <<>>
<1> DEFINE full == [i \in 1..(nal \div MaxPkt) |-> MaxPkt + Framing]
           rest == IF nal % MaxPkt > 0 THEN <<(nal % MaxPkt) + Framing>> ELSE <<>>
<1>0. MaxPkt \in Nat \ {0} BY SizesAssumption
<1>1. CASE nal <= MaxPkt
  BY <1>1 DEF Packets, Framing
<1>2. CASE ~(nal <= MaxPkt)
  <2>1. nal \div MaxPkt \in Nat /\ nal \div MaxPkt >= 1 /\ nal % MaxPkt \in Nat
    BY <1>0, <1>2
  <2>2. MaxPkt + Framing \in Nat \ {0}
    BY <1>0 DEF Framing
  <2>3. full \in Seq(Nat \ {0}) /\ Len(full) = nal \div MaxPkt
    BY <2>1, <2>2
  <2>4. rest \in Seq(Nat \ {0})
    <3>1. (nal % MaxPkt) + Framing \in Nat \ {0}
      BY <2>1 DEF Framing
    <3>2. <<(nal % MaxPkt) + Framing>> \in Seq(Nat \ {0}) /\ <<>> \in Seq(Nat \ {0})
      BY <3>1
    <3> QED BY <3>2
  <2>5. full \o rest \in Seq(Nat \ {0}) /\ Len(full \o rest) >= 1
    BY <2>1, <2>3, <2>4
  <2>6. Packets(nal) = full \o rest
    BY <1>2 DEF Packets
  <2> HIDE DEF full, rest
  <2>7. full \o rest # <<>>
    BY <2>5, NoUnits
  <2> QED BY <2>5, <2>6, <2>7
<1> QED BY <1>1, <1>2

-----------------------------------------------------------------------------
LEMMA InitInv == Init => Inv
<1> SUFFICES ASSUME Init PROVE Inv
  OBVIOUS
<1>1. phase \in {"idle", "streaming", "dead"} /\ client \in {"reading", "stalled", "gone"}
  BY DEF Init
<1>2. streams \in 0..MaxStreams /\ openFiles \in 0..Descriptors
  BY SizesAssumption DEF Init
<1>3. todo \in [Threads -> Seq(Nat \ {0})] /\ unread \in Seq(Unit) /\ Len(unread) <= Space
  BY NoUnits, SizesAssumption DEF Init
<1>4. pc \in [Threads -> {"open", "read", "send", "returned"}]
  BY DEF Init
<1>5. next \in [Threads -> Nat \ {0}] /\ put \in [Threads -> Nat]
  BY DEF Init
<1>6. moved \in BOOLEAN /\ sockErr \in BOOLEAN /\ lost \in BOOLEAN /\ waited \in BOOLEAN
  BY Zenon DEF Init
<1>7. expect \in Nat /\ from \in Threads
  BY DEF Init, Threads
<1>8. TypeOK
  BY <1>1, <1>2, <1>3, <1>4, <1>5, <1>6, <1>7 DEF TypeOK
<1> QED
  BY <1>8 DEF Init, Inv, IdleDone, SendsPacket, FilesHeld, Live, Unopened, MovedByCrc, Threads

\* A packet that is done leaves the rest of them.
LEMMA PacketDoneInv ==
  ASSUME Inv, NEW t \in Threads, Runs(t, "send"), PacketDone(t),
         UNCHANGED <<phase, streams, moved, openFiles>>
  PROVE  /\ todo' \in [Threads -> Seq(Nat \ {0})]
         /\ put' \in [Threads -> Nat]
         /\ pc' \in [Threads -> {"open", "read", "send", "returned"}]
         /\ IdleDone' /\ SendsPacket' /\ FilesHeld' /\ MovedByCrc'
<1>1. todo[t] \in Seq(Nat \ {0}) /\ todo[t] # <<>>
  BY DEF Inv, TypeOK, SendsPacket, Runs
<1>2. /\ Tail(todo[t]) \in Seq(Nat \ {0}) /\ Len(todo[t]) \in Nat
      /\ Len(Tail(todo[t])) = Len(todo[t]) - 1
  BY <1>1
<1>3. todo' \in [Threads -> Seq(Nat \ {0})]
  BY <1>2 DEF PacketDone, Inv, TypeOK
<1>4. put' \in [Threads -> Nat]
  BY DEF PacketDone, Inv, TypeOK
<1>5. pc' \in [Threads -> {"open", "read", "send", "returned"}] /\ pc'[t] \in {"read", "send"}
  BY DEF PacketDone, Goto, Inv, TypeOK
<1>6. \A u \in Threads \ {t} : pc'[u] = pc[u] /\ todo'[u] = todo[u]
  BY DEF PacketDone, Goto, Inv, TypeOK
<1>7. SendsPacket'
  <2>1. pc'[t] = "send" => todo'[t] # <<>>
    <3>1. pc'[t] = "send" => Len(todo[t]) # 1
      BY DEF PacketDone, Goto, Inv, TypeOK
    <3>2. todo'[t] = Tail(todo[t])
      BY DEF PacketDone, Inv, TypeOK
    <3>3. Len(todo[t]) # 0
      BY <1>1
    <3>4. Len(todo[t]) # 1 => Tail(todo[t]) # <<>>
      <4> DEFINE tail == Tail(todo[t])
                 len == Len(todo[t])
      <4>1. len \in Nat /\ Len(tail) = len - 1
        BY <1>2
      <4>2. tail = <<>> => Len(tail) = 0
        BY NoUnits
      <4> HIDE DEF tail, len
      <4>3. len # 1 => tail # <<>>
        BY <4>1, <4>2
      <4> QED BY <4>3 DEF tail, len
    <3> QED BY <3>1, <3>2, <3>4
  <2> QED BY <2>1, <1>6 DEF SendsPacket, Inv
<1>8. IdleDone'
  BY <1>6 DEF Inv, IdleDone, Runs
<1>9. Live("aac")' = Live("aac") /\ Live("h264")' = Live("h264") /\ Unopened("h264")' = Unopened("h264")
  BY <1>5, <1>6 DEF Live, Unopened, Runs, Threads
<1>10. FilesHeld'
  BY <1>9 DEF Inv, FilesHeld
<1> QED
  BY <1>3, <1>4, <1>5, <1>7, <1>8, <1>10 DEF Inv, MovedByCrc

LEMMA StartInv == ASSUME Inv, Start PROVE Inv'
<1> USE DEF Start
<1>1. TypeOK
  BY DEF Inv
<1>2. pc' \in [Threads -> {"open", "read", "send", "returned"}] /\ \A t \in Threads : pc'[t] = "open"
  OBVIOUS
<1>3. todo' \in [Threads -> Seq(Nat \ {0})] /\ unread' \in Seq(Unit) /\ Len(unread') <= Space
  BY NoUnits, SizesAssumption
<1>4. next' \in [Threads -> Nat \ {0}] /\ put' \in [Threads -> Nat]
  OBVIOUS
<1>5. streams' \in 0..MaxStreams
  BY <1>1, SizesAssumption DEF TypeOK
<1>6. TypeOK'
  BY <1>1, <1>2, <1>3, <1>4, <1>5 DEF TypeOK
<1>7. IdleDone' /\ SendsPacket' /\ MovedByCrc'
  BY <1>2 DEF IdleDone, SendsPacket, MovedByCrc
<1>8. Live("aac") = 0 /\ Live("h264") = 0 /\ Unopened("h264") = 0
  BY DEF Inv, IdleDone, Live, Unopened, Threads
<1>9. Live("aac")' = 0 /\ Live("h264")' = 0 /\ Unopened("h264")' = 1
  BY <1>2 DEF Live, Unopened, Threads
<1>10. FilesHeld'
  BY <1>1, <1>8, <1>9 DEF Inv, TypeOK, FilesHeld
<1> QED BY <1>6, <1>7, <1>10 DEF Inv

LEMMA JoinInv == ASSUME Inv, Join PROVE Inv'
BY DEF Join, threadVars, readerVars, Inv, TypeOK, IdleDone, SendsPacket, FilesHeld, MovedByCrc,
       Live, Unopened

\* What a step of one thread that sends nothing has to keep.
LEMMA ThreadInv ==
  ASSUME Inv, NEW t \in Threads, NEW at, NEW to \in {"read", "send", "returned"},
         at \in {"open", "read", "send"}, Runs(t, at), Goto(t, to),
         Elsewhere, phase' \in {phase, "dead"},
         sockErr' \in BOOLEAN, moved' \in BOOLEAN, moved' => HasCrc,
         next' \in [Threads -> Nat \ {0}], put' \in [Threads -> Nat],
         todo' \in [Threads -> Seq(Nat \ {0})],
         to = "send" => todo'[t] # <<>>,
         \A u \in Threads \ {t} : todo'[u] = todo[u],
         openFiles' \in 0..Descriptors,
         FilesHeld'
  PROVE  Inv'
<1>1. TypeOK
  BY DEF Inv
<1>2. pc' \in [Threads -> {"open", "read", "send", "returned"}]
  BY <1>1 DEF Goto, TypeOK
<1>3. pc'[t] = to /\ \A u \in Threads \ {t} : pc'[u] = pc[u]
  BY <1>1 DEF Goto, TypeOK
<1>4. TypeOK'
  BY <1>1, <1>2 DEF TypeOK, Elsewhere, readerVars, Runs
<1>5. IdleDone'
  <2>1. phase # "idle"
    BY DEF Inv, IdleDone, Runs
  <2> QED BY <2>1 DEF IdleDone
<1>6. SendsPacket'
  BY <1>3 DEF Inv, SendsPacket
<1> QED BY <1>4, <1>5, <1>6 DEF Inv, MovedByCrc, HasCrc

\* How a step of a thread changes what it holds.
LEMMA LiveAfter ==
  ASSUME TypeOK, NEW t \in Threads, NEW to, Goto(t, to)
  PROVE  /\ Live(t)' = IF to \in {"read", "send"} THEN 1 ELSE 0
         /\ Unopened(t)' = IF to = "open" THEN 1 ELSE 0
         /\ \A u \in Threads \ {t} : Live(u)' = Live(u) /\ Unopened(u)' = Unopened(u)
BY DEF TypeOK, Goto, Live, Unopened

LEMMA OpenInv == ASSUME Inv, NEW t \in Threads, Open(t) PROVE Inv'
<1>1. TypeOK /\ FilesHeld /\ HasCrc = HasCrc' /\ (moved => HasCrc)
  BY DEF Inv, HasCrc, MovedByCrc
<1>2. Live(t) = 0 /\ Unopened(t) = 1
  BY DEF Open, Runs, Live, Unopened
<1>3. PICK to \in {"read", "returned"} :
        /\ Goto(t, to)
        /\ openFiles' = openFiles + (IF to = "read" THEN 1 ELSE 0)
        /\ openFiles' \in 0..Descriptors
  <2>1. CASE openFiles < Descriptors /\ openFiles' = openFiles + 1 /\ Goto(t, "read")
    BY <2>1, <1>1, SizesAssumption DEF TypeOK
  <2>2. CASE openFiles = Descriptors /\ UNCHANGED openFiles /\ Goto(t, "returned")
    BY <2>2, <1>1, SizesAssumption DEF TypeOK
  <2> QED BY <2>1, <2>2 DEF Open
<1>4. streams' = streams
  BY DEF Open, Elsewhere
<1>5. FilesHeld'
  BY <1>1, <1>2, <1>3, <1>4, LiveAfter DEF FilesHeld, TypeOK, Threads, Live, Unopened
<1> QED
  BY <1>1, <1>3, <1>5, ThreadInv DEF Open, TypeOK

\* A step that keeps the file.
LEMMA HeldKept ==
  ASSUME Inv, NEW t \in Threads, pc[t] \in {"read", "send"}, NEW to \in {"read", "send"},
         Goto(t, to), UNCHANGED <<openFiles, streams>>
  PROVE  FilesHeld'
<1>1. TypeOK /\ FilesHeld
  BY DEF Inv
<1>2. Live(t) = 1 /\ Unopened(t) = 0
  BY DEF Live, Unopened
<1> QED
  BY <1>1, <1>2, LiveAfter DEF FilesHeld, TypeOK, Threads

\* A return without fclose(): the video file of this stream.
LEMMA VideoLeft ==
  ASSUME Inv, pc["h264"] \in {"read", "send"}, Goto("h264", "returned"),
         UNCHANGED <<openFiles, streams>>
  PROVE  FilesHeld'
<1>1. TypeOK /\ FilesHeld
  BY DEF Inv
<1>2. Live("h264") = 1 /\ Unopened("h264") = 0
  BY DEF Live, Unopened
<1>3. Live("aac") \in {0, 1}
  BY DEF Live
<1>4. Live("h264")' = 0 /\ Unopened("h264")' = 0 /\ Live("aac")' = Live("aac")
  BY <1>1, LiveAfter DEF Threads
<1> QED
  BY <1>1, <1>2, <1>3, <1>4 DEF FilesHeld, TypeOK

LEMMA Closed ==
  ASSUME Inv, NEW t \in Threads, pc[t] \in {"read", "send"}, Goto(t, "returned"),
         openFiles' = openFiles - 1, UNCHANGED streams
  PROVE  FilesHeld' /\ openFiles' \in 0..Descriptors
<1>1. TypeOK /\ FilesHeld
  BY DEF Inv
<1>2. Live(t) = 1 /\ Unopened(t) = 0
  BY DEF Live, Unopened
<1>3. /\ \A u \in Threads : Live(u) \in {0, 1} /\ Unopened(u) \in {0, 1}
      /\ openFiles \in 0..Descriptors /\ streams \in 0..MaxStreams
  BY <1>1 DEF Live, Unopened, TypeOK
<1>4. Live(t)' = 0 /\ Unopened(t)' = 0
      /\ \A u \in Threads \ {t} : Live(u)' = Live(u) /\ Unopened(u)' = Unopened(u)
  BY <1>1, LiveAfter
<1>5. CASE t = "aac"
  BY <1>1, <1>2, <1>3, <1>4, <1>5, SizesAssumption DEF FilesHeld, Threads
<1>6. CASE t = "h264"
  BY <1>1, <1>2, <1>3, <1>4, <1>6, SizesAssumption DEF FilesHeld, Threads
<1> QED BY <1>5, <1>6 DEF Threads

LEMMA VideoInv == ASSUME Inv, VideoStep PROVE Inv'
<1>1. TypeOK /\ (moved => HasCrc) /\ "h264" \in Threads
  BY DEF Inv, MovedByCrc, HasCrc, Threads
<1>2. CASE ReadNal
  <2>1. VideoFile[next["h264"]] \in Nat \ {0}
    BY <1>1, <1>2, FilesAssumption DEF ReadNal, TypeOK
  <2>2. Packets(VideoFile[next["h264"]]) \in Seq(Nat \ {0}) /\ Packets(VideoFile[next["h264"]]) # <<>>
    BY <2>1, PacketsOfNal
  <2>3. todo' \in [Threads -> Seq(Nat \ {0})] /\ todo'["h264"] # <<>>
        /\ \A u \in Threads \ {"h264"} : todo'[u] = todo[u]
    BY <1>1, <1>2, <2>2 DEF ReadNal, TypeOK
  <2>4. next' \in [Threads -> Nat \ {0}]
    BY <1>1, <1>2 DEF ReadNal, TypeOK
  <2>5. FilesHeld'
    BY <1>1, <1>2, HeldKept DEF ReadNal, Runs, Elsewhere
  <2> QED
    BY <1>1, <1>2, <2>3, <2>4, <2>5, ThreadInv DEF ReadNal, TypeOK
<1>3. CASE LastNalFails
  <2>1. FilesHeld'
    BY <1>1, <1>3, VideoLeft DEF LastNalFails, Runs, Elsewhere
  <2> QED
    BY <1>1, <1>3, <2>1, ThreadInv DEF LastNalFails, TypeOK
<1>4. CASE CloseVideo
  <2>1. FilesHeld' /\ openFiles' \in 0..Descriptors
    BY <1>1, <1>4, Closed DEF CloseVideo, Runs, Elsewhere
  <2> QED
    BY <1>1, <1>4, <2>1, ThreadInv DEF CloseVideo, TypeOK
<1> QED BY <1>2, <1>3, <1>4 DEF VideoStep

LEMMA AudioInv == ASSUME Inv, AudioStep PROVE Inv'
<1>1. TypeOK /\ (moved => HasCrc) /\ "aac" \in Threads
  BY DEF Inv, MovedByCrc, HasCrc, Threads
<1>2. CASE ReadFrame
  <2> DEFINE frame == AudioFile[next["aac"]]
  <2>1. next["aac"] \in DOMAIN AudioFile /\ frame \in Frame
    BY <1>1, <1>2, FilesAssumption DEF ReadFrame, TypeOK
  <2>2. frame.size + Framing \in Nat \ {0}
    BY <2>1 DEF Frame, Framing
  <2>3. /\ todo' \in [Threads -> Seq(Nat \ {0})] /\ todo'["aac"] = <<frame.size + Framing>>
        /\ \A u \in Threads \ {"aac"} : todo'[u] = todo[u]
    BY <1>1, <1>2, <2>2 DEF ReadFrame, TypeOK
  <2>4. todo'["aac"] # <<>>
    BY <2>3
  <2>5. next' \in [Threads -> Nat \ {0}]
    BY <1>1, <1>2 DEF ReadFrame, TypeOK
  <2>6. FilesHeld'
    BY <1>1, <1>2, HeldKept DEF ReadFrame, Runs, Elsewhere
  <2>7. moved' \in BOOLEAN /\ (moved' => HasCrc)
    BY <1>1, <1>2, <2>1 DEF ReadFrame, HasCrc, Frame, TypeOK
  <2> HIDE DEF frame
  <2> QED
    BY <1>1, <1>2, <2>3, <2>4, <2>5, <2>6, <2>7, ThreadInv DEF ReadFrame, TypeOK
<1>3. CASE CloseAudio
  <2>1. FilesHeld' /\ openFiles' \in 0..Descriptors
    BY <1>1, <1>3, Closed DEF CloseAudio, Runs, Elsewhere
  <2>2. phase' \in {phase, "dead"}
    BY <1>3 DEF CloseAudio
  <2> QED
    BY <1>1, <1>3, <2>1, <2>2, ThreadInv DEF CloseAudio, TypeOK
<1> QED BY <1>2, <1>3 DEF AudioStep

\* What send() puts fits, and announces the packet in its first unit only.
LEMMA UnitsPut ==
  ASSUME TypeOK, NEW t \in Threads, todo[t] # <<>>, NEW n \in Nat
  PROVE  /\ Head(todo[t]) \in Nat \ {0} /\ put[t] \in Nat /\ Len(unread) \in Nat
         /\ Units(t, n) \in Seq(Unit) /\ Len(Units(t, n)) = n
         /\ unread \o Units(t, n) \in Seq(Unit)
         /\ Len(unread \o Units(t, n)) = Len(unread) + n
         /\ \A i \in 1..n : Units(t, n)[i] =
              [by |-> t, length |-> IF put[t] + i = 1 THEN Head(todo[t]) ELSE 0]
<1> DEFINE unit(i) == [by |-> t, length |-> IF put[t] + i = 1 THEN Head(todo[t]) ELSE 0]
           units == [i \in 1..n |-> unit(i)]
<1>1. Head(todo[t]) \in Nat \ {0} /\ put[t] \in Nat /\ unread \in Seq(Unit)
  BY DEF TypeOK
<1>2. \A i \in 1..n : unit(i) \in Unit
  BY <1>1 DEF Unit
<1> HIDE DEF unit
<1>3. units \in Seq(Unit) /\ Len(units) = n /\ \A i \in 1..n : units[i] = unit(i)
  BY <1>2
<1> HIDE DEF units
<1>4. unread \o units \in Seq(Unit) /\ Len(unread \o units) = Len(unread) + n /\ Len(unread) \in Nat
  BY <1>1, <1>3
<1> QED
  BY <1>1, <1>3, <1>4 DEF Units, unit, units

LEMMA PutInv == ASSUME Inv, NEW t \in Threads, Put(t) PROVE Inv'
<1> DEFINE n == Smaller(Head(todo[t]) - put[t], Space - Len(unread))
<1>1. TypeOK /\ todo[t] # <<>> /\ n > 0 /\ Runs(t, "send")
  BY DEF Inv, Put, SendUpTo
<1>2. Head(todo[t]) \in Nat \ {0} /\ put[t] \in Nat /\ Len(unread) \in Nat /\ Space \in Nat
  BY <1>1, UnitsPut, SizesAssumption
<1>3. n \in Nat /\ n <= Space - Len(unread)
  BY <1>1, <1>2 DEF Smaller
<1>4. SendUpTo(t, n)
  BY DEF Put
<1> HIDE DEF n
<1>5. unread' \in Seq(Unit) /\ Len(unread') <= Space
  BY <1>1, <1>2, <1>3, <1>4, UnitsPut DEF SendUpTo
<1>6. /\ UNCHANGED <<phase, client, streams, next, moved, openFiles, sockErr, readerVars>>
      /\ waited' \in BOOLEAN
  BY <1>1, <1>4 DEF SendUpTo, TypeOK
<1>7. CASE PacketDone(t)
  <2>1. /\ todo' \in [Threads -> Seq(Nat \ {0})]
        /\ put' \in [Threads -> Nat]
        /\ pc' \in [Threads -> {"open", "read", "send", "returned"}]
        /\ IdleDone' /\ SendsPacket' /\ FilesHeld' /\ MovedByCrc'
    BY <1>1, <1>6, <1>7, PacketDoneInv
  <2>2. TypeOK'
    BY <1>1, <1>5, <1>6, <2>1 DEF TypeOK, readerVars
  <2> QED BY <2>1, <2>2 DEF Inv
<1>8. CASE put' = [put EXCEPT ![t] = @ + n] /\ UNCHANGED <<pc, todo>>
  <2>1. put' \in [Threads -> Nat]
    BY <1>1, <1>3, <1>8 DEF TypeOK
  <2>2. TypeOK'
    BY <1>1, <1>5, <1>6, <1>8, <2>1 DEF TypeOK, readerVars
  <2>3. IdleDone' /\ SendsPacket' /\ FilesHeld' /\ MovedByCrc'
    BY <1>6, <1>8 DEF Inv, IdleDone, SendsPacket, FilesHeld, MovedByCrc, HasCrc, Live, Unopened
  <2> QED BY <2>2, <2>3 DEF Inv
<1> QED BY <1>4, <1>7, <1>8 DEF SendUpTo

LEMMA SendInv == ASSUME Inv, NEW t \in Threads, SendStep(t) PROVE Inv'
<1>1. TypeOK /\ (moved => HasCrc)
  BY DEF Inv, MovedByCrc, HasCrc
<1>2. CASE PutShort(t)
  <2>1. /\ todo' \in [Threads -> Seq(Nat \ {0})]
        /\ put' \in [Threads -> Nat]
        /\ pc' \in [Threads -> {"open", "read", "send", "returned"}]
        /\ IdleDone' /\ SendsPacket' /\ FilesHeld' /\ MovedByCrc'
    BY <1>2, PacketDoneInv DEF PutShort, Elsewhere
  <2>2. TypeOK'
    BY <1>1, <1>2, <2>1 DEF TypeOK, PutShort, Elsewhere, readerVars
  <2> QED BY <2>1, <2>2 DEF Inv
<1>3. CASE SendFails(t)
  <2> DEFINE to == IF t = "h264" THEN "returned" ELSE "read"
  <2>1. Goto(t, to) /\ pc[t] = "send" /\ UNCHANGED <<openFiles, streams>>
    BY <1>3 DEF SendFails, Runs, Elsewhere
  <2>2. FilesHeld'
    <3>1. CASE t = "h264"
      BY <2>1, <3>1, VideoLeft
    <3>2. CASE t # "h264"
      BY <2>1, <3>2, HeldKept
    <3> QED BY <3>1, <3>2
  <2>3. todo' \in [Threads -> Seq(Nat \ {0})] /\ \A u \in Threads \ {t} : todo'[u] = todo[u]
    BY <1>1, <1>3, NoUnits DEF SendFails, TypeOK
  <2>4. to \in {"read", "send", "returned"} /\ to # "send"
    OBVIOUS
  <2> HIDE DEF to
  <2> QED
    BY <1>1, <1>3, <2>1, <2>2, <2>3, <2>4, ThreadInv DEF SendFails, TypeOK
<1>4. CASE Sigpipe(t)
  BY <1>4 DEF Sigpipe, Elsewhere, threadVars, readerVars, Runs, Inv, TypeOK, IdleDone,
              SendsPacket, FilesHeld, MovedByCrc, Live, Unopened
<1> QED BY <1>2, <1>3, <1>4, PutInv DEF SendStep

LEMMA ClientInv ==
  ASSUME Inv, Read \/ Stall \/ Resume \/ Leave
  PROVE  Inv'
<1>1. TypeOK
  BY DEF Inv
<1>2. UNCHANGED <<phase, streams, threadVars, waited>>
  BY DEF Read, Stall, Resume, Leave, ClientTurns
<1>3. client' \in {"reading", "stalled", "gone"} /\ sockErr' \in BOOLEAN
  BY <1>1 DEF Read, Stall, Resume, Leave, ClientTurns, TypeOK
<1>4. unread' \in Seq(Unit) /\ Len(unread') <= Space
  <2>1. CASE Read
    <3>1. unread # <<>> /\ unread' = Tail(unread)
      BY <2>1 DEF Read
    <3>2. Tail(unread) \in Seq(Unit) /\ Len(Tail(unread)) = Len(unread) - 1 /\ Len(unread) \in Nat
      BY <1>1, <3>1 DEF TypeOK
    <3> QED BY <1>1, <3>1, <3>2, SizesAssumption DEF TypeOK
  <2>2. CASE Stall \/ Resume
    BY <1>1, <2>2 DEF Stall, Resume, TypeOK
  <2>3. CASE Leave
    BY <2>3, NoUnits, SizesAssumption DEF Leave
  <2> QED BY <2>1, <2>2, <2>3
<1>5. expect' \in Nat /\ from' \in Threads /\ lost' \in BOOLEAN
  <2>1. CASE Read
    <3> DEFINE u == Head(unread)
    <3>1. u \in Unit
      BY <1>1, <2>1 DEF Read, TypeOK
    <3>2. u.by \in Threads /\ u.length \in Nat
      BY <3>1 DEF Unit
    <3> HIDE DEF u
    <3>3. \/ expect = 0 /\ expect' = (IF u.length = 0 THEN 0 ELSE u.length - 1) /\ from' = u.by
          \/ expect > 0 /\ expect' = expect - 1 /\ from' = from
      BY <2>1 DEF Read, u
    <3>4. expect' \in Nat /\ from' \in Threads
      BY <1>1, <3>2, <3>3 DEF TypeOK
    <3>5. lost' \in BOOLEAN
      BY <1>1, <2>1, Zenon DEF Read, TypeOK
    <3> QED BY <3>4, <3>5
  <2>2. CASE Stall \/ Resume \/ Leave
    BY <1>1, <2>2 DEF Stall, Resume, Leave, ClientTurns, readerVars, TypeOK
  <2> QED BY <2>1, <2>2
<1>6. TypeOK'
  BY <1>1, <1>2, <1>3, <1>4, <1>5 DEF TypeOK, threadVars
<1> QED
  BY <1>2, <1>6 DEF Inv, threadVars, IdleDone, SendsPacket, FilesHeld, MovedByCrc, HasCrc,
                    Live, Unopened

LEMMA NextInv == Inv /\ [Next]_vars => Inv'
<1> SUFFICES ASSUME Inv, [Next]_vars PROVE Inv'
  OBVIOUS
<1>1. CASE Start
  BY <1>1, StartInv
<1>2. CASE Join
  BY <1>2, JoinInv
<1>3. CASE \E t \in Threads : ThreadStep(t)
  BY <1>3, OpenInv, SendInv, VideoInv, AudioInv DEF ThreadStep
<1>4. CASE Read \/ Stall \/ Resume \/ Leave
  BY <1>4, ClientInv
<1>5. CASE UNCHANGED vars
  BY <1>5 DEF vars, threadVars, readerVars, Inv, TypeOK, IdleDone, SendsPacket, FilesHeld,
              MovedByCrc, HasCrc, Live, Unopened
<1> QED BY <1>1, <1>2, <1>3, <1>4, <1>5 DEF Next

\* The invariant above is all the files and the contract need.
LEMMA Invariant == Spec => []Inv
BY InitInv, NextInv, PTL DEF Spec

\* Type correctness of streams, descriptors among it: the process never closes
\* what it has not opened, nor opens what it does not have.
THEOREM StreamingTypeOK == Spec => []TypeOK
<1>1. Inv => TypeOK
  BY DEF Inv
<1> QED BY Invariant, <1>1, PTL

\* However many streams fail, and wherever, each leaves at most one file open.
THEOREM StreamingFilesAccounted == Spec => []FilesAccounted
<1>1. Inv => FilesAccounted
  <2> SUFFICES ASSUME Inv PROVE FilesAccounted
    OBVIOUS
  <2>1. streams \in Int /\ openFiles \in Int
    BY SizesAssumption DEF Inv, TypeOK
  <2>2. Unopened("h264") \in {0, 1} /\ Live("aac") \in {0, 1}
    BY DEF Unopened, Live
  <2>3. openFiles <= streams + Live("aac")
    BY <2>1, <2>2 DEF Inv, FilesHeld
  <2> QED BY <2>3 DEF FilesAccounted, Live
<1> QED BY Invariant, <1>1, PTL

-----------------------------------------------------------------------------
(* The contract, as far as safety goes *)

ContractStep == [Contract!Next]_<<phase, client>>

LEMMA StepIsContract == Inv /\ [Next]_vars => ContractStep
<1> SUFFICES ASSUME Inv, [Next]_vars PROVE ContractStep
  OBVIOUS
<1> USE DEF ContractStep
<1>1. TypeOK /\ (moved => HasCrc)
  BY DEF Inv, MovedByCrc
<1>2. CASE Start
  BY <1>2 DEF Start, Contract!Next, Contract!Start
<1>3. CASE Join
  BY <1>3 DEF Join, Contract!Next, Contract!End
<1>4. CASE \E t \in Threads : ThreadStep(t)
  <2> PICK t \in Threads : ThreadStep(t)
    BY <1>4
  <2>1. pc[t] # "returned" /\ phase # "dead"
    BY DEF ThreadStep, Open, Runs, SendStep, Put, SendUpTo, PutShort, SendFails, Sigpipe,
           VideoStep, ReadNal, LastNalFails, CloseVideo, AudioStep, ReadFrame, CloseAudio
  <2>2. phase = "streaming"
    BY <1>1, <2>1 DEF Inv, IdleDone, TypeOK
  <2>3. client' = client
    BY DEF ThreadStep, Open, SendStep, Put, SendUpTo, PutShort, SendFails, Sigpipe,
           VideoStep, ReadNal, LastNalFails, CloseVideo, AudioStep, ReadFrame, CloseAudio, Elsewhere
  <2>4. phase' = phase \/ (phase' = "dead" /\ (client = "gone" \/ HasCrc))
    <3>1. CASE Open(t)
      BY <3>1 DEF Open
    <3>2. CASE SendStep(t)
      BY <3>2 DEF SendStep, Put, SendUpTo, PutShort, SendFails, Sigpipe
    <3>3. CASE VideoStep
      BY <3>3 DEF VideoStep, ReadNal, LastNalFails, CloseVideo
    <3>4. CASE AudioStep
      BY <1>1, <3>4 DEF AudioStep, ReadFrame, CloseAudio
    <3> QED BY <3>1, <3>2, <3>3, <3>4 DEF ThreadStep
  <2> QED
    BY <2>2, <2>3, <2>4 DEF Contract!Next, Contract!Die, HasCrc
<1>5. CASE Read \/ Stall \/ Resume \/ Leave
  <2>1. phase' = phase
    BY <1>5 DEF Read, Stall, Resume, Leave, ClientTurns
  <2>2. CASE Read
    BY <2>1, <2>2 DEF Read
  <2>3. CASE Stall
    BY <2>1, <2>3 DEF Stall, ClientTurns, Contract!Next, Contract!Stall
  <2>4. CASE Resume
    BY <2>1, <2>4 DEF Resume, ClientTurns, Contract!Next, Contract!Resume
  <2>5. CASE Leave
    BY <2>1, <2>5 DEF Leave, ClientTurns, Contract!Next, Contract!Leave
  <2> QED BY <1>5, <2>2, <2>3, <2>4, <2>5
<1>6. CASE UNCHANGED vars
  BY <1>6 DEF vars
<1> QED BY <1>2, <1>3, <1>4, <1>5, <1>6 DEF Next

\* A stream steps as RtspServer assumes: it dies only of a client that left or a
\* bad audio file, and is over only when both threads are.  (That it ends is
\* left to the run.)
THEOREM StreamingKeepsContract == Spec => Contract!Init /\ [][Contract!Next]_<<phase, client>>
<1>1. Init => Contract!Init
  BY DEF Init, Contract!Init
<1> QED
  BY Invariant, StepIsContract, <1>1, PTL DEF Spec, ContractStep

-----------------------------------------------------------------------------
(* What is on the wire parses: before its unit i, left[i] units of the packet *)
(* of thread by[i] are still to come, and after its last unit none.           *)

Parses(units, left, by) ==
  /\ left[Len(units) + 1] = 0
  /\ \A i \in 1..Len(units) :
       \/ /\ left[i] = 0 /\ units[i].length > 0
          /\ left[i+1] = units[i].length - 1 /\ by[i+1] = units[i].by
       \/ /\ left[i] > 0 /\ units[i].length = 0 /\ units[i].by = by[i]
          /\ left[i+1] = left[i] - 1 /\ by[i+1] = by[i]

\* The same, for a client that expects e more units of a packet of thread f.
ParsesFor(units, e, f) ==
  \E left \in [1..(Len(units) + 1) -> Nat], by \in [1..(Len(units) + 1) -> Threads] :
     left[1] = e /\ by[1] = f /\ Parses(units, left, by)

LEMMA NothingParses == ASSUME NEW f \in Threads PROVE ParsesFor(<<>>, 0, f)
<1> DEFINE left == [i \in 1..1 |-> 0]
           by == [i \in 1..1 |-> f]
<1>1. Len(<<>>) = 0
  BY NoUnits
<1>2. left \in [1..1 -> Nat] /\ by \in [1..1 -> Threads] /\ left[1] = 0 /\ by[1] = f
  OBVIOUS
<1> HIDE DEF left, by
<1>3. Parses(<<>>, left, by)
  BY <1>1, <1>2 DEF Parses
<1> QED BY <1>1, <1>2, <1>3 DEF ParsesFor

\* The client takes the first unit for what it is.
LEMMA FirstUnit ==
  ASSUME NEW units \in Seq(Unit), units # <<>>, NEW e \in Nat, NEW f \in Threads,
         ParsesFor(units, e, f)
  PROVE  LET u == Head(units) IN
         \/ e = 0 /\ u.length > 0 /\ ParsesFor(Tail(units), u.length - 1, u.by)
         \/ e > 0 /\ u.length = 0 /\ u.by = f /\ ParsesFor(Tail(units), e - 1, f)
<1> DEFINE n == Len(units)
           u == Head(units)
           rest == Tail(units)
<1>1. PICK left \in [1..(n + 1) -> Nat], by \in [1..(n + 1) -> Threads] :
         left[1] = e /\ by[1] = f /\ Parses(units, left, by)
  BY DEF ParsesFor
<1>2. n \in Nat \ {0} /\ u = units[1]
  BY EmptySeq
<1>3. rest \in Seq(Unit) /\ Len(rest) = n - 1 /\ \A i \in 1..(n - 1) : rest[i] = units[i+1]
  BY <1>2
<1> DEFINE left2 == [i \in 1..n |-> left[i+1]]
           by2 == [i \in 1..n |-> by[i+1]]
<1>4. /\ left2 \in [1..n -> Nat] /\ by2 \in [1..n -> Threads]
      /\ \A i \in 1..n : left2[i] = left[i+1] /\ by2[i] = by[i+1]
  BY <1>2
<1> HIDE DEF n, left2, by2, rest, u
<1>5. Parses(rest, left2, by2)
  <2>1. left2[Len(rest) + 1] = 0
    BY <1>1, <1>2, <1>3, <1>4 DEF Parses, n
  <2>2. ASSUME NEW i \in 1..Len(rest)
        PROVE  \/ /\ left2[i] = 0 /\ rest[i].length > 0
                  /\ left2[i+1] = rest[i].length - 1 /\ by2[i+1] = rest[i].by
               \/ /\ left2[i] > 0 /\ rest[i].length = 0 /\ rest[i].by = by2[i]
                  /\ left2[i+1] = left2[i] - 1 /\ by2[i+1] = by2[i]
    <3>1. i \in 1..(n-1) /\ i + 1 \in 1..n /\ i \in 1..n
      BY <1>2, <1>3
    <3>2. /\ left2[i] = left[i+1] /\ by2[i] = by[i+1] /\ rest[i] = units[i+1]
          /\ left2[i+1] = left[i+1+1] /\ by2[i+1] = by[i+1+1]
      BY <1>3, <1>4, <3>1
    <3>3. \/ /\ left[i+1] = 0 /\ units[i+1].length > 0
             /\ left[i+1+1] = units[i+1].length - 1 /\ by[i+1+1] = units[i+1].by
          \/ /\ left[i+1] > 0 /\ units[i+1].length = 0 /\ units[i+1].by = by[i+1]
             /\ left[i+1+1] = left[i+1] - 1 /\ by[i+1+1] = by[i+1]
      BY <1>1, <3>1 DEF Parses, n
    <3> QED BY <3>2, <3>3
  <2> QED BY <2>1, <2>2 DEF Parses
<1>6. \/ e = 0 /\ u.length > 0 /\ left2[1] = u.length - 1 /\ by2[1] = u.by
      \/ e > 0 /\ u.length = 0 /\ u.by = f /\ left2[1] = e - 1 /\ by2[1] = f
  <2>1. 1 \in 1..n /\ left2[1] = left[1+1] /\ by2[1] = by[1+1]
    BY <1>2, <1>4
  <2>2. \/ left[1] = 0 /\ u.length > 0 /\ left[1+1] = u.length - 1 /\ by[1+1] = u.by
        \/ left[1] > 0 /\ u.length = 0 /\ u.by = by[1] /\ left[1+1] = left[1] - 1 /\ by[1+1] = by[1]
    BY <1>1, <1>2, <2>1 DEF Parses, n
  <2> QED BY <1>1, <2>1, <2>2
<1>7. ParsesFor(rest, left2[1], by2[1])
  <2>1. 1..(Len(rest) + 1) = 1..n
    BY <1>2, <1>3
  <2> QED BY <1>4, <1>5, <2>1 DEF ParsesFor
<1> QED BY <1>6, <1>7 DEF u, rest

\* A packet put in one piece after what parses.
LEMMA WholePacket ==
  ASSUME NEW units \in Seq(Unit), NEW packet \in Seq(Unit), NEW t \in Threads,
         NEW e, NEW f, ParsesFor(units, e, f),
         Len(packet) > 0,
         \A i \in 1..Len(packet) :
            packet[i] = [by |-> t, length |-> IF i = 1 THEN Len(packet) ELSE 0]
  PROVE  ParsesFor(units \o packet, e, f)
<1> DEFINE n == Len(units)
           k == Len(packet)
           all == units \o packet
<1>1. PICK left \in [1..(n + 1) -> Nat], by \in [1..(n + 1) -> Threads] :
         left[1] = e /\ by[1] = f /\ Parses(units, left, by)
  BY DEF ParsesFor
<1>2. n \in Nat /\ k \in Nat \ {0}
  OBVIOUS
<1>3. /\ all \in Seq(Unit) /\ Len(all) = n + k
      /\ \A i \in 1..n : all[i] = units[i]
      /\ \A i \in (n+1)..(n+k) : all[i] = packet[i - n]
  BY <1>2, ConcatProperties
<1>4. ASSUME NEW i \in (n+1)..(n+k)
      PROVE  all[i].by = t /\ all[i].length = IF i = n + 1 THEN k ELSE 0
  <2> HIDE DEF n, k, all
  <2>1. i - n \in 1..k /\ (i - n = 1 <=> i = n + 1)
    BY <1>2
  <2>2. packet[i - n] = [by |-> t, length |-> IF i - n = 1 THEN k ELSE 0]
    BY <2>1 DEF k
  <2> QED BY <1>3, <2>1, <2>2
<1> DEFINE left2 == [i \in 1..(n+k+1) |-> IF i <= n + 1 THEN left[i] ELSE n + k + 1 - i]
           by2 == [i \in 1..(n+k+1) |-> IF i <= n + 1 THEN by[i] ELSE t]
<1>5. /\ left2 \in [1..(n+k+1) -> Nat] /\ by2 \in [1..(n+k+1) -> Threads]
      /\ \A i \in 1..(n+k+1) : /\ left2[i] = IF i <= n + 1 THEN left[i] ELSE n + k + 1 - i
                               /\ by2[i] = IF i <= n + 1 THEN by[i] ELSE t
  BY <1>2
<1> HIDE DEF left2, by2, all, n, k
<1>6. left[n+1] = 0
  BY <1>1 DEF Parses, n
<1>7. Parses(all, left2, by2)
  <2>1. left2[Len(all) + 1] = 0
    BY <1>2, <1>3, <1>5
  <2>2. ASSUME NEW i \in 1..Len(all)
        PROVE  \/ /\ left2[i] = 0 /\ all[i].length > 0
                  /\ left2[i+1] = all[i].length - 1 /\ by2[i+1] = all[i].by
               \/ /\ left2[i] > 0 /\ all[i].length = 0 /\ all[i].by = by2[i]
                  /\ left2[i+1] = left2[i] - 1 /\ by2[i+1] = by2[i]
    <3>1. i \in 1..(n+k) /\ i \in 1..(n+k+1) /\ i + 1 \in 1..(n+k+1)
      BY <1>2, <1>3
    <3>2. CASE i <= n
      <4>0. i \in 1..n
        BY <1>2, <3>1, <3>2
      <4>1. i \in 1..n /\ all[i] = units[i]
        BY <1>3, <4>0, Zenon
      <4>2. left2[i] = left[i] /\ by2[i] = by[i] /\ left2[i+1] = left[i+1] /\ by2[i+1] = by[i+1]
        BY <1>2, <1>5, <3>1, <3>2
      <4> QED BY <1>1, <4>1, <4>2 DEF Parses, n
    <3>3. CASE i = n + 1
      <4>1. left2[i] = 0 /\ left2[i+1] = k - 1 /\ by2[i+1] = t
        BY <1>2, <1>5, <1>6, <3>1, <3>3
      <4>2. all[i].by = t /\ all[i].length = k
        BY <1>2, <1>4, <3>3
      <4> QED BY <1>2, <4>1, <4>2
    <3>4. CASE i > n + 1
      <4>0. ~(i <= n + 1) /\ ~(i + 1 <= n + 1)
        BY <1>2, <3>1, <3>4
      <4>1. /\ left2[i] = n + k + 1 - i /\ left2[i+1] = n + k + 1 - (i + 1)
            /\ by2[i] = t /\ by2[i+1] = t
        BY <1>5, <3>1, <4>0, Zenon
      <4>2. all[i].by = t /\ all[i].length = 0
        BY <1>2, <1>4, <3>1, <3>4
      <4> QED BY <1>2, <3>1, <4>1, <4>2
    <3> QED BY <1>2, <3>1, <3>2, <3>3, <3>4
  <2> QED BY <2>1, <2>2 DEF Parses
<1>8. left2[1] = e /\ by2[1] = f
  BY <1>1, <1>2, <1>5
<1>9. 1..(Len(all) + 1) = 1..(n+k+1)
  BY <1>2, <1>3
<1> QED BY <1>5, <1>7, <1>8, <1>9 DEF ParsesFor, all

\* As long as no send() had to wait with its packet partly put, the client is
\* in step with what is on the wire.
InStep ==
  ~waited =>
     /\ ~lost
     /\ \A t \in Threads : put[t] = 0
     /\ client # "gone" => ParsesFor(unread, expect, from)

LEMMA PutInStep == ASSUME Inv, InStep, NEW t \in Threads, Put(t) PROVE InStep'
<1> SUFFICES ASSUME ~waited' PROVE InStep'
  BY DEF InStep
<1> DEFINE n == Smaller(Head(todo[t]) - put[t], Space - Len(unread))
<1>1. TypeOK /\ todo[t] # <<>> /\ n > 0 /\ client # "gone" /\ SendUpTo(t, n)
  BY DEF Inv, Put, SendUpTo
<1>2. ~waited
  BY <1>1 DEF SendUpTo
<1>3. put[t] = 0 /\ ~lost /\ ParsesFor(unread, expect, from)
  BY <1>1, <1>2 DEF InStep
<1>4. Head(todo[t]) \in Nat \ {0} /\ Len(unread) \in Nat /\ Space \in Nat
  BY <1>1, UnitsPut, SizesAssumption
<1>5. n = Head(todo[t]) /\ PacketDone(t)
  <2>1. n = Head(todo[t]) \/ Len(unread) + n = Space
    BY <1>3, <1>4 DEF Smaller
  <2>2. n \in Nat
    BY <1>1, <1>3, <1>4 DEF Smaller
  <2> HIDE DEF n
  <2>3. CASE put[t] + n = Head(todo[t]) /\ PacketDone(t)
    BY <2>2, <2>3, <1>3, <1>4
  <2>4. CASE put[t] + n < Head(todo[t]) /\ waited' = (waited \/ Len(unread) + n = Space)
    <3>1. Len(unread) + n # Space
      BY <2>4, Zenon
    <3> QED BY <2>1, <2>2, <2>4, <3>1, <1>3, <1>4
  <2> QED BY <1>1, <2>3, <2>4 DEF SendUpTo
<1>6. /\ Units(t, n) \in Seq(Unit) /\ Len(Units(t, n)) = n
      /\ \A i \in 1..n : Units(t, n)[i] = [by |-> t, length |-> IF i = 1 THEN n ELSE 0]
  <2> HIDE DEF n
  <2>1. n \in Nat
    BY <1>4, <1>5
  <2>2. /\ Units(t, n) \in Seq(Unit) /\ Len(Units(t, n)) = n
        /\ \A i \in 1..n : Units(t, n)[i] =
             [by |-> t, length |-> IF put[t] + i = 1 THEN Head(todo[t]) ELSE 0]
    BY <1>1, <2>1, UnitsPut
  <2> QED BY <2>1, <2>2, <1>3, <1>5
<1> HIDE DEF n
<1>7. ParsesFor(unread \o Units(t, n), expect, from)
  BY <1>1, <1>3, <1>6, WholePacket DEF TypeOK
<1>8. /\ unread' = unread \o Units(t, n)
      /\ expect' = expect /\ from' = from /\ lost' = lost /\ client' = client
  BY <1>1 DEF SendUpTo, readerVars
<1>9. ParsesFor(unread', expect', from')
  BY <1>7, <1>8
<1>10. \A u \in Threads : put'[u] = 0
  BY <1>1, <1>2, <1>5 DEF PacketDone, InStep, TypeOK
<1> QED BY <1>3, <1>8, <1>9, <1>10 DEF InStep

LEMMA ReadInStep == ASSUME Inv, InStep, Read PROVE InStep'
<1> SUFFICES ASSUME ~waited' PROVE InStep'
  BY DEF InStep
<1> DEFINE u == Head(unread)
<1>1. TypeOK /\ ~waited /\ client = "reading" /\ client' = client /\ put' = put
  BY DEF Inv, Read, threadVars
<1>2. ~lost /\ ParsesFor(unread, expect, from) /\ \A t \in Threads : put[t] = 0
  BY <1>1 DEF InStep
<1>3. unread \in Seq(Unit) /\ unread # <<>> /\ expect \in Nat /\ from \in Threads
  BY <1>1 DEF TypeOK, Read
<1>4. u \in Unit
  BY <1>3
<1>5. u.length \in Nat
  BY <1>4 DEF Unit
<1>6. \/ expect = 0 /\ u.length > 0 /\ ParsesFor(Tail(unread), u.length - 1, u.by)
      \/ expect > 0 /\ u.length = 0 /\ u.by = from /\ ParsesFor(Tail(unread), expect - 1, from)
  BY <1>2, <1>3, FirstUnit
<1>7. /\ unread' = Tail(unread)
      /\ \/ /\ expect = 0 /\ lost' = (lost \/ u.length = 0)
            /\ expect' = (IF u.length = 0 THEN 0 ELSE u.length - 1) /\ from' = u.by
         \/ /\ expect > 0 /\ lost' = (lost \/ u.length > 0 \/ u.by # from)
            /\ expect' = expect - 1 /\ from' = from
  BY DEF Read
<1> HIDE DEF u
<1>8. ~lost' /\ ParsesFor(unread', expect', from')
  <2>1. CASE expect = 0
    <3>1. u.length # 0 /\ ~(u.length = 0) /\ ParsesFor(Tail(unread), u.length - 1, u.by)
      BY <1>5, <1>6, <2>1
    <3>2. lost' = (lost \/ u.length = 0) /\ expect' = u.length - 1 /\ from' = u.by
      BY <1>7, <2>1, <3>1
    <3> QED BY <1>2, <1>7, <3>1, <3>2, Zenon
  <2>2. CASE expect > 0
    <3>1. ~(u.length > 0) /\ ~(u.by # from) /\ ParsesFor(Tail(unread), expect - 1, from)
      BY <1>5, <1>6, <2>2
    <3>2. lost' = (lost \/ u.length > 0 \/ u.by # from) /\ expect' = expect - 1 /\ from' = from
      BY <1>7, <2>2
    <3> QED BY <1>2, <1>7, <3>1, <3>2, Zenon
  <2> QED BY <1>3, <2>1, <2>2
<1> QED BY <1>1, <1>2, <1>8 DEF InStep

LEMMA NextInStep == Inv /\ InStep /\ [Next]_vars => InStep'
<1> SUFFICES ASSUME Inv, InStep, [Next]_vars PROVE InStep'
  OBVIOUS
<1>1. TypeOK
  BY DEF Inv
<1>2. CASE Start
  <2>1. ParsesFor(<<>>, 0, from)
    BY <1>1, NothingParses DEF TypeOK
  <2>2. unread' = <<>> /\ expect' = 0 /\ from' = from /\ lost' = FALSE
        /\ \A t \in Threads : put'[t] = 0
    BY <1>2 DEF Start
  <2>3. ParsesFor(unread', expect', from')
    BY <2>1, <2>2
  <2> QED BY <2>2, <2>3 DEF InStep
<1>3. CASE \E t \in Threads : Put(t)
  BY <1>3, PutInStep
<1>4. CASE Read
  BY <1>4, ReadInStep
<1>5. CASE Leave
  BY <1>5 DEF Leave, ClientTurns, threadVars, readerVars, InStep
<1>6. CASE Stall \/ Resume
  <2>1. UNCHANGED <<threadVars, readerVars, waited, unread>> /\ client # "gone"
    BY <1>6 DEF Stall, Resume, ClientTurns
  <2> QED BY <2>1 DEF InStep, threadVars, readerVars
<1>7. CASE \E t \in Threads : PutShort(t)
  <2> PICK t \in Threads : PutShort(t)
    BY <1>7
  <2>1. UNCHANGED <<client, unread, readerVars, waited>> /\ put' = [put EXCEPT ![t] = 0]
    BY DEF PutShort, PacketDone, Elsewhere
  <2> QED BY <1>1, <2>1 DEF InStep, readerVars, TypeOK
<1>8. CASE /\ UNCHANGED <<client, unread, readerVars, waited>>
           /\ UNCHANGED put
  BY <1>8 DEF InStep, readerVars
<1>9. CASE Join \/ UNCHANGED vars
  BY <1>8, <1>9 DEF Join, vars, threadVars
<1>10. CASE \E t \in Threads : Open(t) \/ SendFails(t) \/ Sigpipe(t)
  BY <1>8, <1>10 DEF Open, SendFails, Sigpipe, Elsewhere, threadVars
<1>11. CASE VideoStep \/ AudioStep
  BY <1>8, <1>11 DEF VideoStep, ReadNal, LastNalFails, CloseVideo, AudioStep, ReadFrame, CloseAudio,
                    Elsewhere
<1> QED
  BY <1>2, <1>3, <1>4, <1>5, <1>6, <1>7, <1>9, <1>10, <1>11 DEF Next, ThreadStep, SendStep

\* Two threads that share a socket without a lock do not mix their packets,
\* whatever the files, unless a packet does not fit into what the socket has
\* left when its send() begins.
THEOREM StreamingFramesWhole == Spec => []FramesWhole
<1>1. Init => InStep
  <2> SUFFICES ASSUME Init PROVE InStep
    OBVIOUS
  <2>1. ParsesFor(<<>>, 0, from)
    BY NothingParses DEF Init, Threads
  <2>2. ParsesFor(unread, expect, from)
    BY <2>1 DEF Init
  <2> QED BY <2>2 DEF Init, InStep
<1>2. InStep /\ TypeOK => FramesWhole
  BY DEF InStep, FramesWhole, TypeOK
<1> QED
  BY Invariant, StreamingTypeOK, NextInStep, <1>1, <1>2, PTL DEF Spec
=============================================================================
