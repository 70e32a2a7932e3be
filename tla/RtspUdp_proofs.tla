---------------------------- MODULE RtspUdp_proofs ----------------------------
(***************************************************************************)
(* SETUP over UDP, for any number of handlers, threads, connections, ports *)
(* and descriptors: it uses PortManager as PortManager's specification     *)
(* says, so that what is proved of that holds of it; and the tables of     *)
(* sessions tell the truth about the ports.                                *)
(***************************************************************************)
EXTENDS RtspUdp, TLAPS

-----------------------------------------------------------------------------
(* PortManager: no two sessions share a port, and no probe is in the way of a *)
(* bind, for any number of threads, ports and descriptors                     *)

\* The mutex is held from the first draw to the record.
Exclusive == \A c \in Callers : pc[c] \in Searching => mutex = c

\* A port found available stays unallocated while its finder looks on.
StillFree ==
  \A c \in Callers :
    /\ pc[c] \in {"probed", "record"} => Port(c) \notin allocated
    /\ pc[c] \in {"probe", "probed", "record"} /\ half[c] = 1 => rtpPort[c] \notin allocated
    /\ pc[c] = "record" => half[c] = 1

\* What was recorded is allocated, for one thread only.
OwnPair ==
  \A c \in Callers : pc[c] \in Recorded =>
    /\ {rtpPort[c], rtpPort[c] + 1} \subseteq allocated
    /\ \A d \in Callers : pc[d] \in Recorded /\ rtpPort[d] = rtpPort[c] => d = c

\* Sockets are bound to one's own ports.
BoundOwn ==
  \A c \in Callers :
    bound[c] \subseteq (IF pc[c] \in Recorded THEN {rtpPort[c], rtpPort[c] + 1} ELSE {})

\* The socket of a probe is one of those in use.
ProbeCounted == \A c \in Callers : pc[c] = "probed" => sockets > 0

Inv == TypeOK /\ Exclusive /\ StillFree /\ OwnPair /\ BoundOwn /\ ProbeCounted

-----------------------------------------------------------------------------
LEMMA EvenPorts == \A p \in Even : p \in Ports /\ p + 1 \in Ports /\ p \in Nat /\ p % 2 = 0
BY PortsAssumption DEF Ports

LEMMA InitInv == Init => Inv
<1> SUFFICES ASSUME Init PROVE Inv
  OBVIOUS
<1>1. rtpPort \in [Callers -> Even]
  BY DEF Init
<1>2. sockets \in 0..Descriptors
  BY DescriptorsAssumption DEF Init
<1>3. foreign \in [Ports -> {"none", "shares", "alone"}] /\ half \in [Callers -> {0, 1}]
  BY DEF Init
<1>4. bound \in [Callers -> SUBSET Ports] /\ pc \in [Callers -> {"idle"}]
  BY DEF Init
<1>5. TypeOK
  BY <1>1, <1>2, <1>3, <1>4 DEF Init, TypeOK
<1> QED
  BY <1>5 DEF Init, Inv, Exclusive, StillFree, OwnPair, BoundOwn, ProbeCounted, Searching, Recorded

\* What holds of thread c after one of its steps to a label, when no other
\* thread is touched.
LEMMA Labels ==
  ASSUME TypeOK, NEW c \in Callers, NEW label, Goto(c, label)
  PROVE  pc'[c] = label /\ \A d \in Callers \ {c} : pc'[d] = pc[d]
BY DEF TypeOK, Goto

LEMMA TypeNext == Inv /\ [Next]_vars => TypeOK'
<1> SUFFICES ASSUME Inv, [Next]_vars PROVE TypeOK'
  OBVIOUS
<1>0. TypeOK /\ ProbeCounted
  BY DEF Inv
<1> USE DEF TypeOK, Goto, At, Searching, Recorded
<1>1. ASSUME NEW c \in Callers, Call(c) \/ Lock(c) \/ NotAvailable(c) \/ ProbeThrows(c)
      PROVE  TypeOK'
  BY <1>0, <1>1 DEF Call, Lock, NotAvailable, ProbeThrows
<1>2. ASSUME NEW c \in Callers, NEW p \in Even, Draw(c, p)
      PROVE  TypeOK'
  BY <1>0, <1>2 DEF Draw
<1>3. ASSUME NEW c \in Callers, Probe(c)
      PROVE  TypeOK'
  <2>1. sockets' \in 0..Descriptors
    BY <1>0, <1>3, DescriptorsAssumption DEF Probe
  <2> QED BY <1>0, <1>3, <2>1 DEF Probe
<1>4. ASSUME NEW c \in Callers, ProbeCloses(c)
      PROVE  TypeOK'
  <2>1. sockets' \in 0..Descriptors
    BY <1>0, <1>4, DescriptorsAssumption DEF ProbeCloses, ProbeCounted
  <2> QED BY <1>0, <1>4, <2>1 DEF ProbeCloses
<1>5. ASSUME NEW c \in Callers, Record(c)
      PROVE  TypeOK'
  <2>1. allocated' \subseteq Ports
    BY <1>0, <1>5, EvenPorts DEF Record
  <2> QED BY <1>0, <1>5, <2>1 DEF Record
<1>6. ASSUME NEW c \in Callers, CreateSockets(c)
      PROVE  TypeOK'
  <2>1. sockets' \in 0..Descriptors
    BY <1>0, <1>6, DescriptorsAssumption DEF CreateSockets
  <2> QED BY <1>0, <1>6, <2>1 DEF CreateSockets
<1>7. ASSUME NEW c \in Callers, Bind(c)
      PROVE  TypeOK'
  <2>1. Port(c) \in Ports
    BY <1>0, EvenPorts DEF Port
  <2>2. bound' \in [Callers -> SUBSET Ports]
    BY <1>0, <1>7, <2>1 DEF Bind
  <2> QED BY <1>0, <1>7, <2>2 DEF Bind
<1>8. ASSUME NEW c \in Callers, BindFails(c)
      PROVE  TypeOK'
  BY <1>0, <1>8 DEF BindFails
<1>9. ASSUME NEW port \in Contested, ForeignBind(port) \/ ForeignClose(port)
      PROVE  TypeOK'
  BY <1>0, <1>9 DEF ForeignBind, ForeignClose
<1>10. CASE ProcessEnds \/ UNCHANGED vars
  BY <1>0, <1>10 DEF ProcessEnds, vars
<1> QED
  BY <1>1, <1>2, <1>3, <1>4, <1>5, <1>6, <1>7, <1>8, <1>9, <1>10 DEF Next, GeneratePorts, Setup

\* The steps after which another thread's ports, or the allocated ones, differ
\* are those of the holder of the mutex.
LEMMA ExclusiveNext == Inv /\ [Next]_vars => Exclusive'
<1> SUFFICES ASSUME Inv, [Next]_vars PROVE Exclusive'
  OBVIOUS
<1>0. TypeOK /\ Exclusive
  BY DEF Inv
<1> USE DEF TypeOK, Goto, At, Searching, Exclusive
<1>1. ASSUME NEW c \in Callers, Lock(c)
      PROVE  Exclusive'
  BY <1>0, <1>1, NoneAssumption DEF Lock
<1>2. ASSUME NEW c \in Callers, NEW p \in Even, Draw(c, p)
      PROVE  Exclusive'
  BY <1>0, <1>2 DEF Draw
<1>3. ASSUME NEW c \in Callers,
             Call(c) \/ NotAvailable(c) \/ ProbeThrows(c) \/ Probe(c) \/ ProbeCloses(c)
      PROVE  Exclusive'
  BY <1>0, <1>3 DEF Call, NotAvailable, ProbeThrows, Probe, ProbeCloses
<1>4. ASSUME NEW c \in Callers, Record(c)
      PROVE  Exclusive'
  BY <1>0, <1>4, NoneAssumption DEF Record
<1>5. ASSUME NEW c \in Callers, CreateSockets(c) \/ Bind(c) \/ BindFails(c)
      PROVE  Exclusive'
  BY <1>0, <1>5 DEF CreateSockets, Bind, BindFails
<1>6. ASSUME NEW port \in Contested, ForeignBind(port) \/ ForeignClose(port)
      PROVE  Exclusive'
  BY <1>0, <1>6 DEF ForeignBind, ForeignClose
<1>7. CASE ProcessEnds \/ UNCHANGED vars
  BY <1>0, <1>7 DEF ProcessEnds, vars
<1> QED
  BY <1>1, <1>2, <1>3, <1>4, <1>5, <1>6, <1>7 DEF Next, GeneratePorts, Setup

LEMMA StillFreeNext == Inv /\ [Next]_vars => StillFree'
<1> SUFFICES ASSUME Inv, [Next]_vars PROVE StillFree'
  OBVIOUS
<1>0. TypeOK /\ Exclusive /\ StillFree
  BY DEF Inv
<1> USE DEF TypeOK, Goto, At, Searching, StillFree, Port
<1>1. ASSUME NEW c \in Callers, Call(c) \/ Lock(c) \/ NotAvailable(c) \/ ProbeThrows(c)
      PROVE  StillFree'
  BY <1>0, <1>1 DEF Call, Lock, NotAvailable, ProbeThrows
<1>2. ASSUME NEW c \in Callers, NEW p \in Even, Draw(c, p)
      PROVE  StillFree'
  BY <1>0, <1>2 DEF Draw
<1>3. ASSUME NEW c \in Callers, Probe(c)
      PROVE  StillFree'
  BY <1>0, <1>3 DEF Probe
<1>4. ASSUME NEW c \in Callers, ProbeCloses(c)
      PROVE  StillFree'
  <2>1. half[c] = 0 => rtpPort[c] \notin allocated
    BY <1>0, <1>4, EvenPorts DEF ProbeCloses
  <2> QED BY <1>0, <1>4, <2>1 DEF ProbeCloses
<1>5. ASSUME NEW c \in Callers, Record(c)
      PROVE  StillFree'
  <2>1. \A d \in Callers : pc'[d] \notin Searching
    BY <1>0, <1>5 DEF Record, Exclusive
  <2> QED BY <2>1
<1>6. ASSUME NEW c \in Callers, CreateSockets(c) \/ Bind(c) \/ BindFails(c)
      PROVE  StillFree'
  BY <1>0, <1>6 DEF CreateSockets, Bind, BindFails
<1>7. ASSUME NEW port \in Contested, ForeignBind(port) \/ ForeignClose(port)
      PROVE  StillFree'
  BY <1>0, <1>7 DEF ForeignBind, ForeignClose
<1>8. CASE ProcessEnds \/ UNCHANGED vars
  BY <1>0, <1>8 DEF ProcessEnds, vars
<1> QED
  BY <1>1, <1>2, <1>3, <1>4, <1>5, <1>6, <1>7, <1>8 DEF Next, GeneratePorts, Setup

LEMMA OwnPairNext == Inv /\ [Next]_vars => OwnPair'
<1> SUFFICES ASSUME Inv, [Next]_vars PROVE OwnPair'
  OBVIOUS
<1>0. TypeOK /\ StillFree /\ OwnPair
  BY DEF Inv
<1> USE DEF TypeOK, Goto, At, Recorded, OwnPair
<1>1. ASSUME NEW c \in Callers,
             \/ Call(c) \/ Lock(c) \/ NotAvailable(c) \/ ProbeThrows(c) \/ Probe(c)
             \/ ProbeCloses(c)
      PROVE  OwnPair'
  BY <1>0, <1>1 DEF Call, Lock, NotAvailable, ProbeThrows, Probe, ProbeCloses
<1>2. ASSUME NEW c \in Callers, NEW p \in Even, Draw(c, p)
      PROVE  OwnPair'
  BY <1>0, <1>2 DEF Draw
<1>3. ASSUME NEW c \in Callers, Record(c)
      PROVE  OwnPair'
  <2>1. rtpPort[c] \notin allocated
    BY <1>0, <1>3 DEF Record, StillFree
  <2>2. \A d \in Callers : pc[d] \in Recorded => rtpPort[d] # rtpPort[c]
    BY <1>0, <2>1
  <2>3. /\ rtpPort' = rtpPort /\ allocated' = allocated \cup {rtpPort[c], rtpPort[c] + 1}
        /\ pc'[c] = "sockets" /\ \A d \in Callers \ {c} : pc'[d] = pc[d]
    BY <1>0, <1>3 DEF Record
  <2> QED BY <1>0, <2>2, <2>3
<1>4. ASSUME NEW c \in Callers, CreateSockets(c) \/ Bind(c) \/ BindFails(c)
      PROVE  OwnPair'
  <2>1. /\ pc[c] \in Recorded /\ pc'[c] \in Recorded
        /\ \A d \in Callers \ {c} : pc'[d] = pc[d]
        /\ rtpPort' = rtpPort /\ allocated' = allocated
    BY <1>0, <1>4 DEF CreateSockets, Bind, BindFails
  <2> QED BY <1>0, <2>1
<1>5. ASSUME NEW port \in Contested, ForeignBind(port) \/ ForeignClose(port)
      PROVE  OwnPair'
  BY <1>0, <1>5 DEF ForeignBind, ForeignClose
<1>6. CASE ProcessEnds \/ UNCHANGED vars
  BY <1>0, <1>6 DEF ProcessEnds, vars
<1> QED
  BY <1>1, <1>2, <1>3, <1>4, <1>5, <1>6 DEF Next, GeneratePorts, Setup

LEMMA BoundOwnNext == Inv /\ [Next]_vars => BoundOwn'
<1> SUFFICES ASSUME Inv, [Next]_vars PROVE BoundOwn'
  OBVIOUS
<1>0. TypeOK /\ BoundOwn
  BY DEF Inv
<1> USE DEF TypeOK, Goto, At, Recorded, BoundOwn
<1>1. ASSUME NEW c \in Callers,
             \/ Call(c) \/ Lock(c) \/ NotAvailable(c) \/ ProbeThrows(c) \/ Probe(c)
             \/ ProbeCloses(c)
      PROVE  BoundOwn'
  BY <1>0, <1>1 DEF Call, Lock, NotAvailable, ProbeThrows, Probe, ProbeCloses
<1>2. ASSUME NEW c \in Callers, NEW p \in Even, Draw(c, p)
      PROVE  BoundOwn'
  BY <1>0, <1>2 DEF Draw
<1>3. ASSUME NEW c \in Callers, Record(c) \/ CreateSockets(c) \/ BindFails(c)
      PROVE  BoundOwn'
  BY <1>0, <1>3 DEF Record, CreateSockets, BindFails
<1>4. ASSUME NEW c \in Callers, Bind(c)
      PROVE  BoundOwn'
  <2>1. Port(c) \in {rtpPort[c], rtpPort[c] + 1}
    BY <1>0, EvenPorts DEF Port
  <2>2. /\ pc[c] \in Recorded /\ pc'[c] \in Recorded /\ rtpPort' = rtpPort
        /\ \A d \in Callers \ {c} : pc'[d] = pc[d] /\ bound'[d] = bound[d]
        /\ bound'[c] = bound[c] \cup {Port(c)}
    BY <1>0, <1>4 DEF Bind
  <2> QED BY <1>0, <2>1, <2>2
<1>5. ASSUME NEW port \in Contested, ForeignBind(port) \/ ForeignClose(port)
      PROVE  BoundOwn'
  BY <1>0, <1>5 DEF ForeignBind, ForeignClose
<1>6. CASE ProcessEnds \/ UNCHANGED vars
  BY <1>0, <1>6 DEF ProcessEnds, vars
<1> QED
  BY <1>1, <1>2, <1>3, <1>4, <1>5, <1>6 DEF Next, GeneratePorts, Setup

LEMMA ProbeCountedNext == Inv /\ [Next]_vars => ProbeCounted'
<1> SUFFICES ASSUME Inv, [Next]_vars PROVE ProbeCounted'
  OBVIOUS
<1>0. TypeOK /\ Exclusive /\ ProbeCounted
  BY DEF Inv
<1> USE DEF TypeOK, Goto, At, ProbeCounted
<1>1. ASSUME NEW c \in Callers,
             \/ Call(c) \/ Lock(c) \/ NotAvailable(c) \/ ProbeThrows(c) \/ Record(c)
             \/ Bind(c) \/ BindFails(c)
      PROVE  ProbeCounted'
  BY <1>0, <1>1 DEF Call, Lock, NotAvailable, ProbeThrows, Record, Bind, BindFails
<1>2. ASSUME NEW c \in Callers, NEW p \in Even, Draw(c, p)
      PROVE  ProbeCounted'
  BY <1>0, <1>2 DEF Draw
<1>3. ASSUME NEW c \in Callers, Probe(c) \/ CreateSockets(c)
      PROVE  ProbeCounted'
  BY <1>0, <1>3, DescriptorsAssumption DEF Probe, CreateSockets
<1>4. ASSUME NEW c \in Callers, ProbeCloses(c)
      PROVE  ProbeCounted'
  <2>1. \A d \in Callers \ {c} : pc'[d] = pc[d] /\ pc[d] # "probed"
    BY <1>0, <1>4 DEF ProbeCloses, Exclusive, Searching
  <2>2. pc'[c] # "probed"
    BY <1>0, <1>4 DEF ProbeCloses
  <2> QED BY <2>1, <2>2
<1>5. ASSUME NEW port \in Contested, ForeignBind(port) \/ ForeignClose(port)
      PROVE  ProbeCounted'
  BY <1>0, <1>5 DEF ForeignBind, ForeignClose
<1>6. CASE ProcessEnds \/ UNCHANGED vars
  BY <1>0, <1>6 DEF ProcessEnds, vars
<1> QED
  BY <1>1, <1>2, <1>3, <1>4, <1>5, <1>6 DEF Next, GeneratePorts, Setup

-----------------------------------------------------------------------------
LEMMA Invariant == Spec => []Inv
<1>1. Inv /\ [Next]_vars => Inv'
  BY TypeNext, ExclusiveNext, StillFreeNext, OwnPairNext, BoundOwnNext, ProbeCountedNext DEF Inv
<1> QED BY InitInv, <1>1, PTL DEF Spec

\* Type correctness, the number of sockets among it.
THEOREM PortsTypeOK == Spec => []TypeOK
<1>1. Inv => TypeOK
  BY DEF Inv
<1> QED BY Invariant, <1>1, PTL

\* No two sessions are bound to the same port, however many threads ask for ports
\* and whatever other processes bind.
THEOREM PortsAreDistinct == Spec => []PortsDistinct
<1>1. Inv => PortsDistinct
  <2> SUFFICES ASSUME Inv, NEW c \in Callers, NEW d \in Callers, c # d
               PROVE  bound[c] \cap bound[d] = {}
    BY DEF PortsDistinct
  <2>1. CASE pc[c] \in Recorded /\ pc[d] \in Recorded
    <3>1. rtpPort[c] # rtpPort[d]
      BY <2>1 DEF Inv, OwnPair
    <3>2. /\ rtpPort[c] \in Nat /\ rtpPort[c] % 2 = 0
          /\ rtpPort[d] \in Nat /\ rtpPort[d] % 2 = 0
      BY EvenPorts DEF Inv, TypeOK
    <3>3. {rtpPort[c], rtpPort[c] + 1} \cap {rtpPort[d], rtpPort[d] + 1} = {}
      BY <3>1, <3>2
    <3> QED BY <2>1, <3>3 DEF Inv, BoundOwn
  <2>2. CASE ~(pc[c] \in Recorded /\ pc[d] \in Recorded)
    BY <2>2 DEF Inv, BoundOwn
  <2> QED BY <2>1, <2>2
<1> QED BY Invariant, <1>1, PTL

\* No probe of one thread makes the bind of another fail.
THEOREM BindsUndisturbed == Spec => []BindUndisturbed
<1>1. Inv => BindUndisturbed
  <2> SUFFICES ASSUME Inv, NEW c \in Callers, NEW d \in Callers,
                      pc[c] = "probed", pc[d] \in {"sockets", "bind"}
               PROVE  Port(c) \notin {rtpPort[d], rtpPort[d] + 1}
    BY DEF BindUndisturbed
  <2>1. Port(c) \notin allocated
    BY DEF Inv, StillFree
  <2>2. {rtpPort[d], rtpPort[d] + 1} \subseteq allocated
    BY DEF Inv, OwnPair, Recorded
  <2> QED BY <2>1, <2>2
<1> QED BY Invariant, <1>1, PTL

-----------------------------------------------------------------------------
\* Two even ports that differ have no port of their pairs in common.
LEMMA PairsApart ==
  ASSUME NEW p \in Even, NEW q \in Even, p # q
  PROVE  {p, p + 1} \cap {q, q + 1} = {}
<1>1. /\ p \in Nat /\ p % 2 = 0
      /\ q \in Nat /\ q % 2 = 0
  BY EvenPorts
<1> QED BY <1>1

\* A record gives the thread a pair that nobody has; every other step leaves what
\* was given alone.
LEMMA PoolStep == Inv /\ [Next]_vars => [Pool!Next]_Given
<1> SUFFICES ASSUME Inv, [Next]_vars PROVE [Pool!Next]_Given
  OBVIOUS
<1>0. TypeOK /\ StillFree /\ OwnPair
  BY DEF Inv
<1> USE DEF TypeOK, Goto, At, Recorded, Given
<1>1. ASSUME NEW c \in Callers,
             \/ Call(c) \/ Lock(c) \/ NotAvailable(c) \/ ProbeThrows(c) \/ Probe(c)
             \/ ProbeCloses(c)
      PROVE  UNCHANGED Given
  BY <1>0, <1>1 DEF Call, Lock, NotAvailable, ProbeThrows, Probe, ProbeCloses
<1>2. ASSUME NEW c \in Callers, NEW p \in Even, Draw(c, p)
      PROVE  UNCHANGED Given
  BY <1>0, <1>2 DEF Draw
<1>3. ASSUME NEW c \in Callers, Record(c)
      PROVE  Pool!Next
  <2> DEFINE q == rtpPort[c]
  <2>1. /\ rtpPort' = rtpPort /\ q \in Even
        /\ pc[c] = "record" /\ pc'[c] = "sockets" /\ \A d \in Callers \ {c} : pc'[d] = pc[d]
    BY <1>0, <1>3 DEF Record
  <2>2. \A d \in Callers : {q, q + 1} \cap Given[d] = {}
    <3> SUFFICES ASSUME NEW d \in Callers, pc[d] \in Recorded
                 PROVE  {q, q + 1} \cap {rtpPort[d], rtpPort[d] + 1} = {}
      OBVIOUS
    <3>1. rtpPort[d] \in allocated /\ rtpPort[d] \in Even
      BY <1>0 DEF OwnPair
    <3>2. q \notin allocated
      BY <1>0, <2>1 DEF StillFree
    <3> QED BY <2>1, <3>1, <3>2, PairsApart
  <2>3. Given[c] = {}
    BY <2>1
  <2>4. Given' = [Given EXCEPT ![c] = {q, q + 1}]
    BY <2>1
  <2> HIDE DEF Given, q
  <2> QED BY <2>1, <2>2, <2>3, <2>4 DEF Pool!Next, Pool!Give
<1>4. ASSUME NEW c \in Callers, CreateSockets(c) \/ Bind(c) \/ BindFails(c)
      PROVE  UNCHANGED Given
  <2>1. /\ pc[c] \in Recorded /\ pc'[c] \in Recorded
        /\ \A d \in Callers \ {c} : pc'[d] = pc[d]
        /\ rtpPort' = rtpPort
    BY <1>0, <1>4 DEF CreateSockets, Bind, BindFails
  <2> QED BY <1>0, <2>1
<1>5. ASSUME NEW port \in Contested, ForeignBind(port) \/ ForeignClose(port)
      PROVE  UNCHANGED Given
  BY <1>5 DEF ForeignBind, ForeignClose
<1>6. CASE ProcessEnds \/ UNCHANGED vars
  BY <1>6 DEF ProcessEnds, vars
<1> QED
  BY <1>1, <1>2, <1>3, <1>4, <1>5, <1>6 DEF Next, GeneratePorts, Setup

\* PortManager gives ports as PortPool does, for any number of threads and ports:
\* what is looked up, probed and recorded in many steps is given in one, and for
\* good.
THEOREM PortManagerIsPool == Spec => PoolSpec
<1>1. Init => Pool!Init
  BY DEF Init, Pool!Init, Given, Recorded
<1> QED BY Invariant, <1>1, PoolStep, PTL DEF Spec, PoolSpec, Pool!Spec

-----------------------------------------------------------------------------
(* The port manager inside it *)

LEMMA PortStep == [UdpNext]_udpVars => [Next]_vars
<1> SUFFICES ASSUME [UdpNext]_udpVars PROVE [Next]_vars
  OBVIOUS
<1>1. ASSUME NEW c \in Callers, NEW conn \in Conns, NEW track \in Tracks,
             SetupBegins(c, conn, track)
      PROVE  Next
  BY <1>1 DEF SetupBegins, Next
<1>2. ASSUME NEW c \in Callers, SetupGoesOn(c)
      PROVE  Next
  BY <1>2 DEF SetupGoesOn, Next
<1>3. ASSUME NEW c \in Callers, SetupEnds(c)
      PROVE  ProcessEnds \/ UNCHANGED vars
  BY <1>3 DEF SetupEnds, VideoDone, AudioDone, AudioWithoutSession, SetupFails, ActOnSession
<1>4. CASE OtherProcesses
  BY <1>4 DEF OtherProcesses, Next
<1>5. CASE UNCHANGED udpVars
  BY <1>5 DEF udpVars
<1> QED
  BY <1>1, <1>2, <1>3, <1>4, <1>5 DEF UdpNext, Next

\* SETUP over UDP allocates ports as the specification of PortManager has it,
\* fairness included: every theorem about PortManager holds here as well.
THEOREM UdpUsesPortManager == UdpSpec => Spec
<1>1. UdpInit => Init
  BY DEF UdpInit
<1> QED BY <1>1, PortStep, PTL DEF UdpSpec, Spec

-----------------------------------------------------------------------------
(* The tables *)

\* A handler has a request from its first step on, and answers at its last.
Requests ==
  \A c \in Callers :
    /\ pc[c] = "idle" <=> request[c] = None
    /\ request[c] # None => request[c].id \in 0..generated
    /\ request[c] # None /\ request[c].track = "video" => request[c].id # NoSession
    /\ answer[c] = "ok" => pc[c] = "ready"
    /\ answer[c] = "error" => pc[c] = "failed"

\* Every id belongs to one connection, which nobody has to write down.
OwnedBy(owner) ==
  /\ \A conn \in Conns : avSessionIds[conn] # NoSession => owner[avSessionIds[conn]] = conn
  /\ \A c \in Callers :
       request[c] # None /\ request[c].id # NoSession => owner[request[c].id] = request[c].conn
  /\ \A id \in DOMAIN sessions : sessions[id].conn = owner[id]

IdsOwned == \E owner \in [Nat -> Conns \cup {None}] : OwnedBy(owner)

\* The port of a track is that of a SETUP that was answered.
EntriesFrom ==
  \A id \in DOMAIN sessions : \A track \in DOMAIN sessions[id].ports :
    \E c \in Callers :
      /\ answer[c] = "ok" /\ rtpPort[c] = sessions[id].ports[track]
      /\ request[c] = [conn |-> sessions[id].conn, track |-> track, id |-> id]

UdpInv == UdpTypeOK /\ Requests /\ IdsOwned /\ EntriesFrom /\ IdsStand

\* The steps of the port manager that a handler takes between its request and its
\* answer keep what was recorded.
LEMMA GoesOn ==
  ASSUME Inv, NEW c \in Callers, SetupGoesOn(c)
  PROVE  /\ pc[c] \notin {"idle", "ready", "failed"} /\ pc'[c] # "idle"
         /\ \A d \in Callers \ {c} : pc'[d] = pc[d]
         /\ \A d \in Callers : pc[d] \in Recorded => rtpPort'[d] = rtpPort[d]
         /\ died => died'
         /\ UNCHANGED tableVars
<1>0. TypeOK
  BY DEF Inv
<1> USE DEF TypeOK, Goto, At, Recorded, Searching
<1>1. CASE \E p \in Even : Draw(c, p)
  BY <1>0, <1>1 DEF SetupGoesOn, Draw
<1>2. CASE Lock(c) \/ NotAvailable(c) \/ ProbeThrows(c) \/ Probe(c) \/ ProbeCloses(c) \/ Record(c)
  BY <1>0, <1>2 DEF SetupGoesOn, Lock, NotAvailable, ProbeThrows, Probe, ProbeCloses, Record
<1>3. CASE CreateSockets(c) \/ Bind(c) \/ BindFails(c)
  BY <1>0, <1>3 DEF SetupGoesOn, CreateSockets, Bind, BindFails
<1> QED BY <1>1, <1>2, <1>3 DEF SetupGoesOn, GeneratePorts, Setup

LEMMA UdpInitInv == UdpInit => UdpInv
<1> SUFFICES ASSUME UdpInit PROVE UdpInv
  OBVIOUS
<1>1. UdpTypeOK
  BY DEF UdpInit, UdpTypeOK, NoSession
<1>2. Requests
  BY DEF UdpInit, Init, Requests
<1>3. IdsOwned
  <2>1. [n \in Nat |-> None] \in [Nat -> Conns \cup {None}]
    OBVIOUS
  <2> QED BY <2>1 DEF UdpInit, IdsOwned, OwnedBy
<1>4. EntriesFrom /\ IdsStand
  BY DEF UdpInit, EntriesFrom, IdsStand
<1> QED BY <1>1, <1>2, <1>3, <1>4 DEF UdpInv

LEMMA BeginsKeeps ==
  ASSUME Inv, UdpInv, NEW c \in Callers, NEW conn \in Conns, NEW track \in Tracks,
         SetupBegins(c, conn, track)
  PROVE  UdpInv'
<1> DEFINE id == avSessionIds'[conn]
           r == [conn |-> conn, track |-> track, id |-> id]
<1>0. TypeOK /\ UdpTypeOK /\ Requests /\ IdsOwned /\ EntriesFrom /\ IdsStand
  BY DEF Inv, UdpInv
<1>1. /\ ~died /\ ~died' /\ rtpPort' = rtpPort
      /\ pc[c] = "idle" /\ pc'[c] = "lock" /\ \A d \in Callers \ {c} : pc'[d] = pc[d]
  BY <1>0 DEF SetupBegins, Call, At, Goto, TypeOK
<1>2. /\ request[c] = None /\ answer[c] = "none"
      /\ answer' = answer /\ sessions' = sessions
      /\ request' = [request EXCEPT ![c] = r]
  BY <1>0, <1>1 DEF SetupBegins, Requests, UdpTypeOK
<1>3. /\ generated' \in Nat /\ generated' >= generated
      /\ avSessionIds' \in [Conns -> 0..generated']
      /\ \A other \in Conns \ {conn} : avSessionIds'[other] = avSessionIds[other]
      /\ id = avSessionIds[conn] \/ (id = generated + 1 /\ generated' = generated + 1)
      /\ track = "video" => id # NoSession
  BY <1>0 DEF SetupBegins, UdpTypeOK, NoSession
<1>4. r \in Request /\ r # None /\ r.conn = conn /\ r.track = track /\ r.id = id
  BY <1>3, NoneNotRequest DEF Request
<1>5. UdpTypeOK'
  BY <1>0, <1>2, <1>3, <1>4 DEF UdpTypeOK, Request
<1>6. Requests'
  BY <1>0, <1>1, <1>2, <1>3, <1>4 DEF Requests, UdpTypeOK
<1>7. IdsOwned'
  <2>1. PICK owner \in [Nat -> Conns \cup {None}] : OwnedBy(owner)
    BY <1>0 DEF IdsOwned
  <2>2. PICK new \in [Nat -> Conns \cup {None}] :
          /\ \A n \in 0..generated : new[n] = owner[n]
          /\ id # NoSession => new[id] = conn
    <3>1. CASE id = generated + 1
      <4> DEFINE n0 == generated + 1
                 w == [owner EXCEPT ![n0] = conn]
      <4>1. n0 \in Nat /\ n0 \notin 0..generated /\ 0..generated \subseteq Nat
        BY <1>0 DEF UdpTypeOK
      <4>2. w \in [Nat -> Conns \cup {None}] /\ w[n0] = conn /\ \A n \in 0..generated : w[n] = owner[n]
        BY <2>1, <4>1
      <4> QED BY <3>1, <4>2
    <3>2. CASE id = avSessionIds[conn]
      BY <1>0, <2>1, <3>2 DEF OwnedBy, UdpTypeOK
    <3> QED BY <1>3, <3>1, <3>2
  <2>4. \A other \in Conns : avSessionIds'[other] # NoSession => new[avSessionIds'[other]] = other
    BY <1>0, <1>3, <2>1, <2>2 DEF OwnedBy, UdpTypeOK
  <2>5. \A d \in Callers : request'[d] # None /\ request'[d].id # NoSession =>
          new[request'[d].id] = request'[d].conn
    BY <1>0, <1>2, <1>4, <2>1, <2>2 DEF OwnedBy, UdpTypeOK, Requests
  <2>6. \A n \in DOMAIN sessions' : sessions'[n].conn = new[n]
    BY <1>0, <1>2, <2>1, <2>2 DEF OwnedBy, UdpTypeOK
  <2>7. OwnedBy(new)'
    BY <2>4, <2>5, <2>6 DEF OwnedBy
  <2> QED BY <2>2, <2>7 DEF IdsOwned
<1>8. EntriesFrom'
  BY <1>0, <1>1, <1>2, <1>4 DEF EntriesFrom, UdpTypeOK
<1>9. IdsStand'
  BY <1>0, <1>1, <1>2, <1>3, <1>4 DEF IdsStand, Running, UdpTypeOK
<1> QED BY <1>5, <1>6, <1>7, <1>8, <1>9 DEF UdpInv

\* Between request and answer, only where the handler is changes.
LEMMA GoesOnKeeps ==
  ASSUME Inv, UdpInv, NEW c \in Callers, SetupGoesOn(c)
  PROVE  UdpInv'
<1>0. UdpTypeOK /\ Requests /\ IdsOwned /\ EntriesFrom /\ IdsStand
  BY DEF UdpInv
<1>1. /\ pc[c] \notin {"idle", "ready", "failed"} /\ pc'[c] # "idle"
      /\ \A d \in Callers \ {c} : pc'[d] = pc[d]
      /\ \A d \in Callers : pc[d] \in Recorded => rtpPort'[d] = rtpPort[d]
      /\ died => died'
      /\ UNCHANGED tableVars
  BY GoesOn
<1>2. UNCHANGED <<request, answer, generated, avSessionIds, sessions>>
  BY <1>1 DEF tableVars
<1>3. UdpTypeOK'
  BY <1>0, <1>2 DEF UdpTypeOK
<1>4. Requests'
  BY <1>0, <1>1, <1>2 DEF Requests
<1>5. IdsOwned'
  BY <1>0, <1>2 DEF IdsOwned, OwnedBy
<1>6. EntriesFrom'
  BY <1>0, <1>1, <1>2 DEF EntriesFrom, Requests, Recorded
<1>7. IdsStand'
  BY <1>0, <1>1, <1>2 DEF IdsStand, Running
<1> QED BY <1>3, <1>4, <1>5, <1>6, <1>7 DEF UdpInv

\* What every answer leaves alone.
LEMMA Answered ==
  ASSUME UdpInv, NEW c \in Callers, NEW what \in {"ok", "error"}, Answer(c, what),
         ActOnSession(request[c].id)
  PROVE  /\ request[c] \in Request /\ request[c].id \in 0..generated
         /\ answer' = [answer EXCEPT ![c] = what]
         /\ UNCHANGED <<pc, rtpPort, request, generated, avSessionIds>>
         /\ died => died'
         /\ died' \/ request[c].id \in {NoSession} \cup DOMAIN sessions'
BY DEF UdpInv, UdpTypeOK, Requests, Answer, Running, ActOnSession, ProcessEnds, vars

LEMMA VideoDoneKeeps ==
  ASSUME Inv, UdpInv, NEW c \in Callers, VideoDone(c)
  PROVE  UdpInv'
<1> DEFINE r == request[c]
<1>0. UdpTypeOK /\ Requests /\ IdsOwned /\ EntriesFrom /\ IdsStand /\ TypeOK
  BY DEF UdpInv, Inv
<1>1. /\ r \in Request /\ r.track = "video" /\ r.id \in 1..generated
      /\ answer' = [answer EXCEPT ![c] = "ok"]
      /\ UNCHANGED <<pc, rtpPort, request, generated, avSessionIds>>
      /\ died => died'
      /\ pc[c] = "ready"
  BY <1>0, Answered, NoneNotRequest DEF VideoDone, At, Requests, NoSession
<1>2. /\ DOMAIN sessions' = DOMAIN sessions \cup {r.id}
      /\ sessions'[r.id] = NewSession(c)
      /\ \A id \in DOMAIN sessions \ {r.id} : sessions'[id] = sessions[id]
  BY DEF VideoDone, With
<1>3. /\ r.conn \in Conns /\ rtpPort[c] \in Even
      /\ r = [conn |-> r.conn, track |-> "video", id |-> r.id]
      /\ NewSession(c).conn = r.conn
      /\ DOMAIN NewSession(c).ports = {"video"}
      /\ NewSession(c).ports["video"] = rtpPort[c]
  BY <1>0, <1>1 DEF NewSession, Request, TypeOK
<1>4. UdpTypeOK'
  <2>1. NewSession(c) \in Session
    BY <1>1, <1>3 DEF NewSession, Session
  <2> QED BY <1>0, <1>1, <1>2, <2>1 DEF UdpTypeOK
<1>5. Requests'
  BY <1>0, <1>1 DEF Requests, UdpTypeOK
<1>6. IdsOwned'
  <2>1. PICK owner \in [Nat -> Conns \cup {None}] : OwnedBy(owner)
    BY <1>0 DEF IdsOwned
  <2>2. owner[r.id] = r.conn
    BY <1>1, <2>1, NoneNotRequest DEF OwnedBy, NoSession
  <2>3. OwnedBy(owner)'
    BY <1>1, <1>2, <1>3, <2>1, <2>2 DEF OwnedBy
  <2> QED BY <2>3 DEF IdsOwned
<1>7. EntriesFrom'
  BY <1>0, <1>1, <1>2, <1>3 DEF EntriesFrom, UdpTypeOK
<1>8. IdsStand'
  BY <1>0, <1>1, <1>2 DEF IdsStand, Running, UdpTypeOK
<1> QED BY <1>4, <1>5, <1>6, <1>7, <1>8 DEF UdpInv

LEMMA AudioDoneKeeps ==
  ASSUME Inv, UdpInv, NEW c \in Callers, AudioDone(c)
  PROVE  UdpInv'
<1> DEFINE r == request[c]
<1>0. UdpTypeOK /\ Requests /\ IdsOwned /\ EntriesFrom /\ IdsStand /\ TypeOK
  BY DEF UdpInv, Inv
<1>1. /\ r \in Request /\ r.track = "audio" /\ r.id \in DOMAIN sessions
      /\ answer' = [answer EXCEPT ![c] = "ok"]
      /\ UNCHANGED <<pc, rtpPort, request, generated, avSessionIds>>
      /\ died => died'
      /\ pc[c] = "ready" /\ answer[c] = "none"
  BY <1>0, Answered DEF AudioDone, At, Answer, Running
<1>2. PICK owner \in [Nat -> Conns \cup {None}] : OwnedBy(owner)
  BY <1>0 DEF IdsOwned
<1>3. /\ r.id \in 1..generated /\ r.conn \in Conns /\ rtpPort[c] \in Even
      /\ sessions[r.id].conn = r.conn
      /\ r = [conn |-> r.conn, track |-> "audio", id |-> r.id]
  BY <1>0, <1>1, <1>2, NoneNotRequest DEF UdpTypeOK, OwnedBy, Request, NoSession, TypeOK
<1>4. /\ DOMAIN sessions' = DOMAIN sessions
      /\ \A id \in DOMAIN sessions : sessions'[id].conn = sessions[id].conn
      /\ \A id \in DOMAIN sessions \ {r.id} : sessions'[id] = sessions[id]
  BY <1>1 DEF AudioDone
<1>5. sessions[r.id] \in Session
  BY <1>0, <1>1 DEF UdpTypeOK
<1>6. /\ DOMAIN sessions'[r.id].ports = DOMAIN sessions[r.id].ports \cup {"audio"}
      /\ sessions'[r.id].ports["audio"] = rtpPort[c]
      /\ \A track \in DOMAIN sessions[r.id].ports \ {"audio"} :
           sessions'[r.id].ports[track] = sessions[r.id].ports[track]
  BY <1>1, <1>5 DEF AudioDone, With, Session
<1>7. UdpTypeOK'
  <2>1. With(sessions[r.id].ports, "audio", rtpPort[c]) \in [Tracks -> Even]
    BY <1>3, <1>5 DEF With, Session, Tracks
  <2>2. sessions'[r.id] \in Session
    BY <1>1, <1>5, <2>1 DEF AudioDone, Session
  <2> QED BY <1>0, <1>1, <1>4, <2>2 DEF UdpTypeOK
<1>8. Requests'
  BY <1>0, <1>1 DEF Requests, UdpTypeOK
<1>9. IdsOwned'
  <2>1. OwnedBy(owner)'
    BY <1>1, <1>2, <1>4 DEF OwnedBy
  <2> QED BY <2>1 DEF IdsOwned
<1>10. EntriesFrom'
  <2> SUFFICES ASSUME NEW id \in DOMAIN sessions, NEW track \in DOMAIN sessions'[id].ports
               PROVE  \E d \in Callers :
                        /\ answer'[d] = "ok" /\ rtpPort[d] = sessions'[id].ports[track]
                        /\ request[d] = [conn |-> sessions[id].conn, track |-> track, id |-> id]
    BY <1>1, <1>4 DEF EntriesFrom
  <2>1. CASE id = r.id /\ track = "audio"
    BY <1>0, <1>1, <1>3, <1>6, <2>1 DEF UdpTypeOK
  <2>2. CASE ~(id = r.id /\ track = "audio")
    <3>1. /\ track \in DOMAIN sessions[id].ports
          /\ sessions'[id].ports[track] = sessions[id].ports[track]
      BY <1>4, <1>6, <2>2
    <3> QED BY <1>0, <1>1, <3>1 DEF EntriesFrom, UdpTypeOK
  <2> QED BY <2>1, <2>2
<1>11. IdsStand'
  BY <1>0, <1>1, <1>4 DEF IdsStand, Running, UdpTypeOK
<1> QED BY <1>7, <1>8, <1>9, <1>10, <1>11 DEF UdpInv

\* A 500 is followed by the end of the server unless the id names a session.
LEMMA SetupFailsKeeps ==
  ASSUME Inv, UdpInv, NEW c \in Callers, SetupFails(c)
  PROVE  UdpInv'
<1>0. UdpTypeOK /\ Requests /\ IdsOwned /\ EntriesFrom /\ IdsStand
  BY DEF UdpInv
<1>1. /\ answer' = [answer EXCEPT ![c] = "error"]
      /\ UNCHANGED <<pc, rtpPort, request, generated, avSessionIds, sessions>>
      /\ died => died'
      /\ died' \/ request[c].id \in {NoSession} \cup DOMAIN sessions
      /\ pc[c] = "failed" /\ answer[c] = "none"
  BY <1>0, Answered DEF SetupFails, At, Answer, Running
<1>2. UdpTypeOK'
  BY <1>0, <1>1 DEF UdpTypeOK
<1>3. Requests'
  BY <1>0, <1>1 DEF Requests, UdpTypeOK
<1>4. IdsOwned'
  BY <1>0, <1>1 DEF IdsOwned, OwnedBy
<1>5. EntriesFrom'
  BY <1>0, <1>1 DEF EntriesFrom, UdpTypeOK
<1>6. IdsStand'
  BY <1>0, <1>1 DEF IdsStand, Running, UdpTypeOK
<1> QED BY <1>2, <1>3, <1>4, <1>5, <1>6 DEF UdpInv

\* Steps that leave the tables and the handlers alone.
LEMMA OthersKeep ==
  ASSUME UdpInv, UNCHANGED <<pc, rtpPort, tableVars>>, died => died'
  PROVE  UdpInv'
<1>1. UNCHANGED <<request, answer, generated, avSessionIds, sessions>>
  BY DEF tableVars
<1> QED
  BY <1>1 DEF UdpInv, UdpTypeOK, Requests, IdsOwned, OwnedBy, EntriesFrom, IdsStand, Running

LEMMA UdpInvariant == UdpSpec => [](Inv /\ UdpInv)
<1>1. Inv /\ [Next]_vars => Inv'
  BY TypeNext, ExclusiveNext, StillFreeNext, OwnPairNext, BoundOwnNext, ProbeCountedNext DEF Inv
<1>2. Inv /\ UdpInv /\ [UdpNext]_udpVars => UdpInv'
  <2> SUFFICES ASSUME Inv, UdpInv, [UdpNext]_udpVars PROVE UdpInv'
    OBVIOUS
  <2>1. ASSUME NEW c \in Callers, AudioWithoutSession(c)
        PROVE  UdpInv'
    BY <2>1, OthersKeep DEF AudioWithoutSession, ProcessEnds
  <2>2. CASE OtherProcesses
    BY <2>2, OthersKeep DEF OtherProcesses, ForeignBind, ForeignClose
  <2>3. CASE UNCHANGED udpVars
    BY <2>3, OthersKeep DEF udpVars, vars
  <2> QED
    BY <2>1, <2>2, <2>3, BeginsKeeps, GoesOnKeeps, VideoDoneKeeps, AudioDoneKeeps, SetupFailsKeeps
    DEF UdpNext, SetupEnds
<1>3. UdpInit => Init
  BY DEF UdpInit
<1> QED BY <1>1, <1>2, <1>3, InitInv, UdpInitInv, PortStep, PTL DEF UdpSpec

\* Type correctness of the tables: every session has its video track.
THEOREM UdpTypeCorrect == UdpSpec => []UdpTypeOK
<1>1. UdpInv => UdpTypeOK
  BY DEF UdpInv
<1> QED BY UdpInvariant, <1>1, PTL

\* No id without a session survives the SETUP that made it.
THEOREM UdpIdsStand == UdpSpec => []IdsStand
<1>1. UdpInv => IdsStand
  BY DEF UdpInv
<1> QED BY UdpInvariant, <1>1, PTL

-----------------------------------------------------------------------------
(* The ports of a session *)

\* A thread that is ready has bound both its ports.
BothBound ==
  \A c \in Callers :
    /\ pc[c] = "bind" /\ half[c] = 1 => rtpPort[c] \in bound[c]
    /\ pc[c] = "ready" => bound[c] = {rtpPort[c], rtpPort[c] + 1}

LEMMA BothBoundNext == Inv /\ BothBound /\ [Next]_vars => BothBound'
<1> SUFFICES ASSUME Inv, BothBound, [Next]_vars PROVE BothBound'
  OBVIOUS
<1>0. TypeOK /\ BoundOwn
  BY DEF Inv
<1> USE DEF TypeOK, Goto, At, BothBound
<1>1. ASSUME NEW c \in Callers,
             \/ Call(c) \/ Lock(c) \/ NotAvailable(c) \/ ProbeThrows(c) \/ Probe(c)
             \/ ProbeCloses(c) \/ Record(c)
      PROVE  BothBound'
  BY <1>0, <1>1 DEF Call, Lock, NotAvailable, ProbeThrows, Probe, ProbeCloses, Record
<1>2. ASSUME NEW c \in Callers, NEW p \in Even, Draw(c, p)
      PROVE  BothBound'
  BY <1>0, <1>2 DEF Draw
<1>3. ASSUME NEW c \in Callers, CreateSockets(c) \/ BindFails(c)
      PROVE  BothBound'
  BY <1>0, <1>3 DEF CreateSockets, BindFails
<1>4. ASSUME NEW c \in Callers, Bind(c)
      PROVE  BothBound'
  <2>1. /\ rtpPort' = rtpPort /\ bound'[c] = bound[c] \cup {rtpPort[c] + half[c]}
        /\ \A d \in Callers \ {c} : /\ pc'[d] = pc[d] /\ half'[d] = half[d]
                                    /\ bound'[d] = bound[d]
        /\ \/ half[c] = 0 /\ half'[c] = 1 /\ pc'[c] = "bind"
           \/ half[c] = 1 /\ half'[c] = 1 /\ pc'[c] = "ready"
        /\ pc[c] = "bind"
    BY <1>0, <1>4 DEF Bind, Port
  <2>2. bound[c] \subseteq {rtpPort[c], rtpPort[c] + 1} /\ rtpPort[c] \in Nat
    BY <1>0, <2>1, EvenPorts DEF BoundOwn, Recorded
  <2>3. pc'[c] = "bind" => rtpPort[c] \in bound'[c]
    BY <2>1, <2>2
  <2>4. pc'[c] = "ready" => bound'[c] = {rtpPort[c], rtpPort[c] + 1}
    BY <2>1, <2>2
  <2> QED BY <2>1, <2>3, <2>4
<1>5. ASSUME NEW port \in Contested, ForeignBind(port) \/ ForeignClose(port)
      PROVE  BothBound'
  BY <1>0, <1>5 DEF ForeignBind, ForeignClose
<1>6. CASE ProcessEnds \/ UNCHANGED vars
  BY <1>0, <1>6 DEF ProcessEnds, vars
<1> QED
  BY <1>1, <1>2, <1>3, <1>4, <1>5, <1>6 DEF Next, GeneratePorts, Setup

\* Every port a session names is bound, by a SETUP of its own connection, and no
\* two tracks of any sessions name the same.
THEOREM UdpSessionPorts == UdpSpec => []SessionPorts
<1>1. UdpInit => BothBound
  BY DEF UdpInit, Init, BothBound
<1>2. Inv /\ UdpInv /\ BothBound => SessionPorts
  <2> SUFFICES ASSUME Inv, UdpInv, BothBound PROVE SessionPorts
    OBVIOUS
  <2>1. ASSUME NEW id \in DOMAIN sessions, NEW track \in DOMAIN sessions[id].ports
        PROVE  \E c \in Callers :
                 /\ answer[c] = "ok" /\ pc[c] = "ready"
                 /\ rtpPort[c] = sessions[id].ports[track]
                 /\ bound[c] = {rtpPort[c], rtpPort[c] + 1}
                 /\ request[c] = [conn |-> sessions[id].conn, track |-> track, id |-> id]
    BY <2>1 DEF UdpInv, EntriesFrom, Requests, BothBound
  <2>2. ASSUME NEW id1 \in DOMAIN sessions, NEW track1 \in DOMAIN sessions[id1].ports,
               NEW id2 \in DOMAIN sessions, NEW track2 \in DOMAIN sessions[id2].ports,
               sessions[id1].ports[track1] = sessions[id2].ports[track2]
        PROVE  id1 = id2 /\ track1 = track2
    <3>1. PICK c \in Callers :
            /\ pc[c] = "ready" /\ rtpPort[c] = sessions[id1].ports[track1]
            /\ request[c] = [conn |-> sessions[id1].conn, track |-> track1, id |-> id1]
      BY <2>1
    <3>2. PICK d \in Callers :
            /\ pc[d] = "ready" /\ rtpPort[d] = sessions[id2].ports[track2]
            /\ request[d] = [conn |-> sessions[id2].conn, track |-> track2, id |-> id2]
      BY <2>1
    <3>3. c = d
      BY <2>2, <3>1, <3>2 DEF Inv, OwnPair, Recorded
    <3>4. request[c].id = id1 /\ request[c].track = track1
      BY <3>1
    <3>5. request[d].id = id2 /\ request[d].track = track2
      BY <3>2
    <3> QED BY <3>3, <3>4, <3>5
  <2> QED BY <2>1, <2>2 DEF SessionPorts, TracksOf
<1> QED BY UdpInvariant, <1>1, <1>2, PortStep, BothBoundNext, PTL DEF UdpSpec
=============================================================================
