---------------------------- MODULE PortManager ----------------------------
(***************************************************************************)
(* PortManager::generatePorts and the part of an UDP SETUP that needs its  *)
(* ports (build_string): find an even port and the odd one after it that   *)
(* can be bound, remember them, create two sockets and bind them.          *)
(*                                                                         *)
(* Several threads may call it, as its mutex is there for.  Nothing in the *)
(* server does yet, and nothing calls releasePorts, so that ports and      *)
(* sockets are kept for good.  Other processes bind ports of the range.    *)
(***************************************************************************)
EXTENDS Integers, FiniteSets

CONSTANTS Callers,      \* the threads, each with one SETUP to do
          Even,         \* the even ports of the range
          Contested,    \* bound: the ports other processes take
          Descriptors,  \* descriptors the process may have for sockets
          None          \* no thread

ASSUME PortsAssumption == Even \subseteq {p \in Nat : p % 2 = 0}
ASSUME NoneAssumption == None \notin Callers
ASSUME DescriptorsAssumption == Descriptors \in Nat

Ports == Even \cup {p + 1 : p \in Even}

ASSUME ContestedAssumption == Contested \subseteq Ports

VARIABLES
  mutex,      \* its holder
  allocated,  \* allocatedPorts
  pc,         \* where each thread is
  rtpPort,    \* the even port it has last drawn
  half,       \* whether it is at this port (0) or the one after it (1)
  bound,      \* the ports its sockets are bound to
  sockets,    \* descriptors in use for sockets, at first those of connections
  foreign,    \* who else has a socket on a port
  died        \* whether the process has ended

vars == <<mutex, allocated, pc, rtpPort, half, bound, sockets, foreign, died>>

Searching == {"draw", "probe", "probed", "record"}
Recorded == {"sockets", "bind", "ready", "failed"}

TypeOK ==
  /\ mutex \in Callers \cup {None}
  /\ allocated \subseteq Ports
  /\ pc \in [Callers -> {"idle", "lock"} \cup Searching \cup Recorded]
  /\ rtpPort \in [Callers -> Even]
  /\ half \in [Callers -> {0, 1}]
  /\ bound \in [Callers -> SUBSET Ports]
  /\ sockets \in 0..Descriptors
  /\ foreign \in [Ports -> {"none", "shares", "alone"}]
  /\ died \in BOOLEAN

Port(c) == rtpPort[c] + half[c]

\* A socket bound without SO_REUSEADDR: the one of a probe, or of a process that
\* does without.
HeldAlone(port) ==
  \/ foreign[port] = "alone"
  \/ \E c \in Callers : pc[c] = "probed" /\ Port(c) = port

InUse(port) == foreign[port] # "none" \/ HeldAlone(port) \/ \E c \in Callers : port \in bound[c]

Init ==
  /\ mutex = None
  /\ allocated = {}
  /\ pc = [c \in Callers |-> "idle"]
  /\ rtpPort \in {[c \in Callers |-> p] : p \in {q \in Even : \A r \in Even : q <= r}}
  /\ half = [c \in Callers |-> 0]
  /\ bound = [c \in Callers |-> {}]
  /\ sockets \in 0..Descriptors
  /\ foreign = [p \in Ports |-> "none"]
  /\ died = FALSE

-----------------------------------------------------------------------------
At(c, label) == ~died /\ pc[c] = label
Goto(c, label) == pc' = [pc EXCEPT ![c] = label]

Call(c) ==
  /\ At(c, "idle") /\ Goto(c, "lock")
  /\ UNCHANGED <<mutex, allocated, rtpPort, half, bound, sockets, foreign, died>>

\* Mutation: no lock_guard.
LockFree(c) ==
  /\ At(c, "lock") /\ Goto(c, "draw")
  /\ UNCHANGED <<mutex, allocated, rtpPort, half, bound, sockets, foreign, died>>

Lock(c) ==
  /\ At(c, "lock") /\ Goto(c, "draw")
  /\ mutex = None /\ mutex' = c
  /\ UNCHANGED <<allocated, rtpPort, half, bound, sockets, foreign, died>>

\* dist(rng) & ~1
Draw(c, p) ==
  /\ At(c, "draw") /\ Goto(c, "probe")
  /\ rtpPort' = [rtpPort EXCEPT ![c] = p]
  /\ half' = [half EXCEPT ![c] = 0]
  /\ UNCHANGED <<mutex, allocated, bound, sockets, foreign, died>>

\* isPortAvailable: no, it is allocated, or bind() fails.
NotAvailable(c) ==
  /\ At(c, "probe") /\ Goto(c, "draw")
  /\ Port(c) \in allocated \/ (sockets < Descriptors /\ InUse(Port(c)))
  /\ UNCHANGED <<mutex, allocated, rtpPort, half, bound, sockets, foreign, died>>

\* socket() fails: the exception is caught nowhere.
ProbeThrows(c) ==
  /\ At(c, "probe") /\ Port(c) \notin allocated
  /\ sockets = Descriptors
  /\ died' = TRUE
  /\ UNCHANGED <<mutex, allocated, pc, rtpPort, half, bound, sockets, foreign>>

\* Mutation: only bind() is asked.
ProbeOnly(c) ==
  /\ At(c, "probe") /\ Goto(c, "probed")
  /\ ~InUse(Port(c))
  /\ sockets < Descriptors /\ sockets' = sockets + 1
  /\ UNCHANGED <<mutex, allocated, rtpPort, half, bound, foreign, died>>

\* bind() succeeds, and the socket is closed again.
Probe(c) ==
  /\ At(c, "probe") /\ Goto(c, "probed")
  /\ Port(c) \notin allocated /\ ~InUse(Port(c))
  /\ sockets < Descriptors /\ sockets' = sockets + 1
  /\ UNCHANGED <<mutex, allocated, rtpPort, half, bound, foreign, died>>

ProbeCloses(c) ==
  /\ At(c, "probed")
  /\ sockets' = sockets - 1
  /\ \/ half[c] = 0 /\ half' = [half EXCEPT ![c] = 1] /\ Goto(c, "probe")
     \/ half[c] = 1 /\ UNCHANGED half /\ Goto(c, "record")
  /\ UNCHANGED <<mutex, allocated, rtpPort, bound, foreign, died>>

\* Mutation: the mutex is not released.
RecordLocked(c) ==
  /\ At(c, "record") /\ Goto(c, "sockets")
  /\ allocated' = allocated \cup {rtpPort[c], rtpPort[c] + 1}
  /\ UNCHANGED <<mutex, rtpPort, half, bound, sockets, foreign, died>>

Record(c) ==
  /\ At(c, "record") /\ Goto(c, "sockets")
  /\ allocated' = allocated \cup {rtpPort[c], rtpPort[c] + 1}
  /\ mutex' = None
  /\ UNCHANGED <<rtpPort, half, bound, sockets, foreign, died>>

\* Mutation: only the first socket is checked.
OneSocketChecked(c) ==
  /\ At(c, "sockets")
  /\ half' = [half EXCEPT ![c] = 0]
  /\ \/ Descriptors - sockets >= 1 /\ sockets' = sockets + 2 /\ Goto(c, "bind")
     \/ Descriptors - sockets < 1 /\ sockets' = Descriptors /\ Goto(c, "failed")
  /\ UNCHANGED <<mutex, allocated, rtpPort, bound, foreign, died>>

\* Both sockets are created before they are checked; one that was is kept.
CreateSockets(c) ==
  /\ At(c, "sockets")
  /\ half' = [half EXCEPT ![c] = 0]
  /\ \/ Descriptors - sockets >= 2 /\ sockets' = sockets + 2 /\ Goto(c, "bind")
     \/ Descriptors - sockets < 2 /\ sockets' = Descriptors /\ Goto(c, "failed")
  /\ UNCHANGED <<mutex, allocated, rtpPort, bound, foreign, died>>

\* bindSocketAddr, with SO_REUSEADDR: only who holds the port alone is in the
\* way.
Bind(c) ==
  /\ At(c, "bind") /\ ~HeldAlone(Port(c))
  /\ bound' = [bound EXCEPT ![c] = @ \cup {Port(c)}]
  /\ \/ half[c] = 0 /\ half' = [half EXCEPT ![c] = 1] /\ UNCHANGED pc
     \/ half[c] = 1 /\ UNCHANGED half /\ Goto(c, "ready")
  /\ UNCHANGED <<mutex, allocated, rtpPort, sockets, foreign, died>>

BindFails(c) ==
  /\ At(c, "bind") /\ HeldAlone(Port(c)) /\ Goto(c, "failed")
  /\ UNCHANGED <<mutex, allocated, rtpPort, half, bound, sockets, foreign, died>>

\* Something else ends the process.
ProcessEnds ==
  /\ ~died /\ died' = TRUE
  /\ UNCHANGED <<mutex, allocated, pc, rtpPort, half, bound, sockets, foreign>>

\* Other processes
ForeignBind(port) ==
  /\ foreign[port] = "none" /\ ~HeldAlone(port)
  /\ \E how \in {"shares", "alone"} :
       /\ how = "alone" => ~InUse(port)
       /\ foreign' = [foreign EXCEPT ![port] = how]
  /\ UNCHANGED <<mutex, allocated, pc, rtpPort, half, bound, sockets, died>>

ForeignClose(port) ==
  /\ foreign[port] # "none"
  /\ foreign' = [foreign EXCEPT ![port] = "none"]
  /\ UNCHANGED <<mutex, allocated, pc, rtpPort, half, bound, sockets, died>>

-----------------------------------------------------------------------------
GeneratePorts(c) ==
  \/ Lock(c) \/ \E p \in Even : Draw(c, p)
  \/ NotAvailable(c) \/ ProbeThrows(c) \/ Probe(c) \/ ProbeCloses(c)
  \/ Record(c)

Setup(c) == CreateSockets(c) \/ Bind(c) \/ BindFails(c)

Next ==
  \/ \E c \in Callers : Call(c) \/ GeneratePorts(c) \/ Setup(c)
  \/ ProcessEnds
  \/ \E port \in Contested : ForeignBind(port) \/ ForeignClose(port)

\* Threads that can run do, and the random ports are every port of the range
\* again and again.
Fairness ==
  /\ \A c \in Callers : WF_vars(GeneratePorts(c) \/ Setup(c))
  /\ \A c \in Callers, p \in Even : SF_vars(Draw(c, p))

Spec == Init /\ [][Next]_vars /\ Fairness

-----------------------------------------------------------------------------
\* What the lock_guard of portManager.h:18 is there for: no two sessions get the
\* same port.  With SO_REUSEADDR both would bind it without an error.
PortsDistinct ==
  \A c, d \in Callers : c # d => bound[c] \cap bound[d] = {}

\* A probe never takes a port from under a session that is about to bind it:
\* when bind() fails, another process has the port.
BindUndisturbed ==
  \A c, d \in Callers : pc[c] = "probed" /\ pc[d] \in {"sockets", "bind"} =>
     Port(c) \notin {rtpPort[d], rtpPort[d] + 1}

\* A thread that draws, looks up, probes and records is given its ports as if at
\* once: PortManager is a PortPool, whose step is Record.
Given == [c \in Callers |-> IF pc[c] \in Recorded THEN {rtpPort[c], rtpPort[c] + 1} ELSE {}]
Pool == INSTANCE PortPool WITH given <- Given
PoolSpec == Pool!Spec

\* Two ports that nobody has are found: if some are left for good, everyone who
\* waits for ports gets an answer.
FreePair(p) == \A port \in {p, p + 1} : port \notin allocated /\ foreign[port] = "none"

Served ==
  (\E p \in Even : <>[]FreePair(p)) =>
     \A c \in Callers : pc[c] = "lock" ~> (pc[c] \in {"ready", "failed"} \/ died)
=============================================================================
