----------------------------- MODULE ServerStart -----------------------------
(***************************************************************************)
(* The start of the server: EpollServer::run() loads conf/config.ini into  *)
(* an IniFile, takes the port from it, whatever it holds, and initserver() *)
(* binds a socket to it.  Before that, programs edit the file with an      *)
(* IniFile of their own; while the server runs it does not look at it.     *)
(***************************************************************************)
EXTENDS IniFile

CONSTANTS Ephemeral,   \* the ports the kernel may pick
          NotBound,
          LongMax,     \* 2^63 - 1, the largest number strtol() makes
          IntModulus   \* 2^32: an int has 32 bits

Server == <<"server">>
Port == <<"port">>
DefaultPort == 8554
PortModulus == 65536    \* sin_port has 16 bits

ASSUME PortAssumption ==
  /\ {Server[1], Port[1]} \subseteq Char
  /\ Ephemeral \subseteq 1..(PortModulus - 1) /\ Ephemeral # {}
  /\ NotBound \notin 0..(PortModulus - 1)
ASSUME IntAssumption ==
  /\ LongMax \in Nat /\ IntModulus \in Nat \ {0} /\ IntModulus % PortModulus = 0

VARIABLES
  phase,   \* "off", "listening", or "ended" when run() has returned
  port_,
  bound    \* the port the server listens on

startVars == <<vars, phase, port_, bound>>

Digit == "0" :> 0 @@ "1" :> 1 @@ "2" :> 2 @@ "3" :> 3 @@ "4" :> 4
         @@ "5" :> 5 @@ "6" :> 6 @@ "7" :> 7 @@ "8" :> 8 @@ "9" :> 9

\* The digits at the beginning.
Digits(s) ==
  LET end == SelectInSeq(s, LAMBDA c : c \notin DOMAIN Digit) IN
  IF end = 0 THEN s ELSE SubSeq(s, 1, end - 1)

\* Their number, or most if it is larger.
Number(digits, most) == FoldLeft(LAMBDA n, c : Min({10 * n + Digit[c], most}), 0, digits)

\* What isspace() takes for white space: tab, form feed and vertical tab (VT) as well.
Space == Blank \cup {"\t", "\f", "VT"}

\* What is left of a long in an int.
Int32(n) ==
  LET low == n % IntModulus IN IF low < IntModulus \div 2 THEN low ELSE low - IntModulus

\* Value::operator int: white space, a sign, digits, and whatever comes after them.
\* atoi() is strtol(), which stays within a long, cut down to an int.
atoi(s) ==
  LET first == SelectInSeq(s, LAMBDA c : c \notin Space)
      text == IF first = 0 THEN <<>> ELSE SubSeq(s, first, Len(s))
      signed == text # <<>> /\ text[1] \in {"-", "+"}
      digits == Digits(IF signed THEN Tail(text) ELSE text)
  IN Int32(IF signed /\ text[1] = "-" THEN -Number(digits, LongMax + 1)
           ELSE Number(digits, LongMax))

-----------------------------------------------------------------------------
Off == phase = "off" /\ port_ = DefaultPort /\ bound = NotBound

StartInit == Init /\ Off

\* An IniFile of another program.
Program == phase = "off" /\ Next /\ UNCHANGED <<phase, port_, bound>>

\* get() makes the entry that the file has not.
Config ==
  LET table == Loaded(Empty, disk) IN
  IF Port \in DOMAIN Section(table, Server) THEN table
  ELSE WithEntry(table, Server, Port, <<>>)

\* A socket bound to port 0 gets any port.  socket(), bind() or listen() may
\* fail, and run() returns.
initserver ==
  LET sin_port == port_' % PortModulus IN
  \/ phase' = "listening" /\ bound' \in (IF sin_port = 0 THEN Ephemeral ELSE {sin_port})
  \/ phase' = "ended" /\ UNCHANGED bound

run ==
  /\ phase = "off"
  /\ m_sections' = Config
  /\ port_' = atoi(Config[Server][Port])
  /\ initserver
  /\ UNCHANGED disk

\* epoll_wait() fails, and run() returns.
EpollFails == phase = "listening" /\ phase' = "ended" /\ UNCHANGED <<vars, port_, bound>>

\* main() returns, or the process is killed.
Exit ==
  /\ phase # "off" /\ phase' = "off"
  /\ m_sections' = Empty /\ port_' = DefaultPort /\ bound' = NotBound
  /\ UNCHANGED disk

\* The file is edited while the server runs.
EditConfig == phase # "off" /\ Edit /\ UNCHANGED <<phase, port_, bound>>

StartNext == Program \/ run \/ EpollFails \/ Exit \/ EditConfig

StartSpec == StartInit /\ [][StartNext]_startVars

-----------------------------------------------------------------------------
\* What the lines of a file say of the port: the last "port =" among the lines
\* behind the last "[server]", up to the next section; 0 if there is none.
Written(lines) ==
  LET Names(i) == NamesSection(trim(lines[i]))
      servers == {i \in DOMAIN lines : Names(i) /\ SectionName(trim(lines[i])) = Server}
      ports == {i \in DOMAIN lines :
                  /\ i > Max(servers) /\ \A j \in Max(servers) + 1..i : ~Names(j)
                  /\ Before("=", lines[i]) = Port}
  IN IF servers = {} \/ ports = {} THEN 0 ELSE atoi(Behind("=", lines[Max(ports)]))

\* The server listens on the port that the lines of its file say, or on any port
\* if they say none or 0: never on the default the constructor sets, and never on
\* a port that only an earlier section of that name had.
PortAsWritten ==
  [][phase = "off" /\ phase' # "off" =>
       /\ port_' = Written(disk)
       /\ phase' = "listening" /\ port_' \in 1..(PortModulus - 1) => bound' = port_'
     ]_startVars
=============================================================================
