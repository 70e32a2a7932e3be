------------------------------- MODULE Logger -------------------------------
(***************************************************************************)
(* fz::utility::Logger: threads call log(), which queues an entry and      *)
(* notifies; one background thread runs process_logs(), which writes the   *)
(* queue to a file and starts a new file when m_len reaches m_max; ~Logger *)
(* stops the thread when main() has returned.                              *)
(*                                                                         *)
(* m_queue_mutex is held for single queue operations only: each is one     *)
(* step here.  m_cv_mutex is taken by the background thread alone, so that *)
(* it excludes nobody and is left out.                                     *)
(***************************************************************************)
EXTENDS Integers, Sequences

CONSTANTS Threads,     \* the threads that log (event loop, two senders)
          MaxLogs,     \* bound: calls of log() a thread makes
          MaxTime,     \* bound: the last second of the clock
          Header,      \* what log() adds to m_len for an entry
          EntrySize,   \* the bytes of an entry in the file
          MaxLen,      \* m_max; 0 for no rotation
          None         \* nobody, nothing

Time == 0..MaxTime
FirstFile == -1        \* the file open() was given; the others are named by time

ASSUME NoneNotThread == None \notin Threads
ASSUME SizeAssumption ==
  /\ MaxLogs \in Nat /\ MaxTime \in Nat /\ MaxLen \in Nat
  /\ Header \in Nat \ {0} /\ EntrySize \in Nat \ {0}

\* An entry: who logged it, its number among that thread's, the time time()
\* returned in log(), and the time stamp printed in it.
Entry == [by : Threads, n : 1..MaxLogs, ticks : Time, stamp : Time]

VARIABLES
  clock,      \* time()
  tm,         \* the static buffer localtime() returns
  m_log_mutex,\* the thread holding it, or None
  m_len,
  m_log_queue,
  m_running,
  pc,         \* where each thread is in log()
  calls,      \* the number of calls each thread has begun
  entry,      \* the entry each thread is making
  lenRead,    \* m_len as a thread read it for m_len += size
  bg,         \* where the background thread is in process_logs()
  hand,       \* the entry it has popped, if any
  rotTicks,   \* the time time() returned in rotate()
  file,       \* the open file
  sizes,      \* the bytes in each file
  written,    \* everything written, in order, over all files
  stopping    \* where stop() is

threadVars == <<m_log_mutex, pc, calls, entry, lenRead>>
bgVars == <<bg, hand>>
fileVars == <<rotTicks, file, sizes, written>>
stopVars == <<m_running, stopping>>
vars == <<clock, tm, m_len, m_log_queue, threadVars, bgVars, fileVars, stopVars>>

ThreadPC == {"idle", "timed", "converted", "stamped", "counting", "counted", "queued"}
BgPC == {"loop", "check", "parking", "waiting", "drain", "write", "rotate",
         "convert", "open", "done", "thrown"}

TypeOK ==
  /\ clock \in Time /\ tm \in Time
  /\ m_log_mutex \in Threads \cup {None}
  /\ m_len \in Nat
  /\ m_log_queue \in Seq(Entry)
  /\ m_running \in BOOLEAN
  /\ pc \in [Threads -> ThreadPC]
  /\ calls \in [Threads -> 0..MaxLogs]
  /\ entry \in [Threads -> Entry \cup {None}]
  /\ lenRead \in [Threads -> Nat]
  /\ bg \in BgPC
  /\ hand \in Seq(Entry) /\ Len(hand) <= 1
  /\ rotTicks \in Time
  /\ file \in Time \cup {FirstFile}
  /\ sizes \in [Time \cup {FirstFile} -> Nat]
  /\ written \in Seq(Entry)
  /\ stopping \in {"no", "set", "notified", "joined"}

Init ==
  /\ clock = 0 /\ tm = 0
  /\ m_log_mutex = None
  /\ m_len = 0
  /\ m_log_queue = <<>>
  /\ m_running = TRUE
  /\ pc = [t \in Threads |-> "idle"]
  /\ calls = [t \in Threads |-> 0]
  /\ entry = [t \in Threads |-> None]
  /\ lenRead = [t \in Threads |-> 0]
  /\ bg = "loop"
  /\ hand = <<>>
  /\ rotTicks = 0
  /\ file = FirstFile
  /\ sizes = [f \in Time \cup {FirstFile} |-> 0]
  /\ written = <<>>
  /\ stopping = "no"

\* An exception in the background thread ends the process.
Alive == bg # "thrown"

Tick ==
  /\ Alive /\ clock < MaxTime
  /\ clock' = clock + 1
  /\ UNCHANGED <<tm, m_len, m_log_queue, threadVars, bgVars, fileVars, stopVars>>

-----------------------------------------------------------------------------
(* log() *)

Goto(t, from, to) == Alive /\ pc[t] = from /\ pc' = [pc EXCEPT ![t] = to]

\* Mutation: m_log_mutex is not taken.
LogTimeUnlocked(t) ==
  /\ Goto(t, "idle", "timed")
  /\ stopping = "no"
  /\ calls[t] < MaxLogs
  /\ calls' = [calls EXCEPT ![t] = @ + 1]
  /\ entry' = [entry EXCEPT ![t] =
       [by |-> t, n |-> calls[t] + 1, ticks |-> clock, stamp |-> clock]]
  /\ UNCHANGED <<clock, tm, m_len, m_log_queue, m_log_mutex, lenRead, bgVars, fileVars, stopVars>>

\* Lock m_log_mutex, call time().
LogTime(t) ==
  /\ Goto(t, "idle", "timed")
  /\ m_log_mutex = None /\ m_log_mutex' = t
  /\ stopping = "no"
  /\ calls[t] < MaxLogs
  /\ calls' = [calls EXCEPT ![t] = @ + 1]
  /\ entry' = [entry EXCEPT ![t] =
       [by |-> t, n |-> calls[t] + 1, ticks |-> clock, stamp |-> clock]]
  /\ UNCHANGED <<clock, tm, m_len, m_log_queue, lenRead, bgVars, fileVars, stopVars>>

\* localtime() fills the buffer every thread shares, rotate() included.
LogLocaltime(t) ==
  /\ Goto(t, "timed", "converted")
  /\ tm' = entry[t].ticks
  /\ UNCHANGED <<clock, m_len, m_log_queue, m_log_mutex, calls, entry, lenRead>>
  /\ UNCHANGED <<bgVars, fileVars, stopVars>>

\* Mutation: the scope of m_log_mutex ends with the time stamp.
LogStampUnlocks(t) ==
  /\ Goto(t, "converted", "stamped")
  /\ entry' = [entry EXCEPT ![t].stamp = tm]
  /\ m_log_mutex' = None
  /\ UNCHANGED <<clock, tm, m_len, m_log_queue, calls, lenRead>>
  /\ UNCHANGED <<bgVars, fileVars, stopVars>>

\* strftime() prints what the buffer holds by now.
LogStamp(t) ==
  /\ Goto(t, "converted", "stamped")
  /\ entry' = [entry EXCEPT ![t].stamp = tm]
  /\ UNCHANGED <<clock, tm, m_len, m_log_queue, m_log_mutex, calls, lenRead>>
  /\ UNCHANGED <<bgVars, fileVars, stopVars>>

\* m_len += size, a read and a write; open() writes m_len without this lock.
LogReadLen(t) ==
  /\ Goto(t, "stamped", "counting")
  /\ lenRead' = [lenRead EXCEPT ![t] = m_len]
  /\ UNCHANGED <<clock, tm, m_len, m_log_queue, m_log_mutex, calls, entry>>
  /\ UNCHANGED <<bgVars, fileVars, stopVars>>

LogWriteLen(t) ==
  /\ Goto(t, "counting", "counted")
  /\ m_len' = lenRead[t] + Header
  /\ UNCHANGED <<clock, tm, m_log_queue, m_log_mutex, calls, entry, lenRead>>
  /\ UNCHANGED <<bgVars, fileVars, stopVars>>

\* Push the entry; both locks are released.
LogPush(t) ==
  /\ Goto(t, "counted", "queued")
  /\ m_log_queue' = Append(m_log_queue, entry[t])
  /\ m_log_mutex' = None
  /\ UNCHANGED <<clock, tm, m_len, calls, entry, lenRead, bgVars, fileVars, stopVars>>

\* notify_one() and notify_all(): a thread that is not waiting yet is not woken.
Notify == bg' = IF bg = "waiting" THEN "check" ELSE bg

LogNotify(t) ==
  /\ Goto(t, "queued", "idle")
  /\ Notify
  /\ UNCHANGED <<clock, tm, m_len, m_log_queue, m_log_mutex, calls, entry, lenRead>>
  /\ UNCHANGED <<hand, fileVars, stopVars>>

-----------------------------------------------------------------------------
(* process_logs() *)

BgGoto(from, to) == bg = from /\ bg' = to

Empty == m_log_queue = <<>>
Full == m_len >= MaxLen /\ MaxLen > 0

\* Mutation: while (m_running).
BgLoopRunning ==
  /\ \/ m_running /\ BgGoto("loop", "check")
     \/ ~m_running /\ BgGoto("loop", "done")
  /\ UNCHANGED <<clock, tm, m_len, m_log_queue, threadVars, hand, fileVars, stopVars>>

\* Line 143: while (m_running || !m_log_queue.empty())
BgLoop ==
  /\ \/ (m_running \/ ~Empty) /\ BgGoto("loop", "check")
     \/ ~m_running /\ Empty /\ BgGoto("loop", "done")
  /\ UNCHANGED <<clock, tm, m_len, m_log_queue, threadVars, hand, fileVars, stopVars>>

\* Mutation: the wait has no predicate.
BgCheckNothing ==
  /\ BgGoto("check", "parking")
  /\ UNCHANGED <<clock, tm, m_len, m_log_queue, threadVars, hand, fileVars, stopVars>>

\* Line 145, the predicate of the wait.
BgCheck ==
  /\ \/ (~Empty \/ ~m_running) /\ BgGoto("check", "drain")
     \/ Empty /\ m_running /\ BgGoto("check", "parking")
  /\ UNCHANGED <<clock, tm, m_len, m_log_queue, threadVars, hand, fileVars, stopVars>>

\* The thread becomes a waiter of m_condition.
BgWait ==
  /\ BgGoto("parking", "waiting")
  /\ UNCHANGED <<clock, tm, m_len, m_log_queue, threadVars, hand, fileVars, stopVars>>

\* A wait may return unnotified.
BgSpurious ==
  /\ BgGoto("waiting", "check")
  /\ UNCHANGED <<clock, tm, m_len, m_log_queue, threadVars, hand, fileVars, stopVars>>

\* Lines 147-154.
BgPop ==
  /\ ~Empty /\ BgGoto("drain", "write")
  /\ hand' = <<Head(m_log_queue)>>
  /\ m_log_queue' = Tail(m_log_queue)
  /\ UNCHANGED <<clock, tm, m_len, threadVars, fileVars, stopVars>>

BgDrained ==
  /\ Empty /\ BgGoto("drain", "loop")
  /\ UNCHANGED <<clock, tm, m_len, m_log_queue, threadVars, hand, fileVars, stopVars>>

\* Write and flush, then see whether the file is full.  Writes to an open file
\* are taken to succeed.
BgWrite ==
  /\ \/ Full /\ BgGoto("write", "rotate")
     \/ ~Full /\ BgGoto("write", "drain")
  /\ written' = written \o hand
  /\ hand' = <<>>
  /\ sizes' = [sizes EXCEPT ![file] = @ + EntrySize]
  /\ UNCHANGED <<clock, tm, m_len, m_log_queue, threadVars, rotTicks, file, stopVars>>

\* rotate(): close(), time(), then localtime() without m_log_mutex.
BgRotate ==
  /\ BgGoto("rotate", "convert")
  /\ rotTicks' = clock
  /\ UNCHANGED <<clock, tm, m_len, m_log_queue, threadVars, hand>>
  /\ UNCHANGED <<file, sizes, written, stopVars>>

BgLocaltime ==
  /\ BgGoto("convert", "open")
  /\ tm' = rotTicks
  /\ UNCHANGED <<clock, m_len, m_log_queue, threadVars, hand, fileVars, stopVars>>

\* Mutation: tellp() of a file that is not open is -1.
BgOpenUnchecked ==
  /\ BgGoto("open", "drain")
  /\ file' = tm
  /\ m_len' \in {sizes[tm], -1}
  /\ UNCHANGED <<clock, tm, m_log_queue, threadVars, hand, rotTicks, sizes>>
  /\ UNCHANGED <<written, stopVars>>

\* open() appends to the file of that second, new or not, and takes its length.
BgOpen ==
  /\ BgGoto("open", "drain")
  /\ file' = tm
  /\ m_len' = sizes[tm]
  /\ UNCHANGED <<clock, tm, m_log_queue, threadVars, hand, rotTicks, sizes>>
  /\ UNCHANGED <<written, stopVars>>

\* The new file cannot be opened: open() throws, nothing catches.
BgOpenFails ==
  /\ BgGoto("open", "thrown")
  /\ UNCHANGED <<clock, tm, m_len, m_log_queue, threadVars, hand, fileVars, stopVars>>

-----------------------------------------------------------------------------
(* stop(), called by ~Logger at exit, when no thread logs any more. *)

StopSet ==
  /\ Alive /\ stopping = "no" /\ stopping' = "set"
  /\ \A t \in Threads : pc[t] = "idle"
  /\ m_running' = FALSE
  /\ UNCHANGED <<clock, tm, m_len, m_log_queue, threadVars, bgVars, fileVars>>

StopNotify ==
  /\ Alive /\ stopping = "set" /\ stopping' = "notified"
  /\ Notify
  /\ UNCHANGED <<clock, tm, m_len, m_log_queue, threadVars, hand, fileVars, m_running>>

StopJoin ==
  /\ stopping = "notified" /\ stopping' = "joined"
  /\ bg = "done"
  /\ UNCHANGED <<clock, tm, m_len, m_log_queue, threadVars, bgVars, fileVars, m_running>>

-----------------------------------------------------------------------------
LogStep(t) ==
  \/ LogLocaltime(t) \/ LogStamp(t) \/ LogReadLen(t) \/ LogWriteLen(t)
  \/ LogPush(t) \/ LogNotify(t)

BgStep ==
  \/ BgLoop \/ BgCheck \/ BgWait \/ BgPop \/ BgDrained \/ BgWrite
  \/ BgRotate \/ BgLocaltime \/ BgOpen \/ BgOpenFails

StopStep == StopSet \/ StopNotify \/ StopJoin

Next ==
  \/ Tick
  \/ \E t \in Threads : LogTime(t) \/ LogStep(t)
  \/ BgStep
  \/ BgSpurious
  \/ StopStep

\* A call of log() that has begun goes on, and so does the background thread.
\* Nobody has to log, the server may run for ever, and no wait has to return
\* unnotified.
Fairness == WF_vars(BgStep) /\ \A t \in Threads : WF_vars(LogStep(t))

Spec == Init /\ [][Next]_vars
FairSpec == Spec /\ Fairness

-----------------------------------------------------------------------------
\* The logger is a channel: what was written, what the background thread holds
\* and what is queued are, in this order, what was logged.
Channel == INSTANCE LogChannel WITH
  logged <- written \o hand \o m_log_queue

\* Callers' entries reach the files in the order of the times they were logged
\* at, none lost, none twice, although queue and lengths are shared by threads
\* and files change under way.
ChannelSpec == Channel!Spec

\* The loop of process_logs ends only when everything logged is in a file,
\* although it looks at the queue without its lock (lines 143 and 147).
FlushedAtExit == bg = "done" => m_log_queue = <<>> /\ hand = <<>>

\* What is queued while the background thread is awake gets written, and a stop()
\* that finds it awake ends it, whatever notifications it missed (unless a new file
\* cannot be opened): only between its predicate and its wait can either be lost.
Awake == bg \notin {"parking", "waiting"}
AwakeDrains ==
  /\ (Awake /\ ~Empty) ~> (Empty \/ ~Alive)
  /\ (Awake /\ ~m_running) ~> (bg = "done" \/ ~Alive)

\* Logger.cpp:111 says of the notification that it has the background thread
\* handle the entry: what is queued gets written.
LoggedIsWritten == ~Empty ~> (Empty \/ ~Alive)

\* m_log_mutex keeps the buffer of localtime() for one call of log() until its
\* time stamp is printed: no other call changes it.  Only rotate() can, which does
\* not take that lock, so that an entry may bear the time of a rotation (Logger.cpp
\* 54 says of the lock that it makes the time stamp thread safe).
OnlyRotationDisturbs ==
  [][\A t \in Threads : pc[t] = "converted" /\ tm' # tm => bg = "convert"]_vars
=============================================================================
