---------------------------- MODULE Logger_proofs ----------------------------
(***************************************************************************)
(* The logger is a channel, and it ends empty, for every number of         *)
(* threads, entries, seconds and bytes.                                    *)
(*                                                                         *)
(* The order of the entries is that of their times because m_log_mutex is  *)
(* held from time() to the push: whoever holds it took a time no earlier   *)
(* than those of all entries pushed before.                                *)
(***************************************************************************)
EXTENDS Logger, SequenceTheorems, TLAPS

\* A thread between time() and the push.
InLock(t) == pc[t] \in {"timed", "converted", "stamped", "counting", "counted"}

logged == written \o hand \o m_log_queue

MutexHeld == \A t \in Threads : InLock(t) => m_log_mutex = t

EntryMade == \A t \in Threads : InLock(t) => entry[t] \in Entry

NoLaterThan(ticks) == \A i \in DOMAIN logged : logged[i].ticks <= ticks

LoggedBefore ==
  /\ NoLaterThan(clock)
  /\ \A t \in Threads : InLock(t) => NoLaterThan(entry[t].ticks) /\ entry[t].ticks <= clock

\* The background thread holds an entry only on its way to write it.
HandAtWrite == hand # <<>> => bg = "write"

\* m_running is cleared when no thread logs any more.
QuietAtStop ==
  /\ ~m_running => stopping # "no"
  /\ stopping # "no" => \A t \in Threads : pc[t] = "idle"

DoneIsStopped == bg = "done" => ~m_running

LoggerInv ==
  /\ TypeOK
  /\ MutexHeld /\ EntryMade /\ LoggedBefore /\ HandAtWrite
  /\ QuietAtStop /\ DoneIsStopped /\ FlushedAtExit
-----------------------------------------------------------------------------
(* Queue, hand and files as one sequence. *)

LEMMA PushIsLast ==
  ASSUME NEW S, NEW w \in Seq(S), NEW h \in Seq(S), NEW q \in Seq(S), NEW e \in S
  PROVE  w \o h \o Append(q, e) = Append(w \o h \o q, e)
<1>1. w \o h \in Seq(S) /\ <<e>> \in Seq(S)
  BY ConcatProperties
<1>2. w \o h \o q \in Seq(S)
  BY <1>1, ConcatProperties
<1>3. Append(q, e) = q \o <<e>>
  BY AppendIsConcat
<1>4. Append(w \o h \o q, e) = w \o h \o q \o <<e>>
  BY <1>2, AppendIsConcat
<1>5. w \o h \o (q \o <<e>>) = w \o h \o q \o <<e>>
  BY <1>1, ConcatAssociative
<1>6. QED
  BY <1>3, <1>4, <1>5

LEMMA SingleEntry ==
  ASSUME NEW S, NEW q \in Seq(S), Len(q) = 1
  PROVE  q[1] \in S /\ q = <<q[1]>>
<1>1. q[1] \in S
  BY ElementOfSeq
<1> DEFINE e == q[1]
<1> HIDE DEF e
<1>2. <<e>> \in Seq(S) /\ Len(<<e>>) = 1 /\ <<e>>[1] = e
  BY <1>1 DEF e
<1>3. \A i \in 1..1 : q[i] = <<e>>[i]
  BY <1>2 DEF e
<1>4. q = <<e>>
  BY <1>2, <1>3, SeqEqual
<1>5. QED
  BY <1>1, <1>4 DEF e

LEMMA PopKeepsOrder ==
  ASSUME NEW S, NEW w \in Seq(S), NEW q \in Seq(S), q # <<>>
  PROVE  w \o <<Head(q)>> \o Tail(q) = w \o <<>> \o q
<1>1. /\ <<Head(q)>> \in Seq(S) /\ Tail(q) \in Seq(S) /\ Len(q) \in Nat \ {0}
      /\ Len(Tail(q)) = Len(q) - 1
      /\ \A i \in 1..Len(Tail(q)) : Tail(q)[i] = q[i + 1]
  BY HeadTailProperties, EmptySeq
<1> DEFINE s == <<Head(q)>> \o Tail(q)
<1>2. /\ s \in Seq(S) /\ Len(s) = Len(q)
      /\ \A i \in 1..Len(q) : s[i] = IF i <= 1 THEN Head(q) ELSE Tail(q)[i - 1]
  BY <1>1, ConcatProperties
<1>3. \A i \in 1..Len(q) : s[i] = q[i]
  BY <1>1, <1>2
<1>4. s = q
  <2> HIDE DEF s
  <2> QED
    BY <1>2, <1>3, SeqEqual
<1>5. w \o <<Head(q)>> \o Tail(q) = w \o s
  BY <1>1, ConcatAssociative
<1>6. w \o <<>> = w
  BY ConcatEmptySeq
<1>7. QED
  BY <1>4, <1>5, <1>6

LEMMA WriteKeepsOrder ==
  ASSUME NEW S, NEW w \in Seq(S), NEW h \in Seq(S), NEW q
  PROVE  (w \o h) \o <<>> \o q = w \o h \o q
<1>1. w \o h \in Seq(S)
  BY ConcatProperties
<1>2. QED
  BY <1>1, ConcatEmptySeq

\* The entry in hand is the next one to write.
LEMMA WrittenIsNext ==
  ASSUME NEW S, NEW w \in Seq(S), NEW x \in S, NEW q \in Seq(S)
  PROVE  /\ Len(w) < Len(w \o <<x>> \o q)
         /\ w \o <<x>> = Append(w, (w \o <<x>> \o q)[Len(w) + 1])
<1>1. Len(w) \in Nat /\ Len(q) \in Nat /\ <<x>> \in Seq(S) /\ Len(<<x>>) = 1
  BY LenProperties
<1> DEFINE a == Append(w, x)
<1>2. a = w \o <<x>>
  BY AppendIsConcat
<1>3. a \in Seq(S) /\ Len(a) = Len(w) + 1 /\ a[Len(w) + 1] = x
  BY AppendProperties
<1> HIDE DEF a
<1>4. /\ Len(a \o q) = Len(a) + Len(q)
      /\ \A i \in 1..Len(a) + Len(q) : (a \o q)[i] = IF i <= Len(a) THEN a[i] ELSE q[i - Len(a)]
  BY <1>3, ConcatProperties
<1>5. Len(w) < Len(a \o q) /\ (a \o q)[Len(w) + 1] = x
  BY <1>1, <1>3, <1>4
<1>6. a = Append(w, x)
  BY DEF a
<1>7. QED
  BY <1>2, <1>5, <1>6

\* A push appends to what is logged, no other step changes it.
LEMMA PushIsLogged ==
  ASSUME written \in Seq(Entry), hand \in Seq(Entry), m_log_queue \in Seq(Entry),
         NEW e \in Entry, m_log_queue' = Append(m_log_queue, e), written' = written, hand' = hand
  PROVE  logged' = Append(logged, e)
<1>1. written \o hand \o Append(m_log_queue, e) = Append(written \o hand \o m_log_queue, e)
  BY PushIsLast
<1>2. logged' = written \o hand \o Append(m_log_queue, e)
  BY DEF logged
<1>3. QED
  BY <1>1, <1>2 DEF logged

LEMMA LoggedStep ==
  ASSUME LoggerInv, [Next]_vars
  PROVE  \/ logged' = logged
         \/ \E t \in Threads : LogPush(t) /\ logged' = Append(logged, entry[t])
<1>1. /\ written \in Seq(Entry) /\ hand \in Seq(Entry) /\ m_log_queue \in Seq(Entry)
      /\ \A t \in Threads : InLock(t) => entry[t] \in Entry
      /\ hand # <<>> => bg = "write"
  BY DEF LoggerInv, TypeOK, EntryMade, HandAtWrite
<1>2. CASE \E t \in Threads : LogPush(t)
  <2>1. PICK t \in Threads : LogPush(t)
    BY <1>2
  <2>2. entry[t] \in Entry
    BY <1>1, <2>1 DEF LogPush, Goto, InLock
  <2>3. /\ m_log_queue' = Append(m_log_queue, entry[t])
        /\ written' = written /\ hand' = hand
    BY <2>1 DEF LogPush, bgVars, fileVars
  <2>4. logged' = Append(logged, entry[t])
    BY <1>1, <2>2, <2>3, PushIsLogged, Zenon
  <2>5. QED
    BY <2>1, <2>4
<1>3. CASE BgPop
  <2>1. /\ hand = <<>> /\ m_log_queue # <<>> /\ written' = written
        /\ hand' = <<Head(m_log_queue)>> /\ m_log_queue' = Tail(m_log_queue)
    BY <1>1, <1>3 DEF BgPop, BgGoto, Empty, fileVars
  <2>2. QED
    BY <1>1, <2>1, PopKeepsOrder DEF logged
<1>4. CASE BgWrite
  <2>1. written' = written \o hand /\ hand' = <<>> /\ m_log_queue' = m_log_queue
    BY <1>4 DEF BgWrite
  <2>2. QED
    BY <1>1, <2>1, WriteKeepsOrder DEF logged
<1>5. CASE [Next]_vars /\ ~BgPop /\ ~BgWrite /\ ~\E t \in Threads : LogPush(t)
  <2>1. UNCHANGED <<written, hand, m_log_queue>>
    BY <1>5 DEF Next, Tick, LogTime, LogStep, LogLocaltime, LogStamp, LogReadLen, LogWriteLen,
                LogNotify, BgStep, BgLoop, BgCheck, BgWait, BgSpurious, BgDrained, BgRotate,
                BgLocaltime, BgOpen, BgOpenFails, StopStep, StopSet, StopNotify, StopJoin,
                vars, bgVars, fileVars
  <2>2. QED
    BY <2>1 DEF logged
<1>6. QED
  BY <1>2, <1>3, <1>4, <1>5

-----------------------------------------------------------------------------
(* The invariant, part by part. *)

LEMMA NextCall ==
  ASSUME TypeOK, NEW t \in Threads, LogTime(t)
  PROVE  calls[t] + 1 \in 1..MaxLogs
<1> DEFINE c == calls[t]
<1>1. c \in 0..MaxLogs
  BY DEF TypeOK
<1>2. c < MaxLogs
  BY DEF LogTime
<1> HIDE DEF c
<1>3. c + 1 \in 1..MaxLogs
  BY <1>1, <1>2, SizeAssumption
<1>4. QED
  BY <1>3 DEF c

LEMMA LogTypes ==
  ASSUME LoggerInv, NEW t \in Threads, LogTime(t) \/ LogStep(t)
  PROVE  TypeOK'
<1>1. TypeOK /\ (InLock(t) => entry[t] \in Entry)
  BY DEF LoggerInv, EntryMade
<1>2. CASE LogTime(t)
  <2>1. calls[t] + 1 \in 1..MaxLogs
    BY <1>1, <1>2, NextCall, Zenon
  <2>2. [by |-> t, n |-> calls[t] + 1, ticks |-> clock, stamp |-> clock] \in Entry
    BY <1>1, <2>1 DEF TypeOK, Entry
  <2>3. /\ pc' \in [Threads -> ThreadPC] /\ calls' \in [Threads -> 0..MaxLogs]
        /\ entry' \in [Threads -> Entry \cup {None}] /\ m_log_mutex' \in Threads \cup {None}
    BY <1>1, <1>2, <2>1, <2>2 DEF LogTime, Goto, ThreadPC, TypeOK
  <2>4. QED
    BY <1>1, <1>2, <2>3 DEF LogTime, TypeOK, bgVars, fileVars, stopVars
<1>3. CASE LogLocaltime(t)
  <2>1. entry[t].ticks \in Time
    BY <1>1, <1>3 DEF LogLocaltime, Goto, InLock, Entry
  <2>2. QED
    BY <1>1, <1>3, <2>1
       DEF LogLocaltime, Goto, ThreadPC, TypeOK, bgVars, fileVars, stopVars
<1>4. CASE LogStamp(t)
  <2>1. entry[t] \in Entry /\ tm \in Time
    BY <1>1, <1>4 DEF LogStamp, Goto, InLock, TypeOK
  <2>2. [entry[t] EXCEPT !.stamp = tm] \in Entry
    BY <2>1 DEF Entry
  <2>3. entry' = [entry EXCEPT ![t] = [entry[t] EXCEPT !.stamp = tm]]
    BY <1>4 DEF LogStamp
  <2>4. entry' \in [Threads -> Entry \cup {None}]
    BY <1>1, <2>2, <2>3 DEF TypeOK
  <2>5. QED
    BY <1>1, <1>4, <2>4 DEF LogStamp, Goto, ThreadPC, TypeOK, bgVars, fileVars, stopVars
<1>5. CASE LogReadLen(t)
  BY <1>1, <1>5 DEF LogReadLen, Goto, ThreadPC, TypeOK, bgVars, fileVars, stopVars
<1>6. CASE LogWriteLen(t)
  <2>1. m_len' \in Nat
    <3>1. lenRead[t] \in Nat /\ m_len' = lenRead[t] + Header
      BY <1>1, <1>6 DEF LogWriteLen, TypeOK
    <3>2. QED
      BY <3>1, SizeAssumption
  <2>2. pc' \in [Threads -> ThreadPC]
    BY <1>1, <1>6 DEF LogWriteLen, Goto, ThreadPC, TypeOK
  <2>3. QED
    BY <1>1, <1>6, <2>1, <2>2 DEF LogWriteLen, TypeOK, bgVars, fileVars, stopVars
<1>7. CASE LogPush(t)
  <2>1. entry[t] \in Entry
    BY <1>1, <1>7 DEF LogPush, Goto, InLock
  <2>2. QED
    BY <1>1, <1>7, <2>1 DEF LogPush, Goto, ThreadPC, TypeOK, bgVars, fileVars, stopVars
<1>8. CASE LogNotify(t)
  BY <1>1, <1>8 DEF LogNotify, Notify, BgPC, Goto, ThreadPC, TypeOK, bgVars, fileVars, stopVars
<1>9. QED
  BY <1>2, <1>3, <1>4, <1>5, <1>6, <1>7, <1>8 DEF LogStep

LEMMA BgTypes ==
  ASSUME LoggerInv, BgStep \/ BgSpurious
  PROVE  TypeOK'
<1>1. TypeOK
  BY DEF LoggerInv
<1>2. CASE BgLoop \/ BgCheck \/ BgWait \/ BgSpurious \/ BgDrained \/ BgOpenFails
  BY <1>1, <1>2 DEF BgLoop, BgCheck, BgWait, BgSpurious, BgDrained, BgOpenFails, BgGoto, BgPC,
                    TypeOK, threadVars, fileVars, stopVars
<1>3. CASE BgPop
  <2>1. Head(m_log_queue) \in Entry /\ Tail(m_log_queue) \in Seq(Entry)
    BY <1>1, <1>3 DEF BgPop, Empty, TypeOK
  <2>2. QED
    BY <1>1, <1>3, <2>1 DEF BgPop, BgGoto, BgPC, TypeOK, threadVars, fileVars, stopVars
<1>4. CASE BgWrite
  <2>1. written \o hand \in Seq(Entry) /\ sizes' \in [Time \cup {FirstFile} -> Nat]
    BY <1>1, <1>4, SizeAssumption, ConcatProperties DEF BgWrite, TypeOK
  <2>2. QED
    BY <1>1, <1>4, <2>1 DEF BgWrite, BgGoto, BgPC, TypeOK, threadVars, stopVars
<1>5. CASE BgRotate \/ BgLocaltime \/ BgOpen
  BY <1>1, <1>5 DEF BgRotate, BgLocaltime, BgOpen, BgGoto, BgPC, TypeOK, threadVars, fileVars,
                    stopVars
<1>6. QED
  BY <1>2, <1>3, <1>4, <1>5 DEF BgStep

LEMMA TypeStep ==
  ASSUME LoggerInv, [Next]_vars
  PROVE  TypeOK'
<1>1. TypeOK
  BY DEF LoggerInv
<1>2. CASE Tick
  BY <1>1, <1>2, SizeAssumption DEF Tick, Time, TypeOK, threadVars, bgVars, fileVars, stopVars
<1>3. CASE \E t \in Threads : LogTime(t) \/ LogStep(t)
  BY <1>3, LogTypes
<1>4. CASE BgStep \/ BgSpurious
  BY <1>4, BgTypes
<1>5. CASE StopStep
  BY <1>1, <1>5 DEF StopStep, StopSet, StopNotify, StopJoin, Notify, BgPC, TypeOK, threadVars,
                    bgVars, fileVars
<1>6. CASE UNCHANGED vars
  BY <1>1, <1>6 DEF vars, TypeOK, threadVars, bgVars, fileVars, stopVars
<1>7. QED
  BY <1>2, <1>3, <1>4, <1>5, <1>6 DEF Next

\* The steps that take no part in log().
Elsewhere == Tick \/ BgStep \/ BgSpurious \/ StopStep \/ UNCHANGED vars

LEMMA ElsewhereKeeps ==
  ASSUME Elsewhere
  PROVE  UNCHANGED threadVars
BY DEF Elsewhere, Tick, BgStep, BgLoop, BgCheck, BgWait, BgSpurious, BgPop, BgDrained, BgWrite,
       BgRotate, BgLocaltime, BgOpen, BgOpenFails, StopStep, StopSet, StopNotify, StopJoin, vars

\* m_log_mutex keeps all threads but one out of log().
LEMMA MutexStep ==
  ASSUME LoggerInv, [Next]_vars
  PROVE  MutexHeld' /\ EntryMade'
<1>1. MutexHeld /\ EntryMade /\ TypeOK /\ TypeOK'
  BY TypeStep DEF LoggerInv
<1>2. CASE Elsewhere
  BY <1>1, <1>2, ElsewhereKeeps DEF threadVars, MutexHeld, EntryMade, InLock
<1>3. ASSUME NEW t \in Threads, LogTime(t)
      PROVE  MutexHeld' /\ EntryMade'
  <2>1. \A u \in Threads : u # t => pc'[u] = pc[u] /\ entry'[u] = entry[u]
    BY <1>1, <1>3 DEF LogTime, Goto, TypeOK
  <2>2. m_log_mutex = None /\ m_log_mutex' = t
    BY <1>3 DEF LogTime
  <2>3. entry'[t] \in Entry
    <3>1. entry'[t] = [by |-> t, n |-> calls[t] + 1, ticks |-> clock, stamp |-> clock]
      BY <1>1, <1>3 DEF LogTime, TypeOK
    <3>2. calls[t] + 1 \in 1..MaxLogs
      BY <1>1, <1>3, NextCall, Zenon
    <3>3. QED
      BY <1>1, <3>1, <3>2 DEF TypeOK, Entry
  <2>4. QED
    BY <1>1, <2>1, <2>2, <2>3, NoneNotThread DEF MutexHeld, EntryMade, InLock, TypeOK
<1>4. ASSUME NEW t \in Threads, LogStep(t)
      PROVE  MutexHeld' /\ EntryMade'
  <2>1. \A u \in Threads : u # t => pc'[u] = pc[u] /\ entry'[u] = entry[u]
    BY <1>1, <1>4 DEF LogStep, LogLocaltime, LogStamp, LogReadLen, LogWriteLen, LogPush,
                      LogNotify, Goto, TypeOK
  <2>2. CASE LogPush(t) \/ LogNotify(t)
    <3>1. ~InLock(t)'
      BY <1>1, <2>2 DEF LogPush, LogNotify, Goto, InLock, TypeOK
    <3>2. \A u \in Threads : InLock(u)' => u # t /\ InLock(u)
      BY <2>1, <3>1 DEF InLock
    <3>3. \A u \in Threads : InLock(u)' => m_log_mutex' = u
      <4>1. CASE LogPush(t)
        <5>1. InLock(t)
          BY <4>1 DEF LogPush, Goto, InLock
        <5>2. QED
          BY <1>1, <3>2, <5>1 DEF MutexHeld
      <4>2. CASE LogNotify(t)
        BY <1>1, <3>2, <4>2 DEF LogNotify, MutexHeld
      <4>3. QED
        BY <2>2, <4>1, <4>2
    <3>4. QED
      BY <1>1, <2>1, <3>2, <3>3 DEF MutexHeld, EntryMade
  <2>3. CASE LogLocaltime(t) \/ LogStamp(t) \/ LogReadLen(t) \/ LogWriteLen(t)
    <3>1. InLock(t) /\ m_log_mutex' = m_log_mutex
      BY <2>3 DEF LogLocaltime, LogStamp, LogReadLen, LogWriteLen, Goto, InLock
    <3>2. entry'[t] \in Entry
      <4>1. entry[t] \in Entry
        BY <1>1, <3>1 DEF EntryMade
      <4>2. CASE LogStamp(t)
        <5>1. entry'[t] = [entry[t] EXCEPT !.stamp = tm]
          BY <1>1, <4>2 DEF LogStamp, TypeOK
        <5>2. QED
          BY <1>1, <4>1, <5>1 DEF Entry, TypeOK
      <4>3. CASE UNCHANGED entry
        BY <4>1, <4>3
      <4>4. QED
        BY <2>3, <4>2, <4>3 DEF LogLocaltime, LogReadLen, LogWriteLen
    <3>3. \A u \in Threads : InLock(u)' => InLock(u)
      BY <2>1, <3>1 DEF InLock
    <3>4. QED
      BY <1>1, <2>1, <3>1, <3>2, <3>3 DEF MutexHeld, EntryMade
  <2>4. QED
    BY <1>4, <2>2, <2>3 DEF LogStep
<1>5. QED
  BY <1>2, <1>3, <1>4 DEF Elsewhere, Next

\* Times in the queue do not run ahead of the clock, nor of a thread that has
\* taken its time and not yet pushed.
LEMMA LoggedBeforeStep ==
  ASSUME LoggerInv, [Next]_vars
  PROVE  LoggedBefore'
<1>1. /\ LoggedBefore /\ MutexHeld /\ EntryMade /\ TypeOK
      /\ MutexHeld' /\ EntryMade' /\ TypeOK'
  BY TypeStep, MutexStep DEF LoggerInv
<1>2. clock \in Int /\ clock' \in Int /\ clock <= clock'
  <2>1. clock' = clock \/ clock' = clock + 1
    BY DEF Next, Tick, LogTime, LogStep, LogLocaltime, LogStamp, LogReadLen, LogWriteLen, LogPush,
           LogNotify, BgStep, BgLoop, BgCheck, BgWait, BgSpurious, BgPop, BgDrained, BgWrite,
           BgRotate, BgLocaltime, BgOpen, BgOpenFails, StopStep, StopSet, StopNotify, StopJoin,
           vars
  <2>2. QED
    BY <1>1, <2>1, SizeAssumption DEF TypeOK, Time
<1>3. logged \in Seq(Entry)
  BY <1>1, ConcatProperties DEF logged, TypeOK
<1>4. \A i \in DOMAIN logged : logged[i].ticks \in Int
  <2>1. \A e \in Entry : e.ticks \in Int
    BY SizeAssumption DEF Entry, Time
  <2>2. \A i \in DOMAIN logged : logged[i] \in Entry
    BY <1>3, LenProperties, ElementOfSeq
  <2>3. QED
    BY <2>1, <2>2
<1>5. CASE \E t \in Threads : LogPush(t) /\ logged' = Append(logged, entry[t])
  <2>1. PICK t \in Threads : LogPush(t) /\ logged' = Append(logged, entry[t])
    BY <1>5
  <2>2. InLock(t) /\ entry[t] \in Entry /\ NoLaterThan(entry[t].ticks) /\ entry[t].ticks <= clock
    BY <1>1, <2>1 DEF LogPush, Goto, InLock, EntryMade, LoggedBefore
  <2>3. \A u \in Threads : ~InLock(u)'
    <3>1. \A u \in Threads : u # t => pc'[u] = pc[u]
      BY <1>1, <2>1 DEF LogPush, Goto, TypeOK
    <3>2. ~InLock(t)'
      BY <1>1, <2>1 DEF LogPush, Goto, InLock, TypeOK
    <3>3. QED
      BY <1>1, <2>2, <3>1, <3>2 DEF MutexHeld, InLock
  <2>4. \A i \in DOMAIN logged' :
          \/ i \in DOMAIN logged /\ logged'[i] = logged[i]
          \/ logged'[i] = entry[t]
    BY <1>3, <2>1, <2>2
  <2>5. \A i \in DOMAIN logged' : logged'[i].ticks <= clock
    BY <1>1, <2>2, <2>4 DEF LoggedBefore, NoLaterThan
  <2>6. clock' = clock
    BY <2>1 DEF LogPush
  <2>7. QED
    BY <2>3, <2>5, <2>6 DEF LoggedBefore, NoLaterThan
<1>6. CASE logged' = logged
  <2>1. NoLaterThan(clock)'
    BY <1>1, <1>2, <1>4, <1>6 DEF LoggedBefore, NoLaterThan
  <2>2. ASSUME NEW t \in Threads, InLock(t)'
        PROVE  /\ \A i \in DOMAIN logged : logged[i].ticks <= entry'[t].ticks
               /\ entry'[t].ticks <= clock'
    <3>1. CASE InLock(t) /\ entry'[t].ticks = entry[t].ticks
      <4>1. entry[t].ticks \in Int /\ entry[t].ticks <= clock /\ NoLaterThan(entry[t].ticks)
        BY <1>1, <3>1, SizeAssumption DEF EntryMade, LoggedBefore, Entry, Time
      <4>2. QED
        BY <1>2, <3>1, <4>1 DEF NoLaterThan
    <3>2. CASE entry'[t].ticks = clock
      BY <1>1, <1>2, <3>2 DEF LoggedBefore, NoLaterThan
    <3>3. \/ InLock(t) /\ entry'[t].ticks = entry[t].ticks
          \/ entry'[t].ticks = clock
      <4>1. CASE UNCHANGED threadVars
        BY <2>2, <4>1 DEF threadVars, InLock
      <4>2. ASSUME NEW u \in Threads, LogTime(u)
            PROVE  (InLock(t) /\ entry'[t].ticks = entry[t].ticks) \/ entry'[t].ticks = clock
        <5>1. CASE t = u
          BY <1>1, <4>2, <5>1 DEF LogTime, TypeOK
        <5>2. CASE t # u
          BY <1>1, <2>2, <4>2, <5>2 DEF LogTime, Goto, InLock, TypeOK
        <5>3. QED
          BY <5>1, <5>2
      <4>3. ASSUME NEW u \in Threads, LogStep(u)
            PROVE  InLock(t) /\ entry'[t].ticks = entry[t].ticks
        <5>1. InLock(t)
          BY <1>1, <2>2, <4>3
             DEF LogStep, LogLocaltime, LogStamp, LogReadLen, LogWriteLen, LogPush, LogNotify,
                 Goto, InLock, TypeOK
        <5>2. CASE LogStamp(u)
          <6>1. CASE t = u
            <7>1. entry'[t] = [entry[t] EXCEPT !.stamp = tm] /\ entry[t] \in Entry
              BY <1>1, <5>1, <5>2, <6>1 DEF LogStamp, TypeOK, EntryMade
            <7>2. QED
              BY <5>1, <7>1 DEF Entry
          <6>2. CASE t # u
            BY <1>1, <5>1, <5>2, <6>2 DEF LogStamp, TypeOK
          <6>3. QED
            BY <6>1, <6>2
        <5>3. CASE UNCHANGED entry
          BY <5>1, <5>3
        <5>4. QED
          BY <4>3, <5>2, <5>3
             DEF LogStep, LogLocaltime, LogReadLen, LogWriteLen, LogPush, LogNotify
      <4>4. QED
        BY <4>1, <4>2, <4>3, ElsewhereKeeps DEF Elsewhere, Next
    <3>4. QED
      BY <3>1, <3>2, <3>3
  <2>3. QED
    BY <1>6, <2>1, <2>2 DEF LoggedBefore, NoLaterThan
<1>7. QED
  BY <1>5, <1>6, LoggedStep

\* The loop ends with nothing in hand, and after stop() nothing is pushed.
LEMMA ExitStep ==
  ASSUME LoggerInv, [Next]_vars
  PROVE  HandAtWrite' /\ QuietAtStop' /\ DoneIsStopped' /\ FlushedAtExit'
<1>1. HandAtWrite /\ QuietAtStop /\ DoneIsStopped /\ FlushedAtExit /\ TypeOK
  BY DEF LoggerInv
<1>2. CASE \E t \in Threads : LogTime(t) \/ LogStep(t)
  <2>1. PICK t \in Threads : LogTime(t) \/ LogStep(t)
    BY <1>2
  <2>2. /\ stopping = "no" /\ m_running /\ UNCHANGED stopVars /\ hand' = hand
        /\ bg # "done" /\ (bg' = bg \/ (bg' = "check" /\ bg = "waiting"))
    <3>1. stopping = "no"
      BY <1>1, <2>1 DEF LogTime, LogStep, LogLocaltime, LogStamp, LogReadLen, LogWriteLen,
                        LogPush, LogNotify, Goto, QuietAtStop
    <3>2. UNCHANGED stopVars /\ hand' = hand /\ (bg' = bg \/ (bg' = "check" /\ bg = "waiting"))
      BY <2>1 DEF LogTime, LogStep, LogLocaltime, LogStamp, LogReadLen, LogWriteLen,
                  LogPush, LogNotify, Notify, bgVars
    <3>3. QED
      BY <1>1, <3>1, <3>2 DEF QuietAtStop, DoneIsStopped
  <2>3. QED
    BY <1>1, <2>2 DEF stopVars, HandAtWrite, QuietAtStop, DoneIsStopped, FlushedAtExit
<1>3. CASE BgStep \/ BgSpurious
  <2>1. UNCHANGED stopVars /\ UNCHANGED pc
    BY <1>3 DEF BgStep, BgLoop, BgCheck, BgWait, BgSpurious, BgPop, BgDrained, BgWrite, BgRotate,
                BgLocaltime, BgOpen, BgOpenFails, threadVars
  <2>2. QuietAtStop'
    BY <1>1, <2>1 DEF QuietAtStop, stopVars
  <2>3. HandAtWrite'
    BY <1>1, <1>3 DEF BgStep, BgLoop, BgCheck, BgWait, BgSpurious, BgPop, BgDrained, BgWrite,
                      BgRotate, BgLocaltime, BgOpen, BgOpenFails, BgGoto, HandAtWrite
  <2>4. bg' = "done" => ~m_running /\ m_log_queue' = <<>>
    BY <1>1, <1>3 DEF BgStep, BgLoop, BgCheck, BgWait, BgSpurious, BgPop, BgDrained, BgWrite,
                      BgRotate, BgLocaltime, BgOpen, BgOpenFails, BgGoto, Empty
  <2>5. QED
    BY <2>1, <2>2, <2>3, <2>4 DEF DoneIsStopped, FlushedAtExit, HandAtWrite, stopVars
<1>4. CASE Tick \/ StopStep \/ UNCHANGED vars
  BY <1>1, <1>4 DEF Tick, StopStep, StopSet, StopNotify, StopJoin, Notify, vars, threadVars,
                    bgVars, stopVars, HandAtWrite, QuietAtStop, DoneIsStopped, FlushedAtExit
<1>5. QED
  BY <1>2, <1>3, <1>4 DEF Next

-----------------------------------------------------------------------------
LEMMA LoggerInit == Init => LoggerInv
<1> SUFFICES ASSUME Init PROVE LoggerInv
  OBVIOUS
<1>1. TypeOK
  BY SizeAssumption DEF Init, TypeOK, Time, ThreadPC, BgPC, FirstFile
<1>2. \A t \in Threads : ~InLock(t)
  BY DEF Init, InLock
<1>3. logged = <<>>
  BY DEF Init, logged
<1>4. MutexHeld /\ EntryMade /\ LoggedBefore
  BY <1>2, <1>3 DEF MutexHeld, EntryMade, LoggedBefore, NoLaterThan
<1>5. HandAtWrite /\ QuietAtStop /\ DoneIsStopped /\ FlushedAtExit
  BY DEF Init, HandAtWrite, QuietAtStop, DoneIsStopped, FlushedAtExit
<1>6. QED
  BY <1>1, <1>4, <1>5 DEF LoggerInv

\* What holds of the logger at any time.
THEOREM LoggerInvariant == Spec => []LoggerInv
<1>1. LoggerInv /\ [Next]_vars => LoggerInv'
  BY TypeStep, MutexStep, LoggedBeforeStep, ExitStep DEF LoggerInv
<1>2. QED
  BY <1>1, LoggerInit, PTL DEF Spec

\* Every variable keeps to its values, the length of the file included, which two
\* threads write under different locks.
THEOREM LoggerTypeCorrect == Spec => []TypeOK
<1>1. LoggerInv => TypeOK
  BY DEF LoggerInv
<1>2. QED
  BY <1>1, LoggerInvariant, PTL

\* process_logs ends only when everything logged is in a file.
THEOREM LoggerFlushedAtExit == Spec => []FlushedAtExit
<1>1. LoggerInv => FlushedAtExit
  BY DEF LoggerInv
<1>2. QED
  BY <1>1, LoggerInvariant, PTL

\* A push is a Log step of the channel, a write is a Write step, and every
\* other step leaves the channel alone.
LEMMA ChannelStep ==
  ASSUME LoggerInv, [Next]_vars
  PROVE  [Channel!Next]_(Channel!vars)
<1>1. /\ TypeOK /\ EntryMade /\ LoggedBefore
      /\ written \in Seq(Entry) /\ hand \in Seq(Entry) /\ m_log_queue \in Seq(Entry)
      /\ Len(hand) <= 1
  BY DEF LoggerInv, TypeOK
<1>2. CASE \E t \in Threads : LogPush(t) /\ logged' = Append(logged, entry[t])
  <2>1. PICK t \in Threads : LogPush(t) /\ logged' = Append(logged, entry[t])
    BY <1>2
  <2>2. InLock(t) /\ UNCHANGED written
    BY <2>1 DEF LogPush, Goto, InLock, fileVars
  <2>3. entry[t] \in Entry /\ \A i \in DOMAIN logged : logged[i].ticks <= entry[t].ticks
    BY <1>1, <2>2 DEF EntryMade, LoggedBefore, NoLaterThan
  <2>4. Channel!Log
    BY <2>1, <2>2, <2>3 DEF Channel!Log, logged
  <2>5. QED
    BY <2>4 DEF Channel!Next
<1>3. CASE logged' = logged /\ BgWrite /\ hand # <<>>
  <2>1. written' = written \o hand
    BY <1>3 DEF BgWrite
  <2>2. PICK x \in Entry : hand = <<x>>
    <3>1. Len(hand) \in Nat \ {0}
      BY <1>1, <1>3, EmptySeq
    <3>2. Len(hand) = 1
      <4>1. \A n \in Nat \ {0} : n <= 1 => n = 1
        OBVIOUS
      <4>2. QED
        BY <1>1, <3>1, <4>1
    <3>3. hand[1] \in Entry /\ hand = <<hand[1]>>
      BY <1>1, <3>2, SingleEntry, Zenon
    <3>4. QED
      BY <3>3
  <2>3. Len(written) < Len(logged) /\ written' = Append(written, logged[Len(written) + 1])
    BY <1>1, <2>1, <2>2, WrittenIsNext DEF logged
  <2>4. Channel!Write
    BY <1>3, <2>3 DEF Channel!Write, logged
  <2>5. QED
    BY <2>4 DEF Channel!Next
<1>4. CASE logged' = logged /\ ~(BgWrite /\ hand # <<>>)
  <2>1. written' = written
    <3>1. CASE BgWrite
      <4>1. written' = written \o hand /\ hand = <<>>
        BY <1>4, <3>1 DEF BgWrite
      <4>2. QED
        BY <1>1, <4>1, ConcatEmptySeq
    <3>2. CASE ~BgWrite
      BY <3>2 DEF Next, Tick, LogTime, LogStep, LogLocaltime, LogStamp, LogReadLen, LogWriteLen,
                  LogPush, LogNotify, BgStep, BgLoop, BgCheck, BgWait, BgSpurious, BgPop,
                  BgDrained, BgRotate, BgLocaltime, BgOpen, BgOpenFails, StopStep, StopSet,
                  StopNotify, StopJoin, vars, fileVars
    <3>3. QED
      BY <3>1, <3>2
  <2>2. QED
    BY <1>4, <2>1 DEF Channel!vars, logged
<1>5. QED
  BY <1>2, <1>3, <1>4, LoggedStep

\* The logger implements the channel.
THEOREM LoggerIsChannel == Spec => ChannelSpec
<1>1. Init => Channel!Init
  <2>1. ASSUME Init
        PROVE  written = <<>> /\ logged = <<>>
    BY <2>1 DEF Init, logged
  <2>2. QED
    BY <2>1 DEF Channel!Init, logged
<1>2. LoggerInv /\ [Next]_vars => [Channel!Next]_(Channel!vars)
  BY ChannelStep
<1>3. QED
  BY <1>1, <1>2, LoggerInvariant, PTL DEF Spec, ChannelSpec, Channel!Spec

\* Of two calls of log() one holds the lock: only rotate() changes the buffer of
\* localtime() between the conversion and the time stamp.
THEOREM LoggerOnlyRotationDisturbs == Spec => OnlyRotationDisturbs
<1>1. ASSUME LoggerInv, [Next]_vars
      PROVE  [\A t \in Threads : pc[t] = "converted" /\ tm' # tm => bg = "convert"]_vars
  <2>1. SUFFICES ASSUME NEW t \in Threads, pc[t] = "converted", tm' # tm
                 PROVE  bg = "convert"
    OBVIOUS
  <2>2. m_log_mutex = t
    BY <1>1, <2>1 DEF LoggerInv, MutexHeld, InLock
  <2>3. (\E u \in Threads : LogLocaltime(u)) \/ BgLocaltime
    BY <1>1, <2>1 DEF Next, Tick, LogTime, LogStep, LogStamp, LogReadLen, LogWriteLen,
                LogPush, LogNotify, BgStep, BgLoop, BgCheck, BgWait, BgSpurious, BgPop,
                BgDrained, BgWrite, BgRotate, BgOpen, BgOpenFails, StopStep, StopSet,
                StopNotify, StopJoin, vars
  <2>4. CASE \E u \in Threads : LogLocaltime(u)
    <3>1. PICK u \in Threads : LogLocaltime(u)
      BY <2>4
    <3>2. pc[u] = "timed" /\ m_log_mutex = u
      BY <1>1, <3>1 DEF LoggerInv, MutexHeld, InLock, LogLocaltime, Goto
    <3>3. QED
      BY <2>1, <2>2, <3>2
  <2>5. QED
    BY <2>3, <2>4 DEF BgLocaltime, BgGoto
<1>2. QED
  BY <1>1, LoggerInvariant, PTL DEF Spec, OnlyRotationDisturbs
=============================================================================
