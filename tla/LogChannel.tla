----------------------------- MODULE LogChannel -----------------------------
(***************************************************************************)
(* What the logger promises its callers: a channel from log() to the log   *)
(* files.  Entries are taken in one order, which is the order of the times *)
(* they were logged at, and written in that order, each of them once.      *)
(* What was taken is never lost; when it is written is left open.          *)
(***************************************************************************)
EXTENDS Integers, Sequences

CONSTANT Entry       \* log entries; ticks is the time one was logged at

VARIABLES logged,    \* the entries taken, in order
          written    \* the entries in the files, in order

vars == <<logged, written>>

Init == logged = <<>> /\ written = <<>>

Log ==
  \E e \in Entry :
    /\ \A i \in DOMAIN logged : logged[i].ticks <= e.ticks
    /\ logged' = Append(logged, e)
    /\ UNCHANGED written

Write ==
  /\ Len(written) < Len(logged)
  /\ written' = Append(written, logged[Len(written) + 1])
  /\ UNCHANGED logged

Next == Log \/ Write
Spec == Init /\ [][Next]_vars
=============================================================================
