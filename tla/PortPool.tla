------------------------------- MODULE PortPool -------------------------------
(***************************************************************************)
(* What PortManager promises its callers: each is given a pair of ports,   *)
(* in one step, that nobody was given before it, and keeps it.             *)
(***************************************************************************)
EXTENDS Integers

CONSTANTS Callers,  \* who asks for ports
          Even      \* the even ports of the range

VARIABLE given      \* the ports of each caller

Init == given = [c \in Callers |-> {}]

Give(c, p) ==
  /\ given[c] = {}
  /\ \A d \in Callers : {p, p + 1} \cap given[d] = {}
  /\ given' = [given EXCEPT ![c] = {p, p + 1}]

Next == \E c \in Callers, p \in Even : Give(c, p)
Spec == Init /\ [][Next]_given
=============================================================================
