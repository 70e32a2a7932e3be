------------------------------- MODULE MCRtsp -------------------------------
(* The constants TLC checks the server specifications with. *)
EXTENDS RtspClients, TLC

CONSTANTS c1, c2, f1, f2

\* A client that begins with SETUP, and players that count from 1 and from 2.
FromSetup == [c \in Conns |-> 3]
FromOneAndTwo == [c \in Conns |-> IF c = c1 THEN 1 ELSE 2]

Symmetry == Permutations(Conns) \cup Permutations(Fds)
=============================================================================
