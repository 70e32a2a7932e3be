------------------------------ MODULE MCLogger ------------------------------
(* The constants TLC checks the logger with. *)
EXTENDS Logger

CONSTANTS t1, t2
=============================================================================
