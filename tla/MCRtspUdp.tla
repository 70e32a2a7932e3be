------------------------------ MODULE MCRtspUdp ------------------------------
(* Handlers of SETUP requests that allocate ports. *)
EXTENDS RtspUdp

CONSTANTS t1, t2, v1, v2
=============================================================================
