---------------------------- MODULE StreamContract ----------------------------
(***************************************************************************)
(* What RtspServer relies on when it takes a stream for one step that ends *)
(* it or kills the process (StreamEnd and StreamSigpipe there are End and  *)
(* Die here): a stream kills the process only when its client is gone, or  *)
(* over a bad audio file; and it ends if its client reads again and again, *)
(* or is gone.                                                             *)
(***************************************************************************)
CONSTANT BadAudio      \* whether playing the audio file can kill the process

VARIABLES phase,       \* what the server's thread is doing
          client       \* the client streamed to

vars == <<phase, client>>

Init == phase = "idle" /\ client = "reading"

Start == phase = "idle" /\ phase' = "streaming" /\ client' \in {"reading", "gone"}

End == phase = "streaming" /\ phase' = "idle" /\ UNCHANGED client

Die ==
  /\ phase = "streaming"
  /\ client = "gone" \/ BadAudio
  /\ phase' = "dead" /\ UNCHANGED client

Stall == client = "reading" /\ client' = "stalled" /\ UNCHANGED phase
Resume == client = "stalled" /\ client' = "reading" /\ UNCHANGED phase
Leave == client # "gone" /\ client' = "gone" /\ UNCHANGED phase

Next == Start \/ End \/ Die \/ Stall \/ Resume \/ Leave
Spec == Init /\ [][Next]_vars /\ SF_vars(client # "stalled" /\ End)
=============================================================================
