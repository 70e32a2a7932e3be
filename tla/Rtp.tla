--------------------------------- MODULE Rtp ---------------------------------
(***************************************************************************)
(* What the video and the audio senders share: the sequence number and the *)
(* timestamp of a packet (seq and timestamp of RtpHeader, 16 and 32 bits), *)
(* and the way it takes.                                                   *)
(***************************************************************************)
EXTENDS Integers, Sequences, SequencesExt

CONSTANTS SeqModulus,    \* 2^16, of the sequence numbers
          StampModulus,  \* 2^32, of the timestamps
          MaxLost        \* bound: the datagrams that are lost

ASSUME RtpAssumption ==
  SeqModulus \in Nat \ {0} /\ StampModulus \in Nat \ {0} /\ MaxLost \in Nat

VARIABLE transport  \* the function that runs: ...OverTcp or ...OverUdp

Byte == 0..255
SeqNumber == 0..(SeqModulus - 1)
Stamp == 0..(StampModulus - 1)

\* Mutation: the number is not brought back to 16 bits.
AfterWide(number) == number + 1

After(number) == (number + 1) % SeqModulus

Smaller(a, b) == IF a < b THEN a ELSE b
=============================================================================
