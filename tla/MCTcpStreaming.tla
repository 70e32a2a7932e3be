--------------------------- MODULE MCTcpStreaming ---------------------------
(* The constants TLC checks the streams with: a NAL of one packet and one of *)
(* three, and two frames, the second with a CRC or not.                      *)
EXTENDS TcpStreaming

NalSizes == <<1, 5>>
Frames == <<[size |-> 2, crc |-> FALSE], [size |-> 1, crc |-> FALSE]>>
FramesWithCrc == <<[size |-> 2, crc |-> FALSE], [size |-> 1, crc |-> TRUE]>>
=============================================================================
