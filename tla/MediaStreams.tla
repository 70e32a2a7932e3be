---------------------------- MODULE MediaStreams ----------------------------
(***************************************************************************)
(* The senders of sendH264AacOverTcp, and their twins for UDP, one at a    *)
(* time: they share nothing but the socket, which TcpStreaming has.        *)
(***************************************************************************)
EXTENDS H264Stream, AacStream

VARIABLE track  \* the sender looked at; the other has not begun

mediaVars == <<vars, aacVars, track>>

MediaInit ==
  \/ /\ track = "h264"
     /\ audio = CHOOSE a \in Audios : TRUE
     /\ aacFile = Bytes(audio)
     /\ Init /\ AacInit
  \/ /\ track = "aac"
     /\ video = CHOOSE v \in Videos : TRUE
     /\ rec = CHOOSE bytes \in Heap : TRUE
     /\ Init /\ AacInit

MediaNext ==
  \/ track = "h264" /\ Next /\ UNCHANGED <<aacVars, track>>
  \/ track = "aac" /\ AacNext /\ UNCHANGED <<vars, track>>

MediaSpec == MediaInit /\ [][MediaNext]_mediaVars
=============================================================================
