SPECIFICATION MediaSpec
CONSTANTS
  Videos <- MCVideos
  Heap <- MCHeap
  H264_FILE_BUFFER = 11
  RTP_MAX_PKT_SIZE = 2
  SeqModulus = 4
  MaxLost = 1
  Audios <- MCAudios
  Cuts <- MCCuts
  AAC_BUFFER_SIZE = 60
  StampModulus = 4000
INVARIANT TypeOK
INVARIANT UnitsAreNals
INVARIANT OnlyTheLastIsMissing
INVARIANT VideoClock
INVARIANT AacTypeOK
INVARIANT AccessUnitsAreFrames
INVARIANT AudioClock
INVARIANT OnlyDamageStops
CHECK_DEADLOCK FALSE
