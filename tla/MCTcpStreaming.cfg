SPECIFICATION Spec
CONSTANTS
  VideoFile <- NalSizes
  AudioFile <- Frames
  MaxPkt = 2
  Space = 4
  Descriptors = 3
  MaxStreams = 3
INVARIANT TypeOK
INVARIANT FramesWhole
INVARIANT FilesAccounted
PROPERTY ContractSpec
CHECK_DEADLOCK FALSE
