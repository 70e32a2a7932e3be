SPECIFICATION Spec
CONSTANTS
  VideoFile <- NalSizes
  AudioFile <- FramesWithCrc
  MaxPkt = 2
  Space = 4
  Descriptors = 3
  MaxStreams = 3
PROPERTY StreamSurvives
CHECK_DEADLOCK FALSE
