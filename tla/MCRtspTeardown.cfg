SPECIFICATION ConformingSpec
CONSTANTS
  c1 = c1
  c2 = c2
  f1 = f1
  f2 = f2
  None = None
  Listener = Listener
  Conns = {c1}
  Fds = {f1}
  Backlog = 2
  MaxSegments = 3
  FirstCSeq <- FromSetup
  Spoken = {"SETUP", "PLAY", "TEARDOWN"}
  StateGarbage = {"NONE"}
INVARIANT TeardownEndsStreaming
CHECK_DEADLOCK FALSE
