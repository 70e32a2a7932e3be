SPECIFICATION DialogSpec
CONSTANTS
  c1 = c1
  c2 = c2
  f1 = f1
  f2 = f2
  None = None
  Listener = Listener
  Conns = {c1, c2}
  Fds = {f1, f2}
  Backlog = 2
  MaxSegments = 5
  FirstCSeq <- FromOneAndTwo
  Spoken = {"OPTIONS", "SETUP", "PLAY"}
  StateGarbage = {"NONE"}
INVARIANT AllAnswered
PROPERTY Answered
CHECK_DEADLOCK FALSE
