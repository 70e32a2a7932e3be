SPECIFICATION ConformingSpec
CONSTANTS
  c1 = c1
  c2 = c2
  f1 = f1
  f2 = f2
  None = None
  Listener = Listener
  Conns = {c1, c2}
  Fds = {f1}
  Backlog = 2
  MaxSegments = 2
  FirstCSeq <- FromSetup
  Spoken = {"OPTIONS", "SETUP", "PLAY"}
  StateGarbage = {"NONE", "PLAYING"}
SYMMETRY Symmetry
INVARIANT NoNullSession
INVARIANT StreamToOwner
PROPERTY SessionIsolation
CHECK_DEADLOCK FALSE
