SPECIFICATION Spec
CONSTANTS
  c1 = c1
  c2 = c2
  f1 = f1
  f2 = f2
  None = None
  Listener = Listener
  Conns = {c1, c2}
  Fds = {f1, f2}
  Backlog = 2
  MaxSegments = 1
  FirstCSeq <- FromSetup
  Spoken = {"OPTIONS", "SETUP", "PLAY"}
  StateGarbage = {"NONE", "PLAYING"}
SYMMETRY Symmetry
INVARIANT TypeOK
INVARIANT NoStaleEvents
INVARIANT StreamKeepsConn
INVARIANT IdsRegistered
CHECK_DEADLOCK FALSE
