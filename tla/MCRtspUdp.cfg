SPECIFICATION UdpSpec
CONSTANTS
  t1 = t1
  t2 = t2
  v1 = v1
  v2 = v2
  Callers = {t1, t2}
  Conns = {v1, v2}
  Threads = 2
  Even = {2, 4}
  Contested = {2, 5}
  Descriptors = 4
  None = None
INVARIANT TypeOK
INVARIANT UdpTypeOK
INVARIANT PortsDistinct
INVARIANT BindUndisturbed
INVARIANT SessionPorts
INVARIANT IdsStand
PROPERTY PoolSpec
PROPERTY Served
CHECK_DEADLOCK FALSE
