CONSTANTS
  Clients = {c1}
  Values = {0}
  MmioAddr = {a1}
  DramAddr = {}
  NullAddr = null
  Vcpus = {v1}
  Tcp = tcp
  NoOwner = nobody
  Listener = listener
  NoFd = nofd
  MAX_EVENTS = 10
  Initiations <- NoRequests
  InitiatorAt = {}
  a1 = a1
  d1 = d1
SPECIFICATION Spec
INVARIANT ConnectedIsOpen
