CONSTANTS
  Clients = {c1, c2}
  Values = {0, 1}
  MmioAddr = {a1}
  DramAddr = {}
  NullAddr = null
  Vcpus = {v1, v2}
  Tcp = tcp
  NoOwner = nobody
  Listener = listener
  NoFd = nofd
  MAX_EVENTS = 10
  Initiations <- NoRequests
  InitiatorAt = {}
  a1 = a1
  d1 = d1
SPECIFICATION Spec
INVARIANTS TypeOK IInv OnlyRequestsArePended NoErrorTraffic QemuSurvives EdgeNotLost
PROPERTIES RepliesAnswerRequests ImplementsAtomicMmio
