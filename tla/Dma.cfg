CONSTANTS
  Clients = {c1, c2}
  Values = {0}
  MmioAddr = {a1}
  DramAddr = {d1}
  NullAddr = null
  Vcpus = {}
  Tcp = tcp
  NoOwner = nobody
  Listener = listener
  NoFd = nofd
  MAX_EVENTS = 10
  Initiations <- AllRequests
  InitiatorAt = {"wait"}
  a1 = a1
  d1 = d1
SPECIFICATION FairSpec
INVARIANTS DialogueInv BatchFits EdgeNotLost
PROPERTIES InitiatorsAreAnswered InitiatorReturns
