CONSTANTS
  Bytes = {0, 1}
  Filler = 1
  Randoms = {0}
  SIZE = 8
  MMIO_BUS_ADDR = 8
  MMIO_BUS_SIZE = 8
  DramBytes <- MCDram
  GuestSizes = {4, 8}
  GuestData <- MCData
  Payloads <- MCPayloads
SPECIFICATION Spec
INVARIANTS TypeOK NoErrorResponse
PROPERTY ImplementsByteMemory
CHECK_DEADLOCK FALSE
