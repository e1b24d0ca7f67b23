CONSTANTS
  Bytes = {0, 1}
  Filler = 1
  Randoms = {0}
  SIZE = 8
  MMIO_BUS_ADDR = 8
  MMIO_BUS_SIZE = 8
  DramBytes <- MCDram
  GuestSizes = {1, 4}
  GuestData <- MCData
  Payloads <- NoPayloads
SPECIFICATION Spec
PROPERTY ImplementsByteMemory
