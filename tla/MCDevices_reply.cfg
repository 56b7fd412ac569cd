SPECIFICATION ScanSpec
CONSTANTS
  IRQ_COUNT = 2
  IRQ_MAX_HANDLERS = 3
  NULL = NULL
  RING = 20
  RX_BUFFER_SIZE = 40
  NDESC = 2
  Frames <- MCFrames
  Hosts = {"a", "b", "c"}
  Broadcast = "all"
  LINE = 1
  INITS = 3
  ARRIVALS = 3
  GarbageLengths = {20}
  SLOTS = 2
  FUNCTIONS = 3
  Machines <- MCMachines
INVARIANT RepliesNameTheAsker
CHECK_DEADLOCK FALSE
