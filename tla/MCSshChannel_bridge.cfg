SPECIFICATION FairSpec
CONSTANTS
  MAILBOX_CAPACITY = 1
  OUTPUT_QUEUE_CHUNKS = 1
  DEFAULT_SIZE <- MCDefaultSize
  MAX_DIM = 7
  Windows <- MCWindows
  MaxRequests = 3
  MaxChunks = 2
INVARIANTS
  ExitAfterOutput
  HostProcessOwned
  WindowInForce
PROPERTIES
  TeardownEnds
CHECK_DEADLOCK FALSE
