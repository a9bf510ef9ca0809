\* A connect in progress.
\* A session that was closed stays closed: the system may stop.
SPECIFICATION FairSpec
CONSTANTS
  Unset = Unset
  BufferSize = 5
  LargestBody = 4
  Width <- MCWidth
  PriceDecimals = 4
  LargestSeqNum = 2
  RingSize = 4
  ReadSize = 3
  HeaderMinimum = 2
  GapSize = 2
  QueueSize = 2
  Scripts <- MCScripts
  Requests <- MCRequests
  LogonRequests <- MCLogons
  KnownSymbols = {"s"}
  MaxSent = 1
PROPERTIES OpenedBecomesReady
CHECK_DEADLOCK FALSE
