\* stop() between the test of stop_ and the load of the count.
SPECIFICATION FairSpec
CONSTANTS
  Loggers = {l1}
  WriterThread = w
  QueueSize = 2
  MaxRecords = 1
  Record <- Records
  RecordSize <- Sizes
  EndSize = 1
  BatchSize = 4
  MaxFileSize = 8
  MaxFailures = 0
PROPERTIES StopReturns
CHECK_DEADLOCK FALSE
