\* One logging thread, files of 8 bytes and a buffer of 4; one system call may fail.
\* The threads may end, or have nothing to log: the system may stop.
SPECIFICATION FairSpec
CONSTANTS
  Loggers = {l1}
  WriterThread = w
  QueueSize = 2
  MaxRecords = 7
  Record <- Records
  RecordSize <- Sizes
  EndSize = 1
  BatchSize = 4
  MaxFileSize = 8
  MaxFailures = 1
INVARIANTS TypeOK LogIsWhatWasTaken OverrunBounded LogInQueueOrder FailureCostsOneRecord
PROPERTIES AcceptedIsTaken
CHECK_DEADLOCK FALSE
