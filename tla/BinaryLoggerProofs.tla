------------------------- MODULE BinaryLoggerProofs -------------------------
(***************************************************************************)
(* What holds of the logger for every number of threads and records, every *)
(* size of the queue, the buffer and the files, and every failure.         *)
(***************************************************************************)
EXTENDS LogContents, FiniteSetTheorems, SequenceTheorems, TLAPS

(* The theorems about the ring, for the logger's queue.                    *)
QueueFacts == INSTANCE SlotRingProofs
  WITH Writers <- Loggers, Readers <- {WriterThread},
       Size <- QueueSize, MaxItems <- MaxRecords

-----------------------------------------------------------------------------
(* The queue inside the logger is a slot ring.                             *)

LEMMA QueueMoves ==
  ASSUME [Next]_vars
  PROVE  [Queue!Next]_(Queue!vars)
<1>1. ASSUME NEW l \in Loggers, LogMessage(l) \/ LogContinue(l)
      PROVE  [Queue!Next]_(Queue!vars)
  <2>1. Queue!Write(l) \/ UNCHANGED queueVars
    BY <1>1 DEF LogMessage, LogContinue, LogQueueing, LogRefused, LogPublish,
                LogCount, LogNotify, Queue!Write, Queue!WriteContinue
  <2>2. QED
    BY <2>1 DEF Queue!Next, Queue!vars, queueVars
<1>2. CASE Exec
  <2>1. Queue!Read(WriterThread) \/ UNCHANGED queueVars
    BY <1>2 DEF Exec, ExecContinue, ExecLoadCount, ExecReading, ExecNothing,
                ExecSleep, ExecWoken, ExecRetry, ExecCopy, ExecRelease,
                ExecWrite, ExecEnd, Queue!Read
  <2>2. QED
    BY <2>1 DEF Queue!Next, Queue!vars, queueVars
<1>3. CASE StopFlag \/ StopContinue
  BY <1>3 DEF StopFlag, StopContinue, StopCount, StopNotify, StopJoin,
              Queue!vars, queueVars
<1>4. CASE UNCHANGED vars
  BY <1>4 DEF vars, Queue!vars, queueVars
<1>5. QED
  BY <1>1, <1>2, <1>3, <1>4 DEF Next

(* Whatever the threads of the logger do, its queue behaves as a SlotRing. *)
THEOREM QueueIsSlotRing == Spec => Queue!Spec
<1>1. Init => Queue!Init
  BY DEF Init
<1>2. QED
  BY <1>1, QueueMoves, PTL DEF Spec, Queue!Spec

(* The ring of the logger is the ring of those theorems.                   *)
LEMMA SameQueue ==
  /\ Queue!Spec <=> QueueFacts!Spec
  /\ Queue!TypeOK <=> QueueFacts!TypeOK
  /\ Queue!SlotExclusive <=> QueueFacts!SlotExclusive
  /\ Queue!NothingLost <=> QueueFacts!NothingLost
  /\ Queue!NothingDuplicated <=> QueueFacts!NothingDuplicated
<1>1. Queue!Spec <=> QueueFacts!Spec
  BY DEF Queue!Spec, QueueFacts!Spec,
       Queue!Init, QueueFacts!Init, Queue!Next, QueueFacts!Next,
       Queue!vars, QueueFacts!vars, Queue!Write, QueueFacts!Write,
       Queue!Read, QueueFacts!Read, Queue!WriteLoad,
       QueueFacts!WriteLoad, Queue!WriteContinue,
       QueueFacts!WriteContinue, Queue!WriteRetry,
       QueueFacts!WriteRetry, Queue!WriteRefused,
       QueueFacts!WriteRefused, Queue!WriteFree, QueueFacts!WriteFree,
       Queue!WriteClaim, QueueFacts!WriteClaim, Queue!WriteClaimLost,
       QueueFacts!WriteClaimLost, Queue!WriteAdvance,
       QueueFacts!WriteAdvance, Queue!WriteData, QueueFacts!WriteData,
       Queue!WriteComplete, QueueFacts!WriteComplete, Queue!ReadLoad,
       QueueFacts!ReadLoad, Queue!ReadRetry, QueueFacts!ReadRetry,
       Queue!ReadRefused, QueueFacts!ReadRefused, Queue!ReadReady,
       QueueFacts!ReadReady, Queue!ReadClaim, QueueFacts!ReadClaim,
       Queue!ReadClaimLost, QueueFacts!ReadClaimLost,
       Queue!ReadAdvance, QueueFacts!ReadAdvance, Queue!ReadData,
       QueueFacts!ReadData, Queue!ReadComplete,
       QueueFacts!ReadComplete, Queue!Slots, QueueFacts!Slots,
       Queue!Threads, QueueFacts!Threads, Queue!NoData,
       QueueFacts!NoData, Queue!Valid, QueueFacts!Valid, Queue!Writing,
       QueueFacts!Writing, Queue!Reading, QueueFacts!Reading,
       Queue!NextIndex, QueueFacts!NextIndex, Queue!Goto,
       QueueFacts!Goto, Queue!CurrentItem, QueueFacts!CurrentItem,
       Queue!Blank, QueueFacts!Blank
<1>2. Queue!TypeOK <=> QueueFacts!TypeOK
  BY DEF Queue!TypeOK, QueueFacts!TypeOK, Queue!DataStatus,
         QueueFacts!DataStatus, Queue!Item, QueueFacts!Item,
         Queue!Blank, QueueFacts!Blank, Queue!Location,
         QueueFacts!Location, Queue!Slots, QueueFacts!Slots,
         Queue!Threads, QueueFacts!Threads, Queue!NoData,
         QueueFacts!NoData, Queue!Valid, QueueFacts!Valid,
         Queue!Writing, QueueFacts!Writing, Queue!Reading,
         QueueFacts!Reading
<1>3. Queue!SlotExclusive <=> QueueFacts!SlotExclusive
  BY DEF Queue!SlotExclusive, QueueFacts!SlotExclusive, Queue!Owns,
         QueueFacts!Owns, Queue!Threads, QueueFacts!Threads,
         Queue!Writing, QueueFacts!Writing, Queue!Reading,
         QueueFacts!Reading
<1>4. /\ Queue!NothingLost <=> QueueFacts!NothingLost
      /\ Queue!NothingDuplicated <=> QueueFacts!NothingDuplicated
  BY DEF Queue!NothingLost, QueueFacts!NothingLost,
         Queue!NothingDuplicated, QueueFacts!NothingDuplicated,
         Queue!Published, QueueFacts!Published, Queue!Delivered,
         QueueFacts!Delivered, Queue!Holding, QueueFacts!Holding,
         Queue!Slots, QueueFacts!Slots, Queue!Item, QueueFacts!Item,
         Queue!Valid, QueueFacts!Valid
<1>5. QED
  BY <1>1, <1>2, <1>3, <1>4

(* The constants of the logger are as the ring assumes.                    *)
LEMMA QueueConstants ==
  /\ QueueFacts!ThreadsAssumption
  /\ QueueFacts!SizeAssumption
  /\ QueueFacts!MaxItemsAssumption
BY LoggerAssumption
   DEF QueueFacts!ThreadsAssumption, QueueFacts!SizeAssumption,
       QueueFacts!MaxItemsAssumption

(* The queue of a running logger has the types of the ring.                *)
LEMMA QueueTyping == Spec => []Queue!TypeOK
BY QueueIsSlotRing, SameQueue, QueueConstants, QueueFacts!Typing, PTL

(* No two threads, logging or writing, ever use one slot of the logger's   *)
(* queue at the same time.                                                 *)
THEOREM QueueExclusion == Spec => []Queue!SlotExclusive
BY QueueIsSlotRing, SameQueue, QueueConstants, QueueFacts!Exclusion, PTL

(* Every record accepted by logMessage waits in the queue or was taken out *)
(* by the writer thread, once: none is overwritten, however many threads   *)
(* log (the queue may keep some for ever, see SlotRing!Wedged).            *)
THEOREM NoRecordLost == Spec => [](Queue!NothingLost /\ Queue!NothingDuplicated)
BY QueueIsSlotRing, SameQueue, QueueConstants, QueueFacts!NoLoss,
   QueueFacts!NoDuplication, PTL

-----------------------------------------------------------------------------
(* The file writer.                                                        *)

(* A piece of a file that was closed has a content and a length.           *)
LEMMA ClosedType ==
  ASSUME files \in Seq([content : Seq(FilePiece), bytes : Nat]),
         NEW content \in Seq(FilePiece), NEW bytes \in Nat,
         Closed(content, bytes)
  PROVE  files' \in Seq([content : Seq(FilePiece), bytes : Nat])
<1>1. content \o <<FileEnd>> \in Seq(FilePiece)
  BY DEF FilePiece
<1>2. bytes + EndSize \in Nat
  BY FileSizesAssumption
<1>3. QED
  BY <1>1, <1>2 DEF Closed

(* write() keeps the types, and the buffer within its size, whichever of   *)
(* its system calls fails.                                                 *)
LEMMA WriteTypes ==
  ASSUME FileTypeOK, NEW m \in Record, Write(m)
  PROVE  FileTypeOK'
<1> USE DEF FileTypeOK, NewFile
<1> DEFINE all == file \o buffer
<1>1. /\ RecordSize[m] \in Nat /\ 2 * RecordSize[m] <= BatchSize
      /\ RecordSize[m] <= BatchSize
      /\ BatchSize \in Nat /\ EndSize \in Nat
  BY FileSizesAssumption
<1>2. buffer \in Seq(FilePiece) /\ all \in Seq(FilePiece)
      /\ all \o buffer \in Seq(FilePiece)
  BY DEF FilePiece
<1>3. /\ Append(file, Torn) \in Seq(FilePiece)
      /\ Append(all, Torn) \in Seq(FilePiece)
      /\ all \o buffer \o <<Torn>> \in Seq(FilePiece)
  <2>1. Torn \in FilePiece /\ <<Torn>> \in Seq(FilePiece)
    BY DEF FilePiece
  <2>2. QED
    BY <1>2, <2>1
<1>4. StartBuffer(m) => buffer' \in Seq(Record) /\ bufferSize' \in 0 .. BatchSize
  <2>1. <<m>> \in Seq(Record) /\ RecordSize[m] \in 0 .. BatchSize
    BY <1>1
  <2>2. QED
    BY <2>1 DEF StartBuffer
<1>5. CASE Buffered(m)
  <2>1. bufferSize' \in 0 .. BatchSize
    BY <1>1, <1>5 DEF Buffered, Overflows, AddToBuffer
  <2>2. buffer' \in Seq(Record)
    BY <1>5 DEF Buffered, AddToBuffer
  <2>3. QED
    BY <1>5, <2>1, <2>2 DEF Buffered
<1>6. CASE Flush(m)
  BY <1>1, <1>2, <1>4, <1>6 DEF Flush
<1>7. CASE Rotate(m)
  <2> DEFINE bytes == fileBytes + 2 * bufferSize
  <2>0. bytes \in Nat /\ Closed(all \o buffer, bytes)
    BY <1>7 DEF Rotate
  <2>1. files' \in Seq([content : Seq(FilePiece), bytes : Nat])
    <3> HIDE DEF all, bytes
    <3>1. QED
      BY <1>2, <2>0, ClosedType
  <2>2. QED
    BY <1>4, <1>7, <2>1 DEF Rotate
<1>8. CASE FlushFails(m)
  <2>1. file' \in Seq(FilePiece)
    BY <1>3, <1>8 DEF FlushFails
  <2>2. QED
    BY <1>8, <2>1 DEF FlushFails, Failure
<1>9. CASE FlushWithoutFile(m)
  BY <1>9 DEF FlushWithoutFile
<1>10. CASE RotateCloseFails(m)
  <2>1. file' \in Seq(FilePiece) /\ fileBytes' \in Nat
    <3>1. file' \in {all, Append(all, Torn), all \o buffer, all \o buffer \o <<Torn>>}
      BY <1>10 DEF RotateCloseFails, CloseFailure
    <3>2. file' \in Seq(FilePiece)
      <4> HIDE DEF all
      <4>1. QED
        BY <1>2, <1>3, <3>1
    <3>3. fileBytes' \in Nat
      BY <1>10 DEF RotateCloseFails, CloseFailure
    <3>4. QED
      BY <3>2, <3>3
  <2>2. QED
    BY <1>1, <1>10, <2>1 DEF RotateCloseFails, Failure
<1>11. CASE RotateOpenFails(m)
  <2> DEFINE bytes == fileBytes + 2 * bufferSize
  <2>0. bytes \in Nat /\ Closed(all \o buffer, bytes)
    BY <1>11 DEF RotateOpenFails
  <2>1. files' \in Seq([content : Seq(FilePiece), bytes : Nat])
    <3> HIDE DEF all, bytes
    <3>1. QED
      BY <1>2, <2>0, ClosedType
  <2>2. QED
    BY <1>1, <1>11, <2>1 DEF RotateOpenFails, Failure
<1>12. QED
  BY <1>5, <1>6, <1>7, <1>8, <1>9, <1>10, <1>11 DEF Write

(* So does closeFile().                                                    *)
LEMMA CloseTypes ==
  ASSUME FileTypeOK, CloseFile
  PROVE  FileTypeOK'
<1> USE DEF FileTypeOK, NewFile
<1>1. file \o buffer \in Seq(FilePiece)
  BY DEF FilePiece
<1>2. /\ Append(file, Torn) \in Seq(FilePiece)
      /\ file \o buffer \o <<Torn>> \in Seq(FilePiece)
  <2>1. Torn \in FilePiece /\ <<Torn>> \in Seq(FilePiece)
    BY DEF FilePiece
  <2>2. QED
    BY <1>1, <2>1
<1>3. CASE CloseFileDone
  <2>1. files' \in Seq([content : Seq(FilePiece), bytes : Nat])
    <3> DEFINE content == file \o buffer
               bytes == fileBytes + bufferSize
    <3>1. bytes \in Nat /\ content \in Seq(FilePiece) /\ Closed(content, bytes)
      BY <1>1, <1>3 DEF CloseFileDone
    <3> HIDE DEF content, bytes
    <3>2. QED
      BY <3>1, ClosedType
  <2>2. QED
    BY <1>3, <2>1 DEF CloseFileDone
<1>4. CASE CloseFileFails
  <2>1. file' \in Seq(FilePiece) /\ fileBytes' \in Nat
    <3>1. file' \in {file, Append(file, Torn), file \o buffer,
                     file \o buffer \o <<Torn>>}
      BY <1>4 DEF CloseFileFails, CloseFailure
    <3>2. fileBytes' \in Nat
      BY <1>4 DEF CloseFileFails, CloseFailure
    <3>3. QED
      BY <1>1, <1>2, <3>1, <3>2
  <2>2. QED
    BY <1>4, <2>1 DEF CloseFileFails, Failure
<1>5. CASE CloseFileNotOpen
  BY <1>5 DEF CloseFileNotOpen, fileVars
<1>6. QED
  BY <1>3, <1>4, <1>5 DEF CloseFile

-----------------------------------------------------------------------------
(* The types of the logger.                                                *)

LEMMA InitTypes == Init => FileTypeOK /\ ThreadTypeOK
<1> SUFFICES ASSUME Init PROVE FileTypeOK /\ ThreadTypeOK
  OBVIOUS
<1>1. FileTypeOK
  BY FileSizesAssumption DEF Init, FileWriterInit, FileTypeOK
<1>2. \E r \in Record : TRUE
  <2>1. PICK l \in Loggers : TRUE
    BY LoggerAssumption
  <2>2. 1 \in 1 .. MaxRecords
    BY LoggerAssumption
  <2>3. <<l, 1>> \in Record
    BY <2>2, LoggerAssumption
  <2>4. QED
    BY <2>3
<1>3. msg \in Record
  BY <1>2 DEF Init
<1>4. QED
  BY <1>1, <1>3 DEF Init, ThreadTypeOK

(* What the writer thread copies out of its slot is a record: the types of *)
(* the ring say so of the history of what was taken.                       *)
LEMMA CopiedIsRecord ==
  ASSUME Queue!TypeOK, Queue!TypeOK', ExecCopy
  PROVE  msg' \in Record
<1>1. /\ delivered \in Seq(Record) /\ delivered' \in Seq(Record)
      /\ delivered' = Append(delivered, msg')
  BY LoggerAssumption
     DEF ExecCopy, Queue!ReadData, Queue!TypeOK, Queue!Item
<1>2. /\ Len(delivered') = Len(delivered) + 1
      /\ delivered'[Len(delivered) + 1] = msg'
  BY <1>1
<1>3. QED
  BY <1>1, <1>2

LEMMA StepTypes ==
  ASSUME FileTypeOK, ThreadTypeOK, Queue!TypeOK, Queue!TypeOK', [Next]_vars
  PROVE  FileTypeOK' /\ ThreadTypeOK'
<1> USE DEF ThreadTypeOK
<1>1. ASSUME NEW l \in Loggers, LogMessage(l) \/ LogContinue(l)
      PROVE  FileTypeOK' /\ ThreadTypeOK'
  <2>1. UNCHANGED fileVars
    BY <1>1 DEF LogMessage, LogContinue, LogQueueing, LogRefused, LogPublish,
                LogCount, LogNotify
  <2>2. FileTypeOK'
    BY <2>1 DEF FileTypeOK, fileVars
  <2>3. ThreadTypeOK'
    BY <1>1 DEF LogMessage, LogContinue, LogQueueing, LogRefused, LogPublish,
                LogCount, LogNotify, CallerGoes, Wake, threadVars
  <2>4. QED
    BY <2>2, <2>3
<1>2. CASE ExecWrite
  BY <1>2, WriteTypes DEF ExecWrite
<1>3. CASE ExecEnd
  BY <1>3, CloseTypes DEF ExecEnd
<1>4. CASE ExecCopy
  <2>1. FileTypeOK'
    BY <1>4 DEF ExecCopy, FileTypeOK, fileVars
  <2>2. QED
    BY <1>4, <2>1, CopiedIsRecord DEF ExecCopy, threadVars
<1>5. CASE \/ ExecContinue \/ ExecLoadCount \/ ExecReading \/ ExecNothing
           \/ ExecSleep \/ ExecWoken \/ ExecRetry \/ ExecRelease
           \/ StopFlag \/ StopContinue \/ UNCHANGED vars
  <2>1. UNCHANGED fileVars
    BY <1>5 DEF ExecContinue, ExecLoadCount, ExecReading, ExecNothing,
                ExecSleep, ExecWoken, ExecRetry, ExecRelease, StopFlag,
                StopContinue, StopCount, StopNotify, StopJoin, vars
  <2>2. FileTypeOK'
    BY <2>1 DEF FileTypeOK, fileVars
  <2>3. CASE \/ ExecContinue \/ ExecLoadCount \/ ExecReading \/ ExecNothing
             \/ ExecSleep \/ ExecWoken \/ ExecRetry \/ ExecRelease
    BY <2>2, <2>3 DEF ExecContinue, ExecLoadCount, ExecReading, ExecNothing,
                      ExecSleep, ExecWoken, ExecRetry, ExecRelease, threadVars
  <2>4. CASE StopCount \/ StopNotify \/ StopJoin
    BY <2>2, <2>4 DEF StopCount, StopNotify, StopJoin, Wake
  <2>5. CASE UNCHANGED vars
    BY <2>2, <2>5 DEF vars, threadVars
  <2>6. CASE StopFlag
    <3>1. stop' \in BOOLEAN
      BY <2>6 DEF StopFlag
    <3>2. QED
      BY <2>2, <2>6, <3>1 DEF StopFlag
  <2>7. QED
    BY <1>5, <2>3, <2>4, <2>5, <2>6 DEF StopContinue
<1>6. QED
  BY <1>1, <1>2, <1>3, <1>4, <1>5 DEF Next, Exec

(* The types, with a buffer that is never filled beyond its end by write() *)
(* (BinaryLogger.cpp:244-247), whatever fails and in whatever order.       *)
THEOREM Typing == Spec => []TypeOK
<1>1. Init => FileTypeOK /\ ThreadTypeOK
  BY InitTypes
<1>2. FileTypeOK /\ ThreadTypeOK /\ Queue!TypeOK /\ Queue!TypeOK' /\ [Next]_vars
        => FileTypeOK' /\ ThreadTypeOK'
  BY StepTypes
<1>3. QED
  BY <1>1, <1>2, QueueTyping, PTL DEF Spec, TypeOK

-----------------------------------------------------------------------------
(* How long a file can become.                                             *)

(* While nothing has failed and the logger runs, currentFileSize_ counts   *)
(* what was written, and either the file, the buffer and FILE_END fit into *)
(* the limit or the buffer holds a single record, put there by a flush     *)
(* after which the limit was not looked at again.                          *)
Counted ==
  failures = 0 /\ writer # "ended" =>
    /\ fd = "open"
    /\ fileBytes <= fileSize
    /\ fileSize + EndSize <= MaxFileSize
    /\ \/ fileSize + bufferSize + EndSize <= MaxFileSize
       \/ 2 * bufferSize <= BatchSize

(* The length with which closeFile ends a file.                            *)
LEMMA ClosedBound ==
  ASSUME FileTypeOK, OverrunBounded, failures = 0,
         NEW content, NEW bytes \in Nat, Closed(content, bytes),
         bytes + EndSize <= MaxFileSize + BatchSize
  PROVE  \A n \in 1 .. Len(files') : files'[n].bytes <= MaxFileSize + BatchSize
<1>1. /\ Len(files') = Len(files) + 1
      /\ \A n \in 1 .. Len(files) : files'[n] = files[n]
      /\ files'[Len(files) + 1].bytes = bytes + EndSize
  BY DEF Closed, FileTypeOK
<1>2. Len(files) \in Nat
  BY DEF FileTypeOK
<1>3. QED
  BY <1>1, <1>2 DEF OverrunBounded

LEMMA WriteCounted ==
  ASSUME FileTypeOK, Counted, OverrunBounded, NEW m \in Record, Write(m),
         writer = "writing", writer' = "top"
  PROVE  Counted' /\ OverrunBounded'
<1> USE DEF Counted, FileTypeOK
<1>1. /\ RecordSize[m] \in Nat /\ 2 * RecordSize[m] <= BatchSize
      /\ RecordSize[m] + EndSize <= MaxFileSize
      /\ BatchSize \in Nat /\ EndSize \in Nat /\ MaxFileSize \in Nat
      /\ EndSize <= MaxFileSize
  BY FileSizesAssumption
<1>2. CASE Buffered(m)
  <2>1. Counted'
    <3>1. fileSize + (bufferSize + RecordSize[m]) + EndSize <= MaxFileSize
      BY <1>1, <1>2 DEF Buffered, FileFull
    <3>2. /\ bufferSize' = bufferSize + RecordSize[m]
          /\ UNCHANGED <<fd, fileSize, fileBytes, failures>>
      BY <1>2 DEF Buffered, AddToBuffer
    <3>3. fileSize' + bufferSize' + EndSize <= MaxFileSize
      BY <3>1, <3>2
    <3>4. QED
      BY <3>2, <3>3
  <2>2. OverrunBounded'
    BY <1>2 DEF Buffered, OverrunBounded
  <2>3. QED
    BY <2>1, <2>2
<1>3. CASE Flush(m)
  <2>1. Counted'
    <3>1. /\ bufferSize + RecordSize[m] > BatchSize
          /\ fileSize + bufferSize + RecordSize[m] + EndSize <= MaxFileSize
      BY <1>1, <1>3 DEF Flush, Overflows, FileFull
    <3>2. fileSize + BatchSize + EndSize <= MaxFileSize
      BY <1>1, <3>1
    <3>3. /\ fileBytes' = fileBytes + bufferSize
          /\ fileSize' = fileSize + BatchSize
          /\ bufferSize' = RecordSize[m]
          /\ UNCHANGED <<fd, failures>>
      BY <1>3 DEF Flush, StartBuffer
    <3>4. QED
      BY <1>1, <3>2, <3>3
  <2>2. OverrunBounded'
    BY <1>3 DEF Flush, OverrunBounded
  <2>3. QED
    BY <2>1, <2>2
<1>4. CASE Rotate(m)
  <2>1. Counted'
    BY <1>1, <1>4 DEF Rotate, StartBuffer, NewFile
  <2>2. ASSUME failures = 0
        PROVE  \A n \in 1 .. Len(files') : files'[n].bytes <= MaxFileSize + BatchSize
    <3> DEFINE content == file \o buffer \o buffer
               bytes == fileBytes + 2 * bufferSize
    <3>1. bytes \in Nat /\ Closed(content, bytes)
      BY <1>4 DEF Rotate
    <3>2. bytes + EndSize <= MaxFileSize + BatchSize
      BY <1>1, <2>2
    <3> HIDE DEF content, bytes
    <3>3. QED
      BY <2>2, <3>1, <3>2, ClosedBound
  <2>3. failures' = failures
    BY <1>4 DEF Rotate
  <2>4. QED
    BY <2>1, <2>2, <2>3 DEF OverrunBounded
<1>5. CASE \/ FlushFails(m) \/ FlushWithoutFile(m)
           \/ RotateCloseFails(m) \/ RotateOpenFails(m)
  <2>1. failures' = failures + 1
    BY <1>5 DEF FlushFails, FlushWithoutFile, RotateCloseFails,
                RotateOpenFails, Failure
  <2>2. failures' # 0
    BY <2>1
  <2>3. QED
    BY <2>2 DEF OverrunBounded
<1>6. QED
  BY <1>2, <1>3, <1>4, <1>5 DEF Write

LEMMA CloseCounted ==
  ASSUME FileTypeOK, Counted, OverrunBounded, CloseFile,
         writer # "ended", writer' = "ended"
  PROVE  Counted' /\ OverrunBounded'
<1> USE DEF Counted, FileTypeOK
<1>1. BatchSize \in Nat /\ EndSize \in Nat /\ MaxFileSize \in Nat
  BY FileSizesAssumption
<1>2. CASE CloseFileDone
  <2>1. ASSUME failures = 0
        PROVE  \A n \in 1 .. Len(files') : files'[n].bytes <= MaxFileSize + BatchSize
    <3> DEFINE content == file \o buffer
               bytes == fileBytes + bufferSize
    <3>1. bytes \in Nat /\ Closed(content, bytes)
      BY <1>2 DEF CloseFileDone
    <3>2. bytes + EndSize <= MaxFileSize + BatchSize
      BY <1>1, <2>1
    <3> HIDE DEF content, bytes
    <3>3. QED
      BY <2>1, <3>1, <3>2, ClosedBound
  <2>2. failures' = failures
    BY <1>2 DEF CloseFileDone
  <2>3. QED
    BY <2>1, <2>2 DEF OverrunBounded
<1>3. CASE CloseFileFails
  <2>1. failures' # 0
    BY <1>3 DEF CloseFileFails, Failure
  <2>2. QED
    BY <2>1 DEF OverrunBounded
<1>4. CASE CloseFileNotOpen
  BY <1>4 DEF CloseFileNotOpen, fileVars, OverrunBounded
<1>5. QED
  BY <1>2, <1>3, <1>4 DEF CloseFile

LEMMA StepCounted ==
  ASSUME TypeOK, Counted, OverrunBounded, [Next]_vars
  PROVE  Counted' /\ OverrunBounded'
<1>1. CASE ExecWrite
  BY <1>1, WriteCounted DEF ExecWrite, TypeOK, ThreadTypeOK
<1>2. CASE ExecEnd
  <2>1. writer # "ended" /\ writer' = "ended"
    BY <1>2 DEF ExecEnd
  <2>2. QED
    BY <1>2, <2>1, CloseCounted DEF ExecEnd, TypeOK
<1>3. ASSUME UNCHANGED fileVars, writer = "ended" => writer' = "ended"
      PROVE  Counted' /\ OverrunBounded'
  BY <1>3 DEF fileVars, Counted, OverrunBounded
<1>4. ASSUME NEW l \in Loggers, LogMessage(l) \/ LogContinue(l)
      PROVE  UNCHANGED fileVars /\ (writer = "ended" => writer' = "ended")
  BY <1>4 DEF LogMessage, LogContinue, LogQueueing, LogRefused, LogPublish,
              LogCount, LogNotify, Wake, threadVars
<1>5. CASE \/ ExecContinue \/ ExecLoadCount \/ ExecReading \/ ExecNothing
           \/ ExecSleep \/ ExecWoken \/ ExecRetry \/ ExecCopy \/ ExecRelease
  <2>1. UNCHANGED fileVars /\ writer # "ended"
    BY <1>5 DEF ExecContinue, ExecLoadCount, ExecReading, ExecNothing,
                ExecSleep, ExecWoken, ExecRetry, ExecCopy, ExecRelease
  <2>2. QED
    BY <1>3, <2>1
<1>6. CASE StopFlag \/ StopContinue \/ UNCHANGED vars
  <2>1. UNCHANGED fileVars /\ (writer = "ended" => writer' = "ended")
    BY <1>6 DEF StopFlag, StopContinue, StopCount, StopNotify, StopJoin,
                Wake, vars, threadVars
  <2>2. QED
    BY <1>3, <2>1
<1>7. QED
  BY <1>1, <1>2, <1>3, <1>4, <1>5, <1>6 DEF Next, Exec

LEMMA Counting == Spec => [](Counted /\ OverrunBounded)
<1>1. Init => Counted /\ OverrunBounded
  BY FileSizesAssumption DEF Init, FileWriterInit, Counted, OverrunBounded
<1>2. TypeOK /\ Counted /\ OverrunBounded /\ [Next]_vars
        => Counted' /\ OverrunBounded'
  BY StepCounted
<1>3. QED
  BY <1>1, <1>2, Typing, PTL DEF Spec

(* As long as no system call fails, no log file is longer than the limit   *)
(* by more than one buffer, for every mix of record sizes: the second copy *)
(* that closeFile writes is all there is beyond it.                        *)
THEOREM Overrun == Spec => []OverrunBounded
BY Counting, PTL

-----------------------------------------------------------------------------
(* What the log files say.                                                 *)

(* FILE_END and what a failed write leaves are no records.                 *)
LEMMA Pieces ==
  /\ FileEnd \notin Record /\ Torn \notin Record
  /\ Record \subseteq FilePiece
  /\ <<FileEnd>> \in Seq(FilePiece) /\ <<Torn>> \in Seq(FilePiece)
<1>1. \A r \in Record : Len(r) = 2
  BY LoggerAssumption
<1>2. Len(FileEnd) = 1 /\ Len(Torn) = 1
  BY DEF FileEnd, Torn
<1>3. FileEnd \notin Record /\ Torn \notin Record
  BY <1>1, <1>2
<1>4. FileEnd \in FilePiece /\ Torn \in FilePiece /\ Record \subseteq FilePiece
  BY DEF FilePiece
<1>5. QED
  BY <1>3, <1>4

LEMMA PieceSequences ==
  /\ << >> \in Seq(FilePiece)
  /\ \A s \in Seq(FilePiece) :
       s \o << >> = s /\ << >> \o s = s /\ Append(s, Torn) = s \o <<Torn>>
  /\ \A s, t \in Seq(FilePiece) : s \o t \in Seq(FilePiece)
  /\ \A s, t, u \in Seq(FilePiece) : (s \o t) \o u = s \o (t \o u)
<1>1. << >> \in Seq(FilePiece)
  OBVIOUS
<1>2. ASSUME NEW s \in Seq(FilePiece)
      PROVE  s \o << >> = s /\ << >> \o s = s /\ Append(s, Torn) = s \o <<Torn>>
  <2>1. s \o << >> = s /\ << >> \o s = s
    BY ConcatEmptySeq
  <2>2. Torn \in FilePiece
    BY DEF FilePiece
  <2>3. Append(s, Torn) = s \o <<Torn>>
    BY <2>2, AppendIsConcat
  <2>4. QED
    BY <2>1, <2>3
<1>3. \A s, t \in Seq(FilePiece) : s \o t \in Seq(FilePiece)
  OBVIOUS
<1>4. ASSUME NEW s \in Seq(FilePiece), NEW t \in Seq(FilePiece), NEW u \in Seq(FilePiece)
      PROVE  (s \o t) \o u = s \o (t \o u)
  BY ConcatAssociative
<1>5. QED
  BY <1>1, <1>2, <1>3, <1>4

(* The records of a sequence of pieces.                                    *)
Recs(s) == {r \in Record : Holds(s, r)}

LEMMA HoldsConcat ==
  ASSUME NEW s \in Seq(FilePiece), NEW t \in Seq(FilePiece), NEW r
  PROVE  Holds(s \o t, r) <=> Holds(s, r) \/ Holds(t, r)
<1>1. /\ s \o t \in Seq(FilePiece) /\ Len(s \o t) = Len(s) + Len(t)
      /\ Len(s) \in Nat /\ Len(t) \in Nat
      /\ \A i \in 1 .. Len(s) + Len(t) :
           (s \o t)[i] = IF i <= Len(s) THEN s[i] ELSE t[i - Len(s)]
  BY ConcatProperties
<1>2. ASSUME Holds(s \o t, r) PROVE Holds(s, r) \/ Holds(t, r)
  <2>1. PICK p \in 1 .. Len(s) + Len(t) : (s \o t)[p] = r
    BY <1>1, <1>2 DEF Holds
  <2>2. CASE p <= Len(s)
    BY <1>1, <2>1, <2>2 DEF Holds
  <2>3. CASE p > Len(s)
    <3>1. p - Len(s) \in 1 .. Len(t) /\ t[p - Len(s)] = r
      BY <1>1, <2>1, <2>3
    <3>2. QED
      BY <3>1 DEF Holds
  <2>4. QED
    BY <1>1, <2>2, <2>3
<1>3. ASSUME Holds(s, r) PROVE Holds(s \o t, r)
  <2>1. PICK p \in 1 .. Len(s) : s[p] = r
    BY <1>3 DEF Holds
  <2>2. p \in 1 .. Len(s \o t) /\ (s \o t)[p] = r
    BY <1>1, <2>1
  <2>3. QED
    BY <2>2 DEF Holds
<1>4. ASSUME Holds(t, r) PROVE Holds(s \o t, r)
  <2>1. PICK p \in 1 .. Len(t) : t[p] = r
    BY <1>4 DEF Holds
  <2>2. p + Len(s) \in 1 .. Len(s \o t) /\ (s \o t)[p + Len(s)] = r
    BY <1>1, <2>1
  <2>3. QED
    BY <2>2 DEF Holds
<1>5. QED
  BY <1>2, <1>3, <1>4

LEMMA RecsConcat ==
  ASSUME NEW s \in Seq(FilePiece), NEW t \in Seq(FilePiece)
  PROVE  Recs(s \o t) = Recs(s) \cup Recs(t)
BY HoldsConcat DEF Recs

LEMMA RecsJoin ==
  \A s, t \in Seq(FilePiece) :
    s \o t \in Seq(FilePiece) /\ Recs(s \o t) = Recs(s) \cup Recs(t)
BY RecsConcat, PieceSequences

LEMMA RecsOne ==
  /\ Recs(<< >>) = {}
  /\ Recs(<<FileEnd>>) = {} /\ Recs(<<Torn>>) = {}
  /\ \A r \in Record : Recs(<<r>>) = {r}
<1>1. \A x, r : Holds(<<x>>, r) <=> r = x
  BY DEF Holds
<1>2. \A r : ~Holds(<< >>, r)
  BY DEF Holds
<1>3. QED
  BY <1>1, <1>2, Pieces DEF Recs

(* What a write leaves of the buffer in the file when it fails: some bytes *)
(* of it, or all, once or twice.                                           *)
Remains ==
  {<< >>, <<Torn>>, buffer, buffer \o <<Torn>>,
   buffer \o buffer, (buffer \o buffer) \o <<Torn>>}

LEMMA RemainsType ==
  ASSUME FileTypeOK, NEW x \in Remains
  PROVE  x \in Seq(FilePiece) /\ Recs(x) \subseteq Recs(buffer)
<1>1. buffer \in Seq(FilePiece) /\ buffer \o buffer \in Seq(FilePiece)
  BY Pieces DEF FileTypeOK, FilePiece
<1>2. /\ buffer \o <<Torn>> \in Seq(FilePiece)
      /\ (buffer \o buffer) \o <<Torn>> \in Seq(FilePiece)
  BY <1>1, Pieces, PieceSequences
<1>3. x \in Seq(FilePiece)
  <2> HIDE DEF Torn
  <2>1. x \in Remains /\ << >> \in Seq(FilePiece) /\ <<Torn>> \in Seq(FilePiece)
    BY Pieces, PieceSequences
  <2>2. QED
    BY <1>1, <1>2, <2>1 DEF Remains
<1>4. /\ Recs(buffer \o buffer) = Recs(buffer)
      /\ Recs(buffer \o <<Torn>>) = Recs(buffer)
      /\ Recs((buffer \o buffer) \o <<Torn>>) = Recs(buffer)
  <2>1. Recs(buffer \o buffer) = Recs(buffer)
    BY <1>1, RecsConcat
  <2>2. ASSUME NEW s \in Seq(FilePiece)
        PROVE  Recs(s \o <<Torn>>) = Recs(s)
    <3>1. Recs(s \o <<Torn>>) = Recs(s) \cup Recs(<<Torn>>)
      BY Pieces, RecsConcat
    <3>2. QED
      BY <3>1, RecsOne
  <2>3. QED
    BY <1>1, <2>1, <2>2
<1>5. Recs(x) \subseteq Recs(buffer)
  BY <1>4, RecsOne DEF Remains
<1>6. QED
  BY <1>3, <1>5

(* What write() does to the log, in short: the record is added, with or    *)
(* without a rotation, or a call fails and the buffer is kept.             *)
Adds(m) ==
  /\ file' \o buffer' = (file \o buffer) \o <<m>>
  /\ UNCHANGED <<files, failures, fd>>
Rotates(kept) ==
  /\ \E bytes \in Nat : Closed((file \o buffer) \o buffer, bytes)
  /\ file' = << >> /\ buffer' = kept
Fails ==
  /\ \E x \in Remains : file' = file \o x
  /\ UNCHANGED <<files, buffer>>

LEMMA WriteInShort ==
  ASSUME FileTypeOK, NEW m \in Record, Write(m)
  PROVE  \/ Adds(m)
         \/ Rotates(<<m>>) /\ UNCHANGED <<failures, fd>>
         \/ (Fails \/ Rotates(buffer)) /\ failures' = failures + 1
<1>1. /\ file \in Seq(FilePiece) /\ buffer \in Seq(FilePiece)
      /\ buffer \in Seq(Record) /\ <<m>> \in Seq(FilePiece) /\ m \in FilePiece
      /\ file \o buffer \in Seq(FilePiece)
      /\ fileBytes + 2 * bufferSize \in Nat
  <2>1. bufferSize \in Nat
    BY FileSizesAssumption DEF FileTypeOK
  <2>2. QED
    BY <2>1, Pieces DEF FileTypeOK, FilePiece
<1>2. CASE Buffered(m)
  <2>1. buffer' = buffer \o <<m>> /\ file' = file
    BY <1>2, <1>1, AppendIsConcat DEF Buffered, AddToBuffer
  <2>2. file \o (buffer \o <<m>>) = (file \o buffer) \o <<m>>
    BY <1>1, ConcatAssociative
  <2>3. QED
    BY <1>2, <2>1, <2>2 DEF Buffered, Adds
<1>3. CASE Flush(m)
  BY <1>3 DEF Flush, StartBuffer, Adds
<1>4. CASE Rotate(m)
  BY <1>1, <1>4 DEF Rotate, StartBuffer, NewFile, Rotates
<1>5. CASE FlushFails(m)
  <2>1. file' = file \o << >> \/ file' = file \o <<Torn>>
    BY <1>1, <1>5, PieceSequences DEF FlushFails
  <2>2. QED
    BY <1>5, <2>1 DEF FlushFails, Failure, Fails, Remains
<1>6. CASE FlushWithoutFile(m)
  <2>1. file' = file \o << >>
    BY <1>1, <1>6, PieceSequences DEF FlushWithoutFile
  <2>2. QED
    BY <1>6, <2>1 DEF FlushWithoutFile, Fails, Remains
<1>7. CASE RotateCloseFails(m)
  <2> DEFINE all == file \o buffer
  <2>1. \/ file' = all \/ file' = all \o <<Torn>>
        \/ file' = all \o buffer \/ file' = (all \o buffer) \o <<Torn>>
    BY <1>1, <1>7, PieceSequences DEF RotateCloseFails, CloseFailure
  <2>2. /\ all \o <<Torn>> = file \o (buffer \o <<Torn>>)
        /\ all \o buffer = file \o (buffer \o buffer)
        /\ (file \o (buffer \o buffer)) \o <<Torn>>
             = file \o ((buffer \o buffer) \o <<Torn>>)
    <3>1. buffer \o buffer \in Seq(FilePiece) /\ <<Torn>> \in Seq(FilePiece)
      BY <1>1, Pieces
    <3>2. ASSUME NEW s \in Seq(FilePiece), NEW t \in Seq(FilePiece)
          PROVE  (file \o s) \o t = file \o (s \o t)
      BY <1>1, PieceSequences
    <3> HIDE DEF Torn
    <3>3. all \o <<Torn>> = file \o (buffer \o <<Torn>>)
      BY <1>1, <3>1, <3>2
    <3>4. (file \o (buffer \o buffer)) \o <<Torn>>
            = file \o ((buffer \o buffer) \o <<Torn>>)
      BY <1>1, <3>1, <3>2
    <3>5. QED
      BY <1>1, <3>2, <3>3, <3>4
  <2>3. \E x \in Remains : file' = file \o x
    BY <2>1, <2>2 DEF Remains
  <2>4. QED
    BY <1>7, <2>3 DEF RotateCloseFails, Failure, Fails
<1>8. CASE RotateOpenFails(m)
  BY <1>1, <1>8 DEF RotateOpenFails, NewFile, Failure, Rotates
<1>9. QED
  BY <1>2, <1>3, <1>4, <1>5, <1>6, <1>7, <1>8 DEF Write

(* And closeFile() when the logger stops.                                  *)
Ends ==
  /\ \E bytes \in Nat : Closed(file \o buffer, bytes)
  /\ file' = << >>

LEMMA CloseInShort ==
  ASSUME FileTypeOK, CloseFile
  PROVE  \/ Ends /\ fd = "open" /\ failures' = failures
         \/ Fails /\ failures' # 0
         \/ UNCHANGED fileVars /\ fd = "closed"
<1>1. /\ file \in Seq(FilePiece) /\ buffer \in Seq(FilePiece)
      /\ fileBytes + bufferSize \in Nat
  <2>1. bufferSize \in Nat
    BY FileSizesAssumption DEF FileTypeOK
  <2>2. QED
    BY <2>1, Pieces DEF FileTypeOK, FilePiece
<1>2. CASE CloseFileDone
  BY <1>1, <1>2 DEF CloseFileDone, NewFile, Ends
<1>3. CASE CloseFileFails
  <2>1. \/ file' = file \o << >> \/ file' = file \o <<Torn>>
        \/ file' = file \o buffer \/ file' = (file \o buffer) \o <<Torn>>
    BY <1>1, <1>3, PieceSequences DEF CloseFileFails, CloseFailure
  <2>2. (file \o buffer) \o <<Torn>> = file \o (buffer \o <<Torn>>)
    BY <1>1, Pieces, ConcatAssociative
  <2>3. \E x \in Remains : file' = file \o x
    BY <2>1, <2>2 DEF Remains
  <2>4. failures' # 0
    BY <1>3 DEF CloseFileFails, Failure, FileTypeOK
  <2>5. QED
    BY <1>3, <2>3, <2>4 DEF CloseFileFails, Fails
<1>4. CASE CloseFileNotOpen
  BY <1>4 DEF CloseFileNotOpen
<1>5. QED
  BY <1>2, <1>3, <1>4 DEF CloseFile

(* The writer thread has a slot in use only while it reads the queue.      *)
HandControl == pc[WriterThread] = "finish" => writer = "reading"

(* What a step does to the log and to what was taken: nothing, or the      *)
(* thread takes a record, or writes it, or closes the file at the end.     *)
Same ==
  /\ UNCHANGED <<fileVars, delivered>>
  /\ InHand' = InHand
  /\ (writer' = "ended") <=> (writer = "ended")
Takes ==
  /\ UNCHANGED fileVars
  /\ writer # "ended" /\ writer' # "ended"
  /\ InHand = << >> /\ InHand' = <<msg'>>
  /\ msg' \in Record /\ msg' \notin Queue!Delivered
  /\ delivered' = Append(delivered, msg')
Writes ==
  /\ Write(msg)
  /\ UNCHANGED delivered
  /\ writer # "ended" /\ writer' # "ended"
  /\ InHand = <<msg>> /\ InHand' = << >>
Closes ==
  /\ CloseFile
  /\ UNCHANGED delivered
  /\ writer # "ended" /\ writer' = "ended"
  /\ InHand = << >> /\ InHand' = << >>

(* A record is taken once, so the one that is taken is a new one.          *)
LEMMA TakenIsNew ==
  ASSUME Queue!TypeOK, Queue!NothingDuplicated', NEW r \in Record,
         delivered' = Append(delivered, r)
  PROVE  r \notin Queue!Delivered
<1>1. /\ Len(delivered) \in Nat /\ Len(delivered') = Len(delivered) + 1
      /\ delivered'[Len(delivered) + 1] = r
      /\ \A i \in 1 .. Len(delivered) : delivered'[i] = delivered[i]
  BY LoggerAssumption DEF Queue!TypeOK, Queue!Item
<1>2. \A m, n \in 1 .. Len(delivered') : m # n => delivered'[m] # delivered'[n]
  BY DEF Queue!NothingDuplicated
<1>3. ASSUME NEW i \in 1 .. Len(delivered), delivered[i] = r PROVE FALSE
  BY <1>1, <1>2, <1>3
<1>4. QED
  BY <1>3 DEF Queue!Delivered

LEMMA StepKinds ==
  ASSUME TypeOK, TypeOK', Queue!NothingDuplicated', HandControl, [Next]_vars
  PROVE  HandControl' /\ (Same \/ Takes \/ Writes \/ Closes)
<1> USE DEF HandControl
<1>0. /\ pc \in [Loggers \cup {WriterThread} -> Queue!Location]
      /\ WriterThread \notin Loggers
  BY LoggerAssumption DEF TypeOK, Queue!TypeOK, Queue!Threads
<1>1. ASSUME NEW l \in Loggers, LogMessage(l) \/ LogContinue(l)
      PROVE  HandControl' /\ Same
  <2>1. /\ UNCHANGED <<fileVars, delivered, msg>>
        /\ (writer' = writer) \/ (writer = "asleep" /\ writer' = "waiting")
    BY <1>1 DEF LogMessage, LogContinue, LogQueueing, LogRefused, LogPublish,
                LogCount, LogNotify, Wake, threadVars, queueVars,
                Queue!WriteLoad, Queue!WriteRetry, Queue!WriteFree,
                Queue!WriteClaim, Queue!WriteClaimLost, Queue!WriteAdvance,
                Queue!WriteData, Queue!WriteRefused, Queue!WriteComplete
  <2>2. pc' = pc \/ \E place \in Queue!Location : pc' = [pc EXCEPT ![l] = place]
    BY <1>1 DEF LogMessage, LogContinue, LogQueueing, LogRefused, LogPublish,
                LogCount, LogNotify, queueVars, Queue!Goto, Queue!Location,
                Queue!WriteLoad, Queue!WriteRetry, Queue!WriteFree,
                Queue!WriteClaim, Queue!WriteClaimLost, Queue!WriteAdvance,
                Queue!WriteData, Queue!WriteRefused, Queue!WriteComplete
  <2>3. pc'[WriterThread] = pc[WriterThread]
    BY <1>0, <2>2
  <2>4. QED
    BY <2>1, <2>3 DEF Same, InHand
<1>2. CASE \/ ExecContinue \/ ExecLoadCount \/ ExecSleep \/ ExecWoken \/ ExecRetry
  <2>1. /\ UNCHANGED <<fileVars, delivered, msg, pc>>
        /\ writer # "writing" /\ writer' # "writing"
        /\ writer # "ended" /\ writer' # "ended"
        /\ writer # "reading"
    BY <1>2 DEF ExecContinue, ExecLoadCount, ExecSleep, ExecWoken, ExecRetry, queueVars
  <2>2. QED
    BY <2>1 DEF Same, InHand
<1>3. CASE ExecReading \/ ExecNothing
  <2>1. /\ UNCHANGED <<fileVars, delivered, msg>>
        /\ writer = "reading" /\ writer' \in {"reading", "waiting"}
    BY <1>3 DEF ExecReading, ExecNothing, threadVars, Queue!ReadLoad,
                Queue!ReadReady, Queue!ReadClaim, Queue!ReadAdvance, Queue!ReadRefused
  <2>2. pc[WriterThread] # "finish"
    BY <1>3 DEF ExecReading, ExecNothing, Queue!ReadLoad,
                Queue!ReadReady, Queue!ReadClaim, Queue!ReadAdvance, Queue!ReadRefused
  <2>3. \E place \in {"check", "claim", "advance", "access", "idle"} :
          pc' = [pc EXCEPT ![WriterThread] = place]
    BY <1>3 DEF ExecReading, ExecNothing, Queue!ReadLoad, Queue!Goto,
                Queue!ReadReady, Queue!ReadClaim, Queue!ReadAdvance, Queue!ReadRefused
  <2>4. pc'[WriterThread] # "finish"
    BY <1>0, <2>3
  <2>5. QED
    BY <2>1, <2>2, <2>4 DEF Same, InHand
<1>4. CASE ExecCopy
  <2>1. /\ UNCHANGED fileVars
        /\ writer = "reading" /\ writer' = "reading"
        /\ pc[WriterThread] = "access"
        /\ pc' = [pc EXCEPT ![WriterThread] = "finish"]
        /\ delivered' = Append(delivered, msg')
    BY <1>4 DEF ExecCopy, threadVars, Queue!ReadData, Queue!Goto
  <2>2. pc'[WriterThread] = "finish"
    BY <1>0, <2>1
  <2>3. msg' \in Record
    BY DEF TypeOK, ThreadTypeOK
  <2>4. msg' \notin Queue!Delivered
    BY <2>1, <2>3, TakenIsNew DEF TypeOK
  <2>5. QED
    BY <2>1, <2>2, <2>3, <2>4 DEF Takes, InHand
<1>5. CASE ExecRelease
  <2>1. /\ UNCHANGED <<fileVars, delivered, msg>>
        /\ writer = "reading" /\ writer' = "writing"
        /\ pc[WriterThread] = "finish"
        /\ pc' = [pc EXCEPT ![WriterThread] = "idle"]
    BY <1>5 DEF ExecRelease, Queue!ReadComplete, Queue!Goto
  <2>2. pc'[WriterThread] = "idle"
    BY <1>0, <2>1
  <2>3. QED
    BY <2>1, <2>2 DEF Same, InHand
<1>6. CASE ExecWrite
  <2>1. /\ Write(msg) /\ UNCHANGED <<delivered, pc>>
        /\ writer = "writing" /\ writer' = "top"
    BY <1>6 DEF ExecWrite, queueVars
  <2>2. QED
    BY <2>1 DEF Writes, InHand
<1>7. CASE ExecEnd
  <2>1. /\ CloseFile /\ UNCHANGED <<delivered, pc>>
        /\ writer \in {"top", "woken"} /\ writer' = "ended"
    BY <1>7 DEF ExecEnd, queueVars
  <2>2. QED
    BY <2>1 DEF Closes, InHand
<1>8. CASE StopFlag \/ StopContinue \/ UNCHANGED vars
  <2>1. /\ UNCHANGED <<fileVars, delivered, msg, pc>>
        /\ (writer' = writer) \/ (writer = "asleep" /\ writer' = "waiting")
    BY <1>8 DEF StopFlag, StopContinue, StopCount, StopNotify, StopJoin, Wake,
                vars, queueVars, threadVars
  <2>2. QED
    BY <2>1 DEF Same, InHand
<1>9. QED
  BY <1>1, <1>2, <1>3, <1>4, <1>5, <1>6, <1>7, <1>8 DEF Next, Exec

(* What was taken is a sequence of records without repetitions.            *)
LEMMA TakenType ==
  ASSUME TypeOK
  PROVE  delivered \in Seq(Record) /\ Queue!Delivered \subseteq Record
<1>1. delivered \in Seq(Record)
  BY LoggerAssumption DEF TypeOK, Queue!TypeOK, Queue!Item
<1>2. QED
  BY <1>1 DEF Queue!Delivered

(* The records of the files that were closed.                              *)
ClosedRecs == {r \in Record : \E m \in 1 .. Len(files) : Holds(files[m].content, r)}

LEMMA ShownIs ==
  TypeOK => Shown = ClosedRecs \cup Recs(Contents(Len(files) + 1))
<1> SUFFICES ASSUME TypeOK
             PROVE  Shown = ClosedRecs \cup Recs(Contents(Len(files) + 1))
  OBVIOUS
<1>1. Len(files) \in Nat
  BY DEF TypeOK, FileTypeOK
<1>2. \A m \in 1 .. Len(files) : Contents(m) = files[m].content
  BY <1>1 DEF Contents
<1>3. 1 .. Len(files) + 1 = (1 .. Len(files)) \cup {Len(files) + 1}
  BY <1>1
<1>4. QED
  BY <1>2, <1>3 DEF Shown, ShownIn, ClosedRecs, Recs

LEMMA ClosedExtends ==
  ASSUME TypeOK, NEW content, NEW bytes, Closed(content, bytes)
  PROVE  /\ Len(files) \in Nat /\ Len(files') = Len(files) + 1
         /\ \A n \in 1 .. Len(files) : files'[n] = files[n]
         /\ files'[Len(files) + 1].content = content \o <<FileEnd>>
BY DEF Closed, TypeOK, FileTypeOK

(* The records a closed file adds.                                         *)
LEMMA ClosedAdds ==
  ASSUME TypeOK, NEW content \in Seq(FilePiece), NEW bytes, Closed(content, bytes)
  PROVE  ClosedRecs' = ClosedRecs \cup Recs(content)
<1>1. /\ Len(files) \in Nat /\ Len(files') = Len(files) + 1
      /\ \A n \in 1 .. Len(files) : files'[n] = files[n]
      /\ files'[Len(files) + 1].content = content \o <<FileEnd>>
  BY ClosedExtends
<1>2. 1 .. Len(files') = (1 .. Len(files)) \cup {Len(files) + 1}
  BY <1>1
<1>3. ClosedRecs' = {r \in Record : \E m \in 1 .. Len(files') : Holds(files'[m].content, r)}
  BY DEF ClosedRecs, Holds
<1>4. ClosedRecs' = ClosedRecs \cup Recs(content \o <<FileEnd>>)
  BY <1>1, <1>2, <1>3 DEF ClosedRecs, Recs
<1>5. Recs(content \o <<FileEnd>>) = Recs(content) \cup Recs(<<FileEnd>>)
  BY Pieces, RecsConcat
<1>6. QED
  BY <1>4, <1>5, RecsOne

(* What write() makes of the records that are shown.                       *)
LEMMA CurrentContents ==
  TypeOK /\ writer # "ended" => Contents(Len(files) + 1) = file \o buffer
<1>1. TypeOK => Len(files) \in Nat
  BY DEF TypeOK, FileTypeOK
<1>2. QED
  BY <1>1 DEF Contents

LEMMA WriteShows ==
  ASSUME TypeOK, TypeOK', writer # "ended", writer' # "ended", NEW m \in Record
  PROVE  /\ Adds(m) => Shown' = Shown \cup {m}
         /\ Rotates(<<m>>) => Shown' = Shown \cup {m}
         /\ Fails \/ Rotates(buffer) => Shown' = Shown
<1>1. /\ file \in Seq(FilePiece) /\ buffer \in Seq(FilePiece)
      /\ file \o buffer \in Seq(FilePiece)
      /\ <<m>> \in Seq(FilePiece) /\ Recs(<<m>>) = {m}
  <2>1. <<m>> \in Seq(Record) /\ <<m>> \in Seq(FilePiece)
    BY Pieces
  <2>2. QED
    BY <2>1, Pieces, PieceSequences, RecsOne DEF TypeOK, FileTypeOK, FilePiece
<1>2. /\ Shown = ClosedRecs \cup Recs(file \o buffer)
      /\ Recs(file \o buffer) = Recs(file) \cup Recs(buffer)
  BY <1>1, ShownIs, CurrentContents, RecsConcat
<1>3. Shown' = ClosedRecs' \cup Recs(file' \o buffer')
  <2>1. (TypeOK => Shown = ClosedRecs \cup Recs(Contents(Len(files) + 1)))'
    BY ShownIs, PTL
  <2>2. (TypeOK /\ writer # "ended" => Contents(Len(files) + 1) = file \o buffer)'
    BY CurrentContents, PTL
  <2>3. QED
    BY <2>1, <2>2
<1>4. UNCHANGED files => ClosedRecs' = ClosedRecs
  BY DEF ClosedRecs, Holds
<1>5. ASSUME Adds(m) PROVE Shown' = Shown \cup {m}
  <2>1. Recs((file \o buffer) \o <<m>>) = Recs(file \o buffer) \cup {m}
    BY <1>1, RecsJoin
  <2>3. Shown' = ClosedRecs \cup (Recs(file \o buffer) \cup {m})
    BY <1>3, <1>4, <1>5, <2>1 DEF Adds
  <2>2. QED
    BY <1>2, <2>3
<1>6. ASSUME NEW kept \in Seq(FilePiece), Rotates(kept)
      PROVE  Shown' = Shown \cup Recs(kept)
  <2>1. PICK bytes \in Nat : Closed((file \o buffer) \o buffer, bytes)
    BY <1>6 DEF Rotates
  <2>2. /\ (file \o buffer) \o buffer \in Seq(FilePiece)
        /\ Recs((file \o buffer) \o buffer) = Recs(file \o buffer)
    BY <1>1, <1>2, RecsJoin
  <2>3. ClosedRecs' = ClosedRecs \cup Recs(file \o buffer)
    BY <2>1, <2>2, ClosedAdds
  <2>4. file' \o buffer' = kept
    BY <1>6, PieceSequences DEF Rotates
  <2>5. QED
    BY <1>2, <1>3, <2>3, <2>4
<1>7. ASSUME Fails PROVE Shown' = Shown
  <2>1. PICK x \in Remains : file' = file \o x
    BY <1>7 DEF Fails
  <2>2. buffer' = buffer /\ files' = files
    BY <1>7 DEF Fails
  <2>3. x \in Seq(FilePiece) /\ Recs(x) \subseteq Recs(buffer)
    BY <2>1, RemainsType DEF TypeOK
  <2>4. Recs((file \o x) \o buffer) = (Recs(file) \cup Recs(x)) \cup Recs(buffer)
    <3>1. file \o x \in Seq(FilePiece) /\ Recs(file \o x) = Recs(file) \cup Recs(x)
      BY <1>1, <2>3, RecsJoin
    <3>2. QED
      BY <1>1, <3>1, RecsJoin
  <2>5. Shown' = ClosedRecs \cup Recs((file \o x) \o buffer)
    BY <1>3, <1>4, <2>1, <2>2
  <2>6. QED
    BY <1>2, <2>3, <2>4, <2>5
<1>8. ASSUME Rotates(buffer) PROVE Shown' = Shown
  <2>1. Shown' = Shown \cup Recs(buffer)
    BY <1>1, <1>6, <1>8
  <2>2. QED
    BY <1>2, <2>1
<1>9. QED
  BY <1>1, <1>5, <1>6, <1>7, <1>8

(* Nothing is missing without a failure.                                   *)
CostInv == writer # "ended" => IsFiniteSet(Missing) /\ Cardinality(Missing) <= failures

LEMMA CostStays ==
  ASSUME CostInv, writer # "ended", TypeOK,
         Missing' \subseteq Missing, failures' = failures
  PROVE  CostInv'
<1>1. IsFiniteSet(Missing) /\ Cardinality(Missing) <= failures
  BY DEF CostInv
<1>2. IsFiniteSet(Missing') /\ Cardinality(Missing') <= Cardinality(Missing)
  BY <1>1, FS_Subset
<1>3. Cardinality(Missing) \in Nat /\ Cardinality(Missing') \in Nat /\ failures \in Nat
  BY <1>1, <1>2, FS_CardinalityType DEF TypeOK, FileTypeOK
<1>4. IsFiniteSet(Missing') /\ Cardinality(Missing') <= failures'
  BY <1>1, <1>2, <1>3
<1>5. QED
  BY <1>4 DEF CostInv

LEMMA CostOfFailure ==
  ASSUME CostInv, writer # "ended", TypeOK, NEW m,
         Missing' \subseteq Missing \cup {m}, failures' = failures + 1
  PROVE  CostInv'
<1>1. IsFiniteSet(Missing) /\ Cardinality(Missing) <= failures
  BY DEF CostInv
<1>2. /\ IsFiniteSet(Missing \cup {m})
      /\ Cardinality(Missing) \in Nat
      /\ Cardinality(Missing \cup {m}) <= Cardinality(Missing) + 1
  BY <1>1, FS_AddElement, FS_CardinalityType
<1>3. /\ IsFiniteSet(Missing')
      /\ Cardinality(Missing') <= Cardinality(Missing \cup {m})
  BY <1>2, FS_Subset
<1>4. /\ Cardinality(Missing \cup {m}) \in Nat
      /\ Cardinality(Missing') \in Nat /\ failures \in Nat
  BY <1>2, <1>3, FS_CardinalityType DEF TypeOK, FileTypeOK
<1>5. IsFiniteSet(Missing') /\ Cardinality(Missing') <= failures'
  BY <1>1, <1>2, <1>3, <1>4
<1>6. QED
  BY <1>5 DEF CostInv

LEMMA CostStep ==
  ASSUME TypeOK, TypeOK', Same \/ Takes \/ Writes \/ Closes, CostInv
  PROVE  CostInv'
<1>0. \A r : Holds(InHand, r) <=> r \in {InHand[p] : p \in 1 .. Len(InHand)}
  BY DEF Holds
<1>1. CASE Same
  <2>1. /\ UNCHANGED <<files, file, buffer, failures, delivered>>
        /\ InHand' = InHand /\ (writer' = "ended" <=> writer = "ended")
    BY <1>1 DEF Same, fileVars
  <2>2. CASE writer = "ended"
    BY <2>1, <2>2 DEF CostInv
  <2>3. CASE writer # "ended"
    <3>1. Missing' = Missing
      BY <2>1, <2>3 DEF Missing, Shown, ShownIn, Contents, Queue!Delivered, Holds
    <3>2. QED
      BY <2>1, <2>3, <3>1, CostStays
  <2>4. QED
    BY <2>2, <2>3
<1>2. CASE Takes
  <2>1. /\ UNCHANGED <<files, file, buffer, failures>>
        /\ writer # "ended" /\ writer' # "ended"
        /\ InHand = << >> /\ InHand' = <<msg'>>
    BY <1>2 DEF Takes, fileVars
  <2>2. Shown' = Shown
    BY <2>1 DEF Shown, ShownIn, Contents, Holds
  <2>3. Queue!Delivered' \subseteq Queue!Delivered \cup {msg'}
    <3>1. /\ delivered \in Seq(Record) /\ msg' \in Record
          /\ delivered' = Append(delivered, msg')
      BY <1>2, TakenType DEF Takes
    <3>2. /\ Len(delivered) \in Nat /\ Len(delivered') = Len(delivered) + 1
          /\ \A i \in 1 .. Len(delivered) : delivered'[i] = delivered[i]
          /\ delivered'[Len(delivered) + 1] = msg'
      BY <3>1
    <3>3. 1 .. Len(delivered') = (1 .. Len(delivered)) \cup {Len(delivered) + 1}
      BY <3>2
    <3>4. QED
      BY <3>2, <3>3 DEF Queue!Delivered
  <2>4. Missing' \subseteq Missing
    <3>1. /\ ~\E p \in 1 .. Len(InHand) : TRUE
          /\ \E p \in 1 .. Len(InHand') : InHand'[p] = msg'
      BY <2>1
    <3>2. QED
      BY <2>2, <2>3, <3>1 DEF Missing, Holds
  <2>5. QED
    BY <2>1, <2>4, CostStays
<1>3. CASE Writes
  <2>1. /\ Write(msg) /\ delivered' = delivered
        /\ writer # "ended" /\ writer' # "ended"
        /\ InHand = <<msg>> /\ InHand' = << >> /\ msg \in Record
    BY <1>3 DEF Writes, TypeOK, ThreadTypeOK
  <2>2. Missing = {r \in Queue!Delivered : r \notin Shown /\ r # msg}
    <3>1. \A r : Holds(<<msg>>, r) <=> r = msg
      BY DEF Holds
    <3>2. QED
      BY <2>1, <3>1 DEF Missing
  <2>3. Missing' = {r \in Queue!Delivered : r \notin Shown'}
    <3>1. Queue!Delivered' = Queue!Delivered
      BY <2>1 DEF Queue!Delivered
    <3>2. \A r : ~Holds(<< >>, r)
      BY DEF Holds
    <3>3. \A r : ~Holds(InHand, r)'
      BY <2>1 DEF Holds
    <3>4. QED
      BY <3>1, <3>3 DEF Missing
  <2>4. CASE Shown' = Shown \cup {msg} /\ failures' = failures
    <3>1. Missing' \subseteq Missing
      BY <2>2, <2>3, <2>4
    <3>2. QED
      BY <2>1, <2>4, <3>1, CostStays
  <2>5. CASE Shown' = Shown /\ failures' = failures + 1
    <3>1. Missing' \subseteq Missing \cup {msg}
      BY <2>2, <2>3, <2>5
    <3>2. QED
      BY <2>1, <2>5, <3>1, CostOfFailure
  <2>6. \/ Adds(msg)
        \/ Rotates(<<msg>>) /\ UNCHANGED <<failures, fd>>
        \/ (Fails \/ Rotates(buffer)) /\ failures' = failures + 1
    BY <2>1, WriteInShort DEF TypeOK
  <2>7. /\ Adds(msg) => Shown' = Shown \cup {msg}
        /\ Rotates(<<msg>>) => Shown' = Shown \cup {msg}
        /\ Fails \/ Rotates(buffer) => Shown' = Shown
    BY <2>1, WriteShows
  <2>8. Adds(msg) => failures' = failures
    BY DEF Adds
  <2>9. QED
    BY <2>4, <2>5, <2>6, <2>7, <2>8
<1>4. CASE Closes
  BY <1>4 DEF Closes, CostInv
<1>5. QED
  BY <1>1, <1>2, <1>3, <1>4

LEMMA CostInit == Init => CostInv
<1> SUFFICES ASSUME Init PROVE CostInv
  OBVIOUS
<1>1. delivered = << >> /\ failures = 0
  BY DEF Init, Queue!Init, FileWriterInit
<1>2. Missing = {}
  BY <1>1 DEF Missing, Queue!Delivered
<1>3. IsFiniteSet(Missing) /\ Cardinality(Missing) <= failures
  BY <1>1, <1>2, FS_EmptySet
<1>4. QED
  BY <1>3 DEF CostInv

LEMMA Control == Spec => [](TypeOK /\ Queue!NothingDuplicated /\ HandControl)
<1>1. Init => HandControl
  <2>1. ASSUME Init PROVE pc[WriterThread] = "idle"
    BY <2>1 DEF Init, Queue!Init, Queue!Threads
  <2>2. QED
    BY <2>1 DEF HandControl
<1>2. TypeOK /\ TypeOK' /\ Queue!NothingDuplicated' /\ HandControl /\ [Next]_vars
        => HandControl'
  BY StepKinds
<1>3. QED
  BY <1>1, <1>2, Typing, NoRecordLost, PTL DEF Spec

(* A record that was taken is in the log or at hand, but for as many as    *)
(* calls have failed: the buffer that could not be written is written      *)
(* later (BinaryLogger.cpp:214-236).                                       *)
THEOREM FailuresCost == Spec => []FailureCostsOneRecord
<1>1. TypeOK /\ TypeOK' /\ Queue!NothingDuplicated' /\ HandControl /\ [Next]_vars
        /\ CostInv => CostInv'
  BY StepKinds, CostStep
<1>2. CostInv => FailureCostsOneRecord
  BY DEF CostInv, FailureCostsOneRecord
<1>3. QED
  BY <1>1, <1>2, CostInit, Control, PTL DEF Spec

(* Everything shown and everything at hand was taken from the queue.       *)
KnownInv == Shown \subseteq Queue!Delivered /\ Recs(InHand) \subseteq Queue!Delivered

LEMMA CloseShows ==
  ASSUME TypeOK, TypeOK', Closes
  PROVE  Shown' \subseteq Shown
<1>1. /\ file \in Seq(FilePiece) /\ buffer \in Seq(FilePiece)
      /\ file' \in Seq(FilePiece)
      /\ writer # "ended" /\ writer' = "ended"
  BY Pieces DEF TypeOK, FileTypeOK, FilePiece, Closes
<1>2. /\ Shown = ClosedRecs \cup Recs(file \o buffer)
      /\ Recs(file \o buffer) = Recs(file) \cup Recs(buffer)
  BY <1>1, ShownIs, CurrentContents, RecsConcat
<1>3. Shown' = ClosedRecs' \cup Recs(file')
  <2>1. (TypeOK => Shown = ClosedRecs \cup Recs(Contents(Len(files) + 1)))'
    BY ShownIs, PTL
  <2>2. Contents(Len(files) + 1)' = file'
    BY <1>1 DEF Contents, TypeOK, FileTypeOK
  <2>3. QED
    BY <2>1, <2>2
<1>4. UNCHANGED files => ClosedRecs' = ClosedRecs
  BY DEF ClosedRecs, Holds
<1>5. CASE Ends
  <2>1. PICK bytes \in Nat : Closed(file \o buffer, bytes)
    BY <1>5 DEF Ends
  <2>2. file \o buffer \in Seq(FilePiece)
    BY <1>1, PieceSequences
  <2>3. ClosedRecs' = ClosedRecs \cup Recs(file \o buffer)
    BY <2>1, <2>2, ClosedAdds
  <2>4. Recs(file') = {}
    BY <1>5, RecsOne DEF Ends
  <2>5. QED
    BY <1>2, <1>3, <2>3, <2>4
<1>6. CASE Fails
  <2>1. PICK x \in Remains : file' = file \o x
    BY <1>6 DEF Fails
  <2>2. x \in Seq(FilePiece) /\ Recs(x) \subseteq Recs(buffer)
    BY <2>1, RemainsType DEF TypeOK
  <2>3. Recs(file') = Recs(file) \cup Recs(x)
    BY <1>1, <2>1, <2>2, RecsJoin
  <2>4. files' = files
    BY <1>6 DEF Fails
  <2>5. QED
    BY <1>2, <1>3, <1>4, <2>2, <2>3, <2>4
<1>7. CASE UNCHANGED fileVars
  <2>1. file' = file /\ files' = files
    BY <1>7 DEF fileVars
  <2>2. QED
    BY <1>2, <1>3, <1>4, <2>1
<1>8. QED
  BY <1>5, <1>6, <1>7, CloseInShort DEF Closes, TypeOK

LEMMA TakenGrows ==
  ASSUME NEW d \in Seq(Record), NEW r \in Record
  PROVE  /\ Len(Append(d, r)) = Len(d) + 1 /\ Len(d) \in Nat
         /\ \A i \in 1 .. Len(d) : Append(d, r)[i] = d[i]
         /\ Append(d, r)[Len(d) + 1] = r
OBVIOUS

LEMMA KnownStep ==
  ASSUME TypeOK, TypeOK', Same \/ Takes \/ Writes \/ Closes, KnownInv
  PROVE  KnownInv'
<1> USE DEF KnownInv
<1>0. /\ Recs(<< >>) = {} /\ \A r \in Record : Recs(<<r>>) = {r}
  BY RecsOne
<1>1. CASE Same
  <2>1. /\ UNCHANGED <<files, file, buffer, delivered>>
        /\ InHand' = InHand /\ (writer' = "ended" <=> writer = "ended")
    BY <1>1 DEF Same, fileVars
  <2>2. Shown' = Shown /\ Recs(InHand)' = Recs(InHand)
    BY <2>1 DEF Shown, ShownIn, Contents, Holds, Recs
  <2>3. QED
    BY <2>1, <2>2 DEF Queue!Delivered
<1>2. CASE Takes
  <2>1. /\ UNCHANGED <<files, file, buffer>>
        /\ writer # "ended" /\ writer' # "ended"
        /\ InHand' = <<msg'>> /\ msg' \in Record
        /\ delivered' = Append(delivered, msg') /\ delivered \in Seq(Record)
    BY <1>2, TakenType DEF Takes, fileVars
  <2>2. Shown' = Shown
    BY <2>1 DEF Shown, ShownIn, Contents, Holds
  <2>3. Recs(InHand)' = {msg'}
    BY <1>0, <2>1 DEF Recs, Holds
  <2>4. Queue!Delivered \subseteq Queue!Delivered' /\ msg' \in Queue!Delivered'
    BY <2>1, TakenGrows DEF Queue!Delivered
  <2>5. QED
    BY <2>2, <2>3, <2>4
<1>3. CASE Writes
  <2>1. /\ Write(msg) /\ delivered' = delivered
        /\ writer # "ended" /\ writer' # "ended"
        /\ InHand = <<msg>> /\ InHand' = << >> /\ msg \in Record
    BY <1>3 DEF Writes, TypeOK, ThreadTypeOK
  <2>2. Recs(InHand)' = {} /\ msg \in Queue!Delivered
    BY <1>0, <2>1 DEF Recs, Holds
  <2>3. Shown' \subseteq Shown \cup {msg}
    BY <2>1, WriteInShort, WriteShows DEF TypeOK
  <2>4. QED
    BY <2>1, <2>2, <2>3 DEF Queue!Delivered
<1>4. CASE Closes
  <2>1. Shown' \subseteq Shown
    BY <1>4, CloseShows
  <2>2. InHand' = << >> /\ delivered' = delivered
    BY <1>4 DEF Closes
  <2>3. Recs(InHand)' = {}
    BY <1>0, <2>2 DEF Recs, Holds
  <2>4. QED
    BY <2>1, <2>2, <2>3 DEF Queue!Delivered
<1>5. QED
  BY <1>1, <1>2, <1>3, <1>4

LEMMA KnownInit == Init => KnownInv
<1> SUFFICES ASSUME Init PROVE KnownInv
  OBVIOUS
<1>1. /\ file = << >> /\ buffer = << >> /\ files = << >> /\ writer = "top"
      /\ pc[WriterThread] = "idle"
  BY DEF Init, FileWriterInit, Queue!Init, Queue!Threads
<1>2. InHand = << >>
  BY <1>1 DEF InHand
<1>3. \A n \in 1 .. 1 : Contents(n) = << >>
  BY <1>1 DEF Contents
<1>4. Shown = {}
  BY <1>1, <1>3 DEF Shown, ShownIn, Holds
<1>5. QED
  BY <1>2, <1>4, RecsOne DEF KnownInv

LEMMA Known == Spec => []KnownInv
<1>1. TypeOK /\ TypeOK' /\ Queue!NothingDuplicated' /\ HandControl /\ [Next]_vars
        /\ KnownInv => KnownInv'
  BY StepKinds, KnownStep
<1>2. QED
  BY <1>1, KnownInit, Control, PTL DEF Spec

(* Pieces of the sequence d of what was taken.                             *)
PieceOf(d, first, last) == SubSeq(d, first + 1, last)

LEMMA PieceType ==
  ASSUME NEW d \in Seq(Record), NEW a \in Nat, NEW b \in Nat, a <= b, b <= Len(d)
  PROVE  /\ PieceOf(d, a, b) \in Seq(Record) /\ PieceOf(d, a, b) \in Seq(FilePiece)
         /\ Len(PieceOf(d, a, b)) = b - a
         /\ \A i \in 1 .. b - a : PieceOf(d, a, b)[i] = d[a + i]
<1>1. \A i \in a + 1 .. b : d[i] \in Record
  OBVIOUS
<1>2. a + 1 \in Int /\ b \in Int
  OBVIOUS
<1>3. /\ SubSeq(d, a + 1, b) \in Seq(Record)
      /\ Len(SubSeq(d, a + 1, b)) = IF a + 1 <= b THEN b - (a + 1) + 1 ELSE 0
      /\ \A i \in 1 .. b - (a + 1) + 1 : SubSeq(d, a + 1, b)[i] = d[(a + 1) + i - 1]
  BY <1>1, <1>2, SubSeqProperties
<1>4. QED
  BY <1>3, Pieces DEF PieceOf

LEMMA PieceEmpty ==
  ASSUME NEW d \in Seq(Record), NEW a \in 0 .. Len(d)
  PROVE  PieceOf(d, a, a) = << >>
<1>1. a \in Nat /\ Len(d) \in Nat /\ a <= Len(d)
  OBVIOUS
<1>2. PieceOf(d, a, a) \in Seq(Record) /\ Len(PieceOf(d, a, a)) = 0
  BY <1>1, PieceType
<1>3. QED
  BY <1>2, EmptySeq

LEMMA PieceHolds ==
  ASSUME NEW d \in Seq(Record), NEW a \in Nat, NEW b \in Nat, a <= b, b <= Len(d),
         \A i, j \in 1 .. Len(d) : i # j => d[i] # d[j],
         NEW i \in 1 .. Len(d)
  PROVE  Holds(PieceOf(d, a, b), d[i]) <=> a < i /\ i <= b
<1>1. /\ Len(PieceOf(d, a, b)) = b - a
      /\ \A p \in 1 .. b - a : PieceOf(d, a, b)[p] = d[a + p]
  BY PieceType
<1>2. ASSUME Holds(PieceOf(d, a, b), d[i]) PROVE a < i /\ i <= b
  <2>1. PICK p \in 1 .. b - a : d[a + p] = d[i]
    BY <1>1, <1>2 DEF Holds
  <2>2. a + p \in 1 .. Len(d)
    OBVIOUS
  <2>3. a + p = i
    BY <2>1, <2>2
  <2>4. QED
    BY <2>3
<1>3. ASSUME a < i, i <= b PROVE Holds(PieceOf(d, a, b), d[i])
  <2>1. i - a \in 1 .. b - a /\ a + (i - a) = i
    BY <1>3
  <2>2. PieceOf(d, a, b)[i - a] = d[i]
    BY <1>1, <2>1
  <2>3. QED
    BY <1>1, <2>1, <2>2 DEF Holds
<1>4. QED
  BY <1>2, <1>3

LEMMA PieceStays ==
  ASSUME NEW d \in Seq(Record), NEW r \in Record,
         NEW a \in Nat, NEW b \in Nat, a <= b, b <= Len(d)
  PROVE  PieceOf(Append(d, r), a, b) = PieceOf(d, a, b)
<1>1. Append(d, r) \in Seq(Record) /\ b <= Len(Append(d, r))
  BY TakenGrows
<1>2. /\ PieceOf(d, a, b) \in Seq(Record) /\ PieceOf(Append(d, r), a, b) \in Seq(Record)
      /\ Len(PieceOf(d, a, b)) = b - a /\ Len(PieceOf(Append(d, r), a, b)) = b - a
      /\ \A i \in 1 .. b - a : PieceOf(d, a, b)[i] = d[a + i]
      /\ \A i \in 1 .. b - a : PieceOf(Append(d, r), a, b)[i] = Append(d, r)[a + i]
  BY <1>1, PieceType
<1>3. \A i \in 1 .. b - a : Append(d, r)[a + i] = d[a + i]
  <2>1. ASSUME NEW i \in 1 .. b - a PROVE a + i \in 1 .. Len(d)
    OBVIOUS
  <2>2. QED
    BY <2>1, TakenGrows
<1>4. \A i \in 1 .. b - a : PieceOf(Append(d, r), a, b)[i] = PieceOf(d, a, b)[i]
  BY <1>2, <1>3
<1>5. QED
  BY <1>2, <1>4, SeqEqual

LEMMA PieceGrows ==
  ASSUME NEW d \in Seq(Record), NEW r \in Record, NEW a \in 0 .. Len(d)
  PROVE  PieceOf(Append(d, r), a, Len(d) + 1) = PieceOf(d, a, Len(d)) \o <<r>>
<1>1. /\ Append(d, r) \in Seq(Record) /\ Len(Append(d, r)) = Len(d) + 1
      /\ Len(d) \in Nat /\ a \in Nat /\ a <= Len(d)
      /\ a + 1 \in 1 .. Len(d) + 1 /\ Len(d) + 1 \in a + 1 .. Len(d) + 1
  BY TakenGrows
<1>2. SubSeq(Append(d, r), a + 1, Len(d) + 1)
        = SubSeq(Append(d, r), a + 1, (Len(d) + 1) - 1) \o <<Append(d, r)[Len(d) + 1]>>
  BY <1>1, SubSeqRecursiveSecond
<1>3. (Len(d) + 1) - 1 = Len(d) /\ Append(d, r)[Len(d) + 1] = r
  BY <1>1, TakenGrows
<1>4. PieceOf(Append(d, r), a, Len(d)) = PieceOf(d, a, Len(d))
  BY <1>1, PieceStays
<1>5. QED
  BY <1>2, <1>3, <1>4 DEF PieceOf

LEMMA PieceLast ==
  ASSUME NEW d \in Seq(Record), NEW a \in Nat, NEW b \in Nat, a <= b, b <= Len(d),
         NEW s \in Seq(FilePiece), NEW r \in Record, s \o <<r>> = PieceOf(d, a, b)
  PROVE  a < b /\ d[b] = r /\ s = PieceOf(d, a, b - 1)
<1>1. /\ <<r>> \in Seq(FilePiece) /\ Len(<<r>>) = 1
      /\ Len(s \o <<r>>) = Len(s) + 1 /\ Len(s) \in Nat
      /\ (s \o <<r>>)[Len(s) + 1] = r
      /\ \A i \in 1 .. Len(s) : (s \o <<r>>)[i] = s[i]
  BY Pieces
<1>2. /\ Len(PieceOf(d, a, b)) = b - a
      /\ \A i \in 1 .. b - a : PieceOf(d, a, b)[i] = d[a + i]
  BY PieceType
<1>3. a < b /\ Len(s) = (b - a) - 1
  BY <1>1, <1>2
<1>4. d[b] = r
  <2>1. Len(s) + 1 \in 1 .. b - a /\ a + (Len(s) + 1) = b
    BY <1>3
  <2>2. QED
    BY <1>1, <1>2, <2>1
<1>5. b - 1 \in Nat /\ a <= b - 1 /\ b - 1 <= Len(d)
  BY <1>3
<1>6. /\ PieceOf(d, a, b - 1) \in Seq(FilePiece) /\ Len(PieceOf(d, a, b - 1)) = (b - 1) - a
      /\ \A i \in 1 .. (b - 1) - a : PieceOf(d, a, b - 1)[i] = d[a + i]
  BY <1>5, PieceType
<1>7. (b - 1) - a = (b - a) - 1
  OBVIOUS
<1>8. ASSUME NEW i \in 1 .. Len(s) PROVE s[i] = PieceOf(d, a, b - 1)[i]
  <2>1. i \in 1 .. b - a /\ i \in 1 .. (b - 1) - a
    BY <1>3, <1>7
  <2>2. s[i] = PieceOf(d, a, b)[i]
    BY <1>1
  <2>3. QED
    BY <1>2, <1>6, <2>1, <2>2
<1>9. QED
  BY <1>3, <1>4, <1>6, <1>7, <1>8, SeqEqual

LEMMA PieceSuffix ==
  ASSUME NEW d \in Seq(Record), NEW a \in Nat, NEW b \in Nat, a <= b, b <= Len(d),
         NEW s \in Seq(FilePiece), NEW t \in Seq(FilePiece), s \o t = PieceOf(d, a, b)
  PROVE  \E c \in a .. b : t = PieceOf(d, c, b)
<1>1. /\ Len(s \o t) = Len(s) + Len(t) /\ Len(s) \in Nat /\ Len(t) \in Nat
      /\ \A i \in 1 .. Len(t) : (s \o t)[Len(s) + i] = t[i]
  <2>1. /\ Len(s \o t) = Len(s) + Len(t) /\ Len(s) \in Nat /\ Len(t) \in Nat
        /\ \A i \in 1 .. Len(s) + Len(t) :
             (s \o t)[i] = IF i <= Len(s) THEN s[i] ELSE t[i - Len(s)]
    BY ConcatProperties
  <2>2. ASSUME NEW i \in 1 .. Len(t) PROVE (s \o t)[Len(s) + i] = t[i]
    <3>1. /\ Len(s) + i \in 1 .. Len(s) + Len(t) /\ ~(Len(s) + i <= Len(s))
          /\ (Len(s) + i) - Len(s) = i
      BY <2>1
    <3>2. QED
      BY <2>1, <3>1
  <2>3. QED
    BY <2>1, <2>2
<1>2. /\ Len(PieceOf(d, a, b)) = b - a
      /\ \A i \in 1 .. b - a : PieceOf(d, a, b)[i] = d[a + i]
  BY PieceType
<1>3. PICK c : c = a + Len(s)
  OBVIOUS
<1>4. c \in a .. b /\ c \in Nat /\ b - c = Len(t) /\ c <= b
  <2>1. b - a = Len(s) + Len(t)
    BY <1>1, <1>2
  <2>2. PICK k \in Nat, l \in Nat : k = Len(s) /\ l = Len(t)
    BY <1>1
  <2>3. b - a = k + l /\ c = a + k
    BY <2>1, <2>2, <1>3
  <2>4. c \in a .. b /\ c \in Nat /\ b - c = l /\ c <= b
    BY <2>3
  <2>5. QED
    BY <2>2, <2>4
<1>5. /\ PieceOf(d, c, b) \in Seq(FilePiece) /\ Len(PieceOf(d, c, b)) = b - c
      /\ \A i \in 1 .. b - c : PieceOf(d, c, b)[i] = d[c + i]
  BY <1>4, PieceType
<1>6. ASSUME NEW i \in 1 .. Len(t) PROVE t[i] = PieceOf(d, c, b)[i]
  <2>1. /\ i \in 1 .. b - c /\ Len(s) + i \in 1 .. b - a
        /\ a + (Len(s) + i) = c + i
    BY <1>1, <1>3, <1>4
  <2>2. QED
    BY <1>1, <1>2, <1>5, <2>1
<1>7. t = PieceOf(d, c, b)
  BY <1>4, <1>5, <1>6, SeqEqual
<1>8. QED
  BY <1>4, <1>7

(* While nothing fails, what the files hold of the records is a beginning  *)
(* of what was taken.                                                      *)
Reaches ==
  \A n \in 0 .. Len(files) :
    Through(n) \in 0 .. Len(delivered) /\ Reached(n) = 1 .. Through(n)

TakenInv == failures = 0 => Reaches /\ FilesAsTaken /\ RestAsTaken

LEMMA MaxUpTo == \A k \in Nat : Max((1 .. k) \cup {0}) = k
<1> SUFFICES ASSUME NEW k \in Nat PROVE Max((1 .. k) \cup {0}) = k
  OBVIOUS
<1>1. (1 .. k) \cup {0} = 0 .. k
  OBVIOUS
<1>2. k \in 0 .. k /\ \A y \in 0 .. k : k >= y
  OBVIOUS
<1>3. \A x \in 0 .. k : (\A y \in 0 .. k : x >= y) => x = k
  OBVIOUS
<1>4. Max(0 .. k) = k
  BY <1>2, <1>3 DEF Max
<1>5. QED
  BY <1>1, <1>4

LEMMA TakenTwice ==
  Queue!NothingDuplicated =>
    \A i, j \in 1 .. Len(delivered) : i # j => delivered[i] # delivered[j]
BY DEF Queue!NothingDuplicated

(* Taking a record changes nothing of what the closed files say.           *)
LEMMA ReachedStays ==
  ASSUME TypeOK, KnownInv, Takes, NEW n \in 0 .. Len(files)
  PROVE  Reached(n)' = Reached(n)
<1>1. /\ delivered \in Seq(Record) /\ delivered' = Append(delivered, msg')
      /\ msg' \in Record /\ msg' \notin Queue!Delivered
      /\ files' = files
  BY TakenType DEF Takes, fileVars
<1>2. /\ Len(delivered') = Len(delivered) + 1 /\ Len(delivered) \in Nat
      /\ \A i \in 1 .. Len(delivered) : delivered'[i] = delivered[i]
      /\ delivered'[Len(delivered) + 1] = msg'
  BY <1>1, TakenGrows
<1>3. ASSUME NEW m \in 1 .. n PROVE ~Holds(files[m].content, msg')
  <2>1. m \in 1 .. Len(files) /\ Len(files) \in Nat
    BY DEF TypeOK, FileTypeOK
  <2>2. Contents(m) = files[m].content /\ m \in 1 .. Len(files) + 1
    BY <2>1 DEF Contents
  <2>3. msg' \notin Shown
    BY <1>1 DEF KnownInv
  <2>4. QED
    BY <1>1, <2>2, <2>3 DEF Shown, ShownIn
<1>4. Reached(n)' = {i \in 1 .. Len(delivered') :
                       \E m \in 1 .. n : Holds(files[m].content, delivered'[i])}
  BY <1>1 DEF Reached, Holds
<1>5. 1 .. Len(delivered') = (1 .. Len(delivered)) \cup {Len(delivered) + 1}
  BY <1>2
<1>6. QED
  BY <1>2, <1>3, <1>4, <1>5 DEF Reached

LEMMA TakesTaken ==
  ASSUME TypeOK, KnownInv, Takes, failures = 0, TakenInv
  PROVE  Reaches' /\ FilesAsTaken' /\ RestAsTaken'
<1>1. /\ delivered \in Seq(Record) /\ delivered' = Append(delivered, msg')
      /\ msg' \in Record /\ files' = files /\ file' = file /\ buffer' = buffer
      /\ writer # "ended" /\ writer' # "ended"
      /\ InHand = << >> /\ InHand' = <<msg'>>
      /\ Len(files) \in Nat
  BY TakenType DEF Takes, fileVars, TypeOK, FileTypeOK
<1>2. /\ Len(delivered') = Len(delivered) + 1 /\ Len(delivered) \in Nat
  BY <1>1, TakenGrows
<1>3. Reaches /\ FilesAsTaken /\ RestAsTaken
  BY DEF TakenInv
<1>4. ASSUME NEW n \in 0 .. Len(files)
      PROVE  /\ Reached(n)' = Reached(n) /\ Through(n)' = Through(n)
             /\ Through(n) \in 0 .. Len(delivered)
  <2>1. Reached(n)' = Reached(n)
    BY ReachedStays
  <2>2. QED
    BY <1>3, <2>1 DEF Through, Reaches
<1>5. ASSUME NEW a \in Nat, NEW b \in Nat, a <= b, b <= Len(delivered)
      PROVE  SubSeq(delivered', a + 1, b) = SubSeq(delivered, a + 1, b)
  BY <1>1, <1>5, PieceStays DEF PieceOf
<1>6. Reaches'
  BY <1>1, <1>2, <1>3, <1>4 DEF Reaches
<1>7. ASSUME NEW n \in 1 .. Len(files)
      PROVE  (\E again \in Through(n - 1) .. Through(n) :
                files[n].content = Part(Through(n - 1), Through(n)) \o Part(again, Through(n))
                                     \o <<FileEnd>>)'
  <2>1. n \in 0 .. Len(files) /\ n - 1 \in 0 .. Len(files)
    BY <1>1
  <2>2. PICK a \in Nat, b \in Nat : /\ a = Through(n - 1) /\ b = Through(n)
                                    /\ b <= Len(delivered)
    BY <1>2, <1>4, <2>1
  <2>3. PICK again \in a .. b :
          files[n].content = Part(a, b) \o Part(again, b) \o <<FileEnd>>
    BY <1>3, <2>2 DEF FilesAsTaken
  <2>4. Through(n - 1)' = a /\ Through(n)' = b
    BY <1>4, <2>1, <2>2
  <2>5. Part(a, b)' = Part(a, b) /\ Part(again, b)' = Part(again, b)
    <3>1. again \in Nat /\ again <= b /\ a <= b
      BY <2>2, <2>3
    <3>2. /\ SubSeq(delivered', a + 1, b) = SubSeq(delivered, a + 1, b)
          /\ SubSeq(delivered', again + 1, b) = SubSeq(delivered, again + 1, b)
      BY <1>5, <2>2, <3>1
    <3>3. QED
      BY <3>2 DEF Part
  <2>6. QED
    BY <1>1, <2>3, <2>4, <2>5
<1>8. FilesAsTaken'
  BY <1>1, <1>7 DEF FilesAsTaken
<1>9. RestAsTaken'
  <2>1. PICK a \in 0 .. Len(delivered) : a = Through(Len(files))
    BY <1>1, <1>4
  <2>2. Through(Len(files))' = a
    BY <1>1, <1>4, <2>1
  <2>3. file \in Seq(FilePiece) /\ buffer \in Seq(FilePiece)
    BY Pieces DEF TypeOK, FileTypeOK, FilePiece
  <2>4. PICK s \in Seq(FilePiece) : s = file \o buffer
    BY <2>3, PieceSequences
  <2>5. Contents(Len(files) + 1) = s /\ Contents(Len(files) + 1)' = s
    BY <1>1, <2>4 DEF Contents
  <2>6. s \o << >> = s
    BY <2>4, PieceSequences
  <2>7. s = SubSeq(delivered, a + 1, Len(delivered))
    BY <1>1, <1>3, <2>1, <2>5, <2>6 DEF RestAsTaken, Part
  <2>8. SubSeq(delivered', a + 1, Len(delivered) + 1) = s \o <<msg'>>
    BY <1>1, <2>7, PieceGrows DEF PieceOf
  <2>9. QED
    BY <1>1, <1>2, <2>1, <2>2, <2>5, <2>8 DEF RestAsTaken, Part
<1>10. QED
  BY <1>6, <1>8, <1>9

(* A file that is closed while nothing has failed continues what the files *)
(* before it hold.                                                         *)
LEMMA ClosedAsTaken ==
  ASSUME TypeOK, Queue!NothingDuplicated, Reaches, FilesAsTaken,
         UNCHANGED delivered,
         NEW a \in Nat, a = Through(Len(files)),
         NEW b \in a .. Len(delivered), NEW again \in a .. b, NEW bytes,
         Closed(PieceOf(delivered, a, b) \o PieceOf(delivered, again, b), bytes)
  PROVE  /\ Reaches' /\ FilesAsTaken' /\ Through(Len(files))' = b
         /\ Len(files') = Len(files) + 1
<1> DEFINE all == PieceOf(delivered, a, b) \o PieceOf(delivered, again, b)
<1>0. PICK N \in Nat : N = Len(files)
  BY DEF TypeOK, FileTypeOK
<1>1. /\ Len(files') = N + 1
      /\ \A n \in 1 .. N : files'[n] = files[n]
      /\ files'[N + 1].content = all \o <<FileEnd>>
  <2>1. PICK new : new = [content |-> all \o <<FileEnd>>,
                          bytes |-> bytes + EndSize]
    OBVIOUS
  <2>2. files' = Append(files, new)
    BY <2>1 DEF Closed
  <2>3. new.content = all \o <<FileEnd>>
    BY <2>1
  <2>4. Len(files) = N /\ \E Any : files \in Seq(Any)
    BY <1>0 DEF TypeOK, FileTypeOK
  <2>5. QED
    BY <1>0, <2>2, <2>3, <2>4
<1>2. /\ delivered \in Seq(Record) /\ Len(delivered) \in Nat
      /\ \A i, j \in 1 .. Len(delivered) : i # j => delivered[i] # delivered[j]
  BY TakenType, TakenTwice
<1>3. ASSUME NEW n \in 0 .. N
      PROVE  Reached(n)' = Reached(n) /\ Through(n)' = Through(n)
  <2>1. \A m \in 1 .. n : files'[m] = files[m]
    BY <1>1
  <2>2. Reached(n)' = Reached(n)
    <3>1. Reached(n)' = {i \in 1 .. Len(delivered) :
                           \E m \in 1 .. n : Holds(files'[m].content, delivered[i])}
      BY DEF Reached, Holds
    <3>2. QED
      BY <2>1, <3>1 DEF Reached
  <2>3. QED
    BY <2>2 DEF Through
<1>4. ASSUME NEW i \in 1 .. Len(delivered)
      PROVE  Holds(files'[N + 1].content, delivered[i]) <=> a < i /\ i <= b
  <2>1. delivered[i] \in Record /\ b \in Nat /\ again \in Nat
    BY <1>2
  <2>2. /\ PieceOf(delivered, a, b) \in Seq(FilePiece)
        /\ PieceOf(delivered, again, b) \in Seq(FilePiece)
    <3>1. a <= b /\ again <= b /\ b <= Len(delivered)
      BY <1>2
    <3>2. QED
      BY <1>2, <2>1, <3>1, PieceType
  <2>3. /\ Holds(PieceOf(delivered, a, b), delivered[i]) <=> a < i /\ i <= b
        /\ Holds(PieceOf(delivered, again, b), delivered[i]) <=> again < i /\ i <= b
    BY <1>2, <2>1, PieceHolds
  <2>4. ~Holds(<<FileEnd>>, delivered[i])
    BY <2>1, Pieces DEF Holds
  <2>5. Holds(all \o <<FileEnd>>, delivered[i]) <=>
          \/ Holds(PieceOf(delivered, a, b), delivered[i])
          \/ Holds(PieceOf(delivered, again, b), delivered[i])
    <3>1. all \in Seq(FilePiece) /\ <<FileEnd>> \in Seq(FilePiece)
      BY <2>2, PieceSequences, Pieces
    <3>2. Holds(all \o <<FileEnd>>, delivered[i])
            <=> Holds(all, delivered[i]) \/ Holds(<<FileEnd>>, delivered[i])
      <4> HIDE DEF all
      <4>1. QED
        BY <3>1, HoldsConcat
    <3>3. QED
      BY <2>2, <2>4, <3>2, HoldsConcat
  <2>6. QED
    BY <1>1, <2>3, <2>5
<1>5. Reached(N) = 1 .. a /\ Through(N) = a
  BY <1>0 DEF Reaches
<1>6. Reached(N + 1)' = 1 .. b
  <2>1. Reached(N + 1)' =
          {i \in 1 .. Len(delivered) :
             \E m \in 1 .. N + 1 : Holds(files'[m].content, delivered[i])}
    BY DEF Reached, Holds
  <2>2. 1 .. N + 1 = (1 .. N) \cup {N + 1}
    BY <1>1
  <2>3. Reached(N + 1)' = Reached(N) \cup {i \in 1 .. Len(delivered) : a < i /\ i <= b}
    <3>1. \A m \in 1 .. N : files'[m] = files[m]
      BY <1>1
    <3>2. ASSUME NEW i \in 1 .. Len(delivered)
          PROVE  i \in Reached(N + 1)' <=> i \in Reached(N) \/ (a < i /\ i <= b)
      <4>1. (\E m \in 1 .. N + 1 : Holds(files'[m].content, delivered[i]))
              <=> \/ \E m \in 1 .. N : Holds(files[m].content, delivered[i])
                  \/ Holds(files'[N + 1].content, delivered[i])
        BY <2>2, <3>1
      <4>2. QED
        BY <1>4, <2>1, <4>1 DEF Reached
    <3>3. Reached(N + 1)' \subseteq 1 .. Len(delivered)
      BY <2>1
    <3>4. Reached(N) \subseteq 1 .. Len(delivered)
      BY DEF Reached
    <3>5. QED
      BY <3>2, <3>3, <3>4
  <2>4. (1 .. a) \cup {i \in 1 .. Len(delivered) : a < i /\ i <= b} = 1 .. b
    BY <1>2
  <2>5. QED
    BY <1>5, <2>3, <2>4
<1>7. Through(N + 1)' = b
  <2>1. b \in Nat
    BY <1>2
  <2>2. QED
    BY <1>6, <2>1, MaxUpTo DEF Through
<1>8. Reaches'
  <2>1. ASSUME NEW n \in 0 .. Len(files')
        PROVE  (Through(n) \in 0 .. Len(delivered) /\ Reached(n) = 1 .. Through(n))'
    <3>1. CASE n \in 0 .. N
      BY <1>0, <1>3, <3>1 DEF Reaches
    <3>2. CASE n = N + 1
      BY <1>2, <1>6, <1>7, <3>2
    <3>3. QED
      BY <1>1, <3>1, <3>2
  <2>2. QED
    BY <2>1 DEF Reaches
<1>9. FilesAsTaken'
  <2>1. ASSUME NEW n \in 1 .. Len(files')
        PROVE  (\E x \in Through(n - 1) .. Through(n) :
                  files[n].content = Part(Through(n - 1), Through(n))
                                       \o Part(x, Through(n)) \o <<FileEnd>>)'
    <3>1. CASE n \in 1 .. N
      <4>1. n \in 0 .. N /\ n - 1 \in 0 .. N
        BY <1>1, <3>1
      <4>2. /\ Through(n - 1)' = Through(n - 1) /\ Through(n)' = Through(n)
            /\ files'[n] = files[n]
        BY <1>1, <1>3, <3>1, <4>1
      <4>3. \E x \in Through(n - 1) .. Through(n) :
              files[n].content = Part(Through(n - 1), Through(n))
                                   \o Part(x, Through(n)) \o <<FileEnd>>
        BY <1>0, <3>1 DEF FilesAsTaken
      <4>4. QED
        BY <4>2, <4>3 DEF Part
    <3>2. CASE n = N + 1
      <4>1. n - 1 = N
        BY <1>1, <3>2
      <4>2. Through(n - 1)' = a /\ Through(n)' = b
        BY <1>3, <1>5, <1>7, <3>2, <4>1
      <4>3. /\ again \in Through(n - 1)' .. Through(n)'
            /\ files'[n].content = PieceOf(delivered, a, b)
                                     \o PieceOf(delivered, again, b) \o <<FileEnd>>
        BY <1>1, <3>2, <4>2
      <4>4. QED
        BY <4>2, <4>3 DEF Part, PieceOf
    <3>3. n \in 1 .. N \/ n = N + 1
      BY <1>1
    <3>4. QED
      BY <3>1, <3>2, <3>3
  <2>2. QED
    BY <2>1 DEF FilesAsTaken
<1>10. QED
  BY <1>0, <1>1, <1>7, <1>8, <1>9

LEMMA WritesTaken ==
  ASSUME TypeOK, TypeOK', Queue!NothingDuplicated, Writes,
         Reaches, FilesAsTaken, RestAsTaken, failures' = 0
  PROVE  Reaches' /\ FilesAsTaken' /\ RestAsTaken'
<1>1. /\ Write(msg) /\ delivered' = delivered
      /\ writer # "ended" /\ writer' # "ended"
      /\ InHand = <<msg>> /\ InHand' = << >> /\ msg \in Record
  BY DEF Writes, TypeOK, ThreadTypeOK
<1>2. /\ file \in Seq(FilePiece) /\ buffer \in Seq(FilePiece)
      /\ <<msg>> \in Seq(FilePiece)
      /\ Len(files) \in Nat /\ failures \in Nat
      /\ delivered \in Seq(Record) /\ Len(delivered) \in Nat
  BY <1>1, Pieces, TakenType DEF TypeOK, FileTypeOK, FilePiece
<1>3. PICK all \in Seq(FilePiece) : all = file \o buffer
  BY <1>2, PieceSequences
<1>4. PICK a \in 0 .. Len(delivered) : a = Through(Len(files))
  BY <1>2 DEF Reaches
<1>5. PICK b \in Nat : b = Len(delivered)
  BY <1>2
<1>6. a \in Nat /\ a <= b /\ b <= Len(delivered)
  BY <1>4, <1>5
<1>7. all \o <<msg>> = PieceOf(delivered, a, b)
  BY <1>1, <1>3, <1>4, <1>5, CurrentContents DEF RestAsTaken, Part, PieceOf
<1>8. CASE Adds(msg)
  <2>1. /\ files' = files /\ file' \o buffer' = all \o <<msg>>
    BY <1>3, <1>8 DEF Adds
  <2>2. \A n : Reached(n)' = Reached(n)
    BY <1>1, <2>1 DEF Reached, Holds
  <2>3. \A n : Through(n)' = Through(n)
    BY <2>2 DEF Through
  <2>4. Reaches' /\ FilesAsTaken'
    BY <1>1, <2>1, <2>2, <2>3 DEF Reaches, FilesAsTaken, Part
  <2>5. Contents(Len(files) + 1)' = all \o <<msg>>
    <3>1. (TypeOK /\ writer # "ended" => Contents(Len(files) + 1) = file \o buffer)'
      BY CurrentContents, PTL
    <3>2. QED
      BY <1>1, <2>1, <3>1
  <2>6. (all \o <<msg>>) \o << >> = all \o <<msg>>
    BY <1>2, PieceSequences
  <2>7. Through(Len(files))' = a
    BY <1>4, <2>1, <2>3
  <2>8. RestAsTaken'
    BY <1>1, <1>5, <1>7, <2>5, <2>6, <2>7 DEF RestAsTaken, Part, PieceOf
  <2>9. QED
    BY <2>4, <2>8
<1>9. CASE Rotates(<<msg>>)
  <2>1. a < b /\ delivered[b] = msg /\ all = PieceOf(delivered, a, b - 1)
    BY <1>1, <1>2, <1>6, <1>7, PieceLast
  <2>2. PICK c \in Nat : c = b - 1
    BY <1>6, <2>1
  <2>3. a <= c /\ c <= Len(delivered) /\ c \in a .. Len(delivered) /\ b = c + 1
    BY <1>5, <2>1, <2>2
  <2>4. PICK again \in a .. c : buffer = PieceOf(delivered, again, c)
    <3>1. file \o buffer = PieceOf(delivered, a, c)
      BY <1>3, <2>1, <2>2
    <3>2. a \in Nat /\ a <= c /\ c <= Len(delivered)
      BY <1>6, <2>3
    <3>3. file \in Seq(FilePiece) /\ buffer \in Seq(FilePiece) /\ delivered \in Seq(Record)
      BY <1>2
    <3>4. \E x \in a .. c : buffer = PieceOf(delivered, x, c)
      BY <3>1, <3>2, <3>3, PieceSuffix
    <3>5. QED
      BY <3>4
  <2>5. PICK bytes \in Nat :
          Closed(PieceOf(delivered, a, c) \o PieceOf(delivered, again, c), bytes)
    BY <1>3, <1>9, <2>1, <2>2, <2>4 DEF Rotates
  <2>6. /\ Reaches' /\ FilesAsTaken' /\ Through(Len(files))' = c
        /\ Len(files') = Len(files) + 1
    BY <1>1, <1>4, <1>6, <2>3, <2>5, ClosedAsTaken
  <2>7. Contents(Len(files) + 1)' = <<msg>>
    <3>1. (TypeOK /\ writer # "ended" => Contents(Len(files) + 1) = file \o buffer)'
      BY CurrentContents, PTL
    <3>2. << >> \o <<msg>> = <<msg>>
      BY <1>2, PieceSequences
    <3>3. QED
      BY <1>1, <1>9, <3>1, <3>2 DEF Rotates
  <2>8. PieceOf(delivered, c, b) = <<msg>>
    <3>1. /\ PieceOf(delivered, c, b) \in Seq(Record)
          /\ Len(PieceOf(delivered, c, b)) = b - c
          /\ \A i \in 1 .. b - c : PieceOf(delivered, c, b)[i] = delivered[c + i]
      <4>1. c <= b
        BY <2>3
      <4>2. QED
        BY <1>2, <1>6, <4>1, PieceType
    <3>2. b - c = 1 /\ c + 1 = b /\ 1 \in 1 .. b - c
      BY <2>3
    <3>3. Len(PieceOf(delivered, c, b)) = 1 /\ PieceOf(delivered, c, b)[1] = msg
      BY <2>1, <3>1, <3>2
    <3>4. <<msg>> \in Seq(Record) /\ Len(<<msg>>) = 1 /\ <<msg>>[1] = msg
      BY <1>1
    <3>5. \A i \in 1 .. Len(<<msg>>) : <<msg>>[i] = PieceOf(delivered, c, b)[i]
      BY <3>3, <3>4
    <3>6. QED
      BY <3>1, <3>3, <3>4, <3>5, SeqEqual
  <2>9. <<msg>> \o << >> = <<msg>>
    BY <1>2, PieceSequences
  <2>10. RestAsTaken'
    BY <1>1, <1>5, <2>6, <2>7, <2>8, <2>9 DEF RestAsTaken, Part, PieceOf
  <2>11. QED
    BY <2>6, <2>10
<1>10. QED
  <2>1. failures + 1 # 0
    BY <1>2
  <2>2. QED
    BY <1>1, <1>8, <1>9, <2>1, WriteInShort DEF TypeOK

LEMMA ClosesTaken ==
  ASSUME TypeOK, TypeOK', Queue!NothingDuplicated, Counted, Closes,
         Reaches, FilesAsTaken, RestAsTaken, failures = 0, failures' = 0
  PROVE  Reaches' /\ FilesAsTaken' /\ RestAsTaken'
<1>1. /\ CloseFile /\ delivered' = delivered
      /\ writer # "ended" /\ writer' = "ended"
      /\ InHand = << >> /\ InHand' = << >>
  BY DEF Closes
<1>2. /\ file \in Seq(FilePiece) /\ buffer \in Seq(FilePiece)
      /\ Len(files) \in Nat /\ Len(files') \in Nat
      /\ delivered \in Seq(Record) /\ Len(delivered) \in Nat
  BY Pieces, TakenType DEF TypeOK, FileTypeOK, FilePiece
<1>3. Ends
  <2>1. fd = "open"
    BY <1>1 DEF Counted
  <2>2. QED
    BY <1>1, <2>1, CloseInShort DEF TypeOK
<1>4. PICK all \in Seq(FilePiece) : all = file \o buffer
  BY <1>2, PieceSequences
<1>5. PICK a \in 0 .. Len(delivered) : a = Through(Len(files))
  BY <1>2 DEF Reaches
<1>6. PICK b \in Nat : b = Len(delivered)
  BY <1>2
<1>7. a \in Nat /\ b \in a .. Len(delivered) /\ b \in a .. b /\ b \in 0 .. Len(delivered)
  BY <1>5, <1>6
<1>8. all = PieceOf(delivered, a, b)
  <2>1. all \o << >> = all
    BY PieceSequences
  <2>2. QED
    BY <1>1, <1>4, <1>5, <1>6, <2>1, CurrentContents DEF RestAsTaken, Part, PieceOf
<1>9. PieceOf(delivered, b, b) = << >>
  BY <1>2, <1>7, PieceEmpty
<1>10. all = PieceOf(delivered, a, b) \o PieceOf(delivered, b, b)
  <2>1. all \o << >> = all
    BY PieceSequences
  <2>2. QED
    BY <1>8, <1>9, <2>1
<1>11. PICK bytes \in Nat :
         Closed(PieceOf(delivered, a, b) \o PieceOf(delivered, b, b), bytes)
  BY <1>3, <1>4, <1>10 DEF Ends
<1>12. /\ Reaches' /\ FilesAsTaken' /\ Through(Len(files))' = b
       /\ Len(files') = Len(files) + 1
  BY <1>1, <1>5, <1>7, <1>11, ClosedAsTaken
<1>13. Contents(Len(files) + 1)' = << >>
  <2>1. file' = << >>
    BY <1>3 DEF Ends
  <2>2. QED
    BY <1>1, <1>2, <2>1 DEF Contents
<1>14. << >> \o << >> = << >>
  BY PieceSequences
<1>15. RestAsTaken'
  BY <1>1, <1>6, <1>9, <1>12, <1>13, <1>14 DEF RestAsTaken, Part, PieceOf
<1>16. QED
  BY <1>12, <1>15

LEMMA TakenStep ==
  ASSUME TypeOK, TypeOK', Queue!NothingDuplicated, Counted, KnownInv,
         Same \/ Takes \/ Writes \/ Closes, TakenInv
  PROVE  TakenInv'
<1> SUFFICES ASSUME failures' = 0
             PROVE  Reaches' /\ FilesAsTaken' /\ RestAsTaken'
  BY DEF TakenInv
<1>1. CASE Same
  <2>1. /\ UNCHANGED <<files, file, buffer, failures, delivered>>
        /\ InHand' = InHand /\ (writer' = "ended" <=> writer = "ended")
    BY <1>1 DEF Same, fileVars
  <2>2. \A n : Reached(n)' = Reached(n)
    BY <2>1 DEF Reached, Holds
  <2>3. \A n : Through(n)' = Through(n)
    BY <2>2 DEF Through
  <2>4. Reaches /\ FilesAsTaken /\ RestAsTaken
    BY <2>1 DEF TakenInv
  <2>5. Reaches'
    BY <2>1, <2>2, <2>3, <2>4 DEF Reaches
  <2>6. FilesAsTaken'
    BY <2>1, <2>3, <2>4 DEF FilesAsTaken, Part
  <2>7. Contents(Len(files) + 1)' = Contents(Len(files) + 1)
    BY <2>1 DEF Contents
  <2>8. Through(Len(files))' = Through(Len(files))
    BY <2>1, <2>3
  <2>9. RestAsTaken'
    BY <2>1, <2>4, <2>7, <2>8 DEF RestAsTaken, Part
  <2>10. QED
    BY <2>5, <2>6, <2>9
<1>2. CASE Takes
  <2>1. failures = 0
    BY <1>2 DEF Takes, fileVars
  <2>2. QED
    BY <1>2, <2>1, TakesTaken
<1>3. CASE Writes
  <2>1. failures' = failures \/ failures' = failures + 1
    BY <1>3, WriteInShort DEF Writes, Adds, TypeOK, ThreadTypeOK
  <2>2. failures = 0
    BY <2>1 DEF TypeOK, FileTypeOK
  <2>3. QED
    BY <1>3, <2>2, WritesTaken DEF TakenInv
<1>4. CASE Closes
  <2>1. failures = 0
    BY <1>4, CloseInShort DEF Closes, TypeOK, fileVars
  <2>2. QED
    BY <1>4, <2>1, ClosesTaken DEF TakenInv
<1>5. QED
  BY <1>1, <1>2, <1>3, <1>4

LEMMA TakenInit == Init => TakenInv
<1> SUFFICES ASSUME Init PROVE Reaches /\ FilesAsTaken /\ RestAsTaken
  BY DEF TakenInv
<1>1. /\ file = << >> /\ buffer = << >> /\ files = << >> /\ writer = "top"
      /\ pc[WriterThread] = "idle" /\ delivered = << >>
  BY DEF Init, FileWriterInit, Queue!Init, Queue!Threads
<1>2. InHand = << >>
  BY <1>1 DEF InHand
<1>3. Reached(0) = {}
  BY <1>1 DEF Reached
<1>4. Reached(0) = 1 .. 0 /\ Through(0) = 0
  BY <1>3, MaxUpTo DEF Through
<1>5. Reaches /\ FilesAsTaken
  <2>1. Len(files) = 0 /\ Len(delivered) = 0
    BY <1>1
  <2>2. FilesAsTaken
    BY <2>1 DEF FilesAsTaken
  <2>3. \A n \in 0 .. Len(files) : n = 0
    BY <2>1
  <2>4. Reaches
    BY <1>4, <2>1, <2>3 DEF Reaches
  <2>5. QED
    BY <2>2, <2>4
<1>6. Contents(1) = << >>
  <2>1. << >> \o << >> = << >>
    BY PieceSequences
  <2>2. QED
    BY <1>1, <2>1 DEF Contents
<1>7. SubSeq(delivered, 1, 0) = << >>
  BY SubSeqEmpty
<1>8. RestAsTaken
  <2>1. << >> \o << >> = << >>
    BY PieceSequences
  <2>2. Len(files) = 0 /\ Len(delivered) = 0
    BY <1>1
  <2>3. QED
    <3>1. Contents(Len(files) + 1) = << >> /\ Through(Len(files)) = 0
      BY <1>4, <1>6, <2>2
    <3>2. Part(Through(Len(files)), Len(delivered)) = << >>
      BY <1>7, <2>2, <3>1 DEF Part
    <3>3. QED
      BY <1>2, <2>1, <3>1, <3>2 DEF RestAsTaken
<1>9. QED
  BY <1>5, <1>8

(* While no system call fails, the log files hold exactly the records the  *)
(* writer thread took, in that order, however the records fall into        *)
(* buffers and files; only the last buffer of a file that was full is in   *)
(* it twice (BinaryLogger.cpp:220 and :258).                               *)
THEOREM LogIsExact == Spec => []LogIsWhatWasTaken
<1>1. TypeOK /\ TypeOK' /\ Queue!NothingDuplicated /\ Queue!NothingDuplicated'
        /\ HandControl /\ Counted /\ KnownInv /\ [Next]_vars
        /\ TakenInv => TakenInv'
  BY StepKinds, TakenStep
<1>2. TakenInv => LogIsWhatWasTaken
  BY DEF TakenInv, LogIsWhatWasTaken
<1>3. QED
  BY <1>1, <1>2, TakenInit, Control, Counting, Known, PTL DEF Spec

-----------------------------------------------------------------------------
(* The order of the records in the log.                                    *)

(* Nothing has to come first when all that is shown was shown before.      *)
LEMMA OrderAfterAll ==
  ASSUME NEW taken, NEW shown, NEW before, NEW s, shown \subseteq before
  PROVE  InQueueOrder(taken, shown, before, s)
BY DEF InQueueOrder

LEMMA OrderLater ==
  ASSUME NEW taken, NEW shown, NEW before, NEW more, NEW s,
         InQueueOrder(taken, shown, before, s), before \subseteq more
  PROVE  InQueueOrder(taken, shown, more, s)
BY DEF InQueueOrder

LEMMA OrderLess ==
  ASSUME NEW taken, NEW shown, NEW fewer, NEW before, NEW s,
         InQueueOrder(taken, shown, before, s), fewer \subseteq shown
  PROVE  InQueueOrder(taken, fewer, before, s)
BY DEF InQueueOrder

LEMMA OrderNoRecord ==
  ASSUME NEW taken \in Seq(Record), NEW shown, NEW before
  PROVE  /\ InQueueOrder(taken, shown, before, << >>)
         /\ InQueueOrder(taken, shown, before, <<Torn>>)
         /\ InQueueOrder(taken, shown, before, <<FileEnd>>)
<1>1. \A j \in 1 .. Len(taken) : taken[j] # Torn /\ taken[j] # FileEnd
  BY Pieces
<1>2. ASSUME NEW x, \A j \in 1 .. Len(taken) : taken[j] # x
      PROVE  InQueueOrder(taken, shown, before, <<x>>)
  <2>1. \A p \in 1 .. Len(<<x>>) : <<x>>[p] = x
    OBVIOUS
  <2>2. QED
    BY <1>2, <2>1 DEF InQueueOrder
<1>3. InQueueOrder(taken, shown, before, << >>)
  <2>1. ~\E p \in 1 .. Len(<< >>) : TRUE
    OBVIOUS
  <2>2. QED
    BY <2>1 DEF InQueueOrder
<1>4. QED
  BY <1>1, <1>2, <1>3

(* What is shown first counts as shown before what comes after it.         *)
LEMMA OrderConcat ==
  ASSUME NEW taken \in Seq(Record), NEW shown, NEW before,
         NEW s \in Seq(FilePiece), NEW t \in Seq(FilePiece)
  PROVE  InQueueOrder(taken, shown, before, s \o t) <=>
           /\ InQueueOrder(taken, shown, before, s)
           /\ InQueueOrder(taken, shown, before \cup Recs(s), t)
<1>1. /\ Len(s \o t) = Len(s) + Len(t) /\ Len(s) \in Nat /\ Len(t) \in Nat
      /\ \A i \in 1 .. Len(s) + Len(t) :
           (s \o t)[i] = IF i <= Len(s) THEN s[i] ELSE t[i - Len(s)]
  BY ConcatProperties
<1>2. PICK k \in Nat, l \in Nat : k = Len(s) /\ l = Len(t)
  BY <1>1
<1>3. /\ Len(s \o t) = k + l
      /\ \A i \in 1 .. k : i \in 1 .. k + l /\ (s \o t)[i] = s[i]
      /\ \A i \in 1 .. l : k + i \in 1 .. k + l /\ (s \o t)[k + i] = t[i]
  <2>1. \A i \in 1 .. k : i \in 1 .. k + l /\ (s \o t)[i] = s[i]
    BY <1>1, <1>2
  <2>2. ASSUME NEW i \in 1 .. l
        PROVE  k + i \in 1 .. k + l /\ (s \o t)[k + i] = t[i]
    <3>1. k + i \in 1 .. k + l /\ ~(k + i <= k) /\ (k + i) - k = i
      OBVIOUS
    <3>2. QED
      BY <1>1, <1>2, <3>1
  <2>3. QED
    BY <1>1, <1>2, <2>1, <2>2
<1>4. \A i \in 1 .. Len(taken) : taken[i] \in Record
  OBVIOUS
<1>5. ASSUME InQueueOrder(taken, shown, before, s \o t)
      PROVE  /\ InQueueOrder(taken, shown, before, s)
             /\ InQueueOrder(taken, shown, before \cup Recs(s), t)
  <2>1. ASSUME NEW p \in 1 .. k, NEW i \in 1 .. Len(taken), NEW j \in 1 .. Len(taken),
               i < j, taken[j] = s[p], taken[i] \in shown
        PROVE  taken[i] \in before \/ \E q \in 1 .. p - 1 : s[q] = taken[i]
    <3>1. p \in 1 .. k + l /\ (s \o t)[p] = s[p]
      BY <1>3
    <3>2. taken[i] \in before \/ \E q \in 1 .. p - 1 : (s \o t)[q] = taken[i]
      BY <1>3, <1>5, <2>1, <3>1 DEF InQueueOrder
    <3>3. \A q \in 1 .. p - 1 : q \in 1 .. k
      OBVIOUS
    <3>4. QED
      BY <1>3, <3>2, <3>3
  <2>2. ASSUME NEW p \in 1 .. l, NEW i \in 1 .. Len(taken), NEW j \in 1 .. Len(taken),
               i < j, taken[j] = t[p], taken[i] \in shown
        PROVE  \/ taken[i] \in before \cup Recs(s)
               \/ \E q \in 1 .. p - 1 : t[q] = taken[i]
    <3>1. k + p \in 1 .. k + l /\ (s \o t)[k + p] = t[p]
      BY <1>3
    <3>2. taken[i] \in before \/ \E q \in 1 .. (k + p) - 1 : (s \o t)[q] = taken[i]
      BY <1>3, <1>5, <2>2, <3>1 DEF InQueueOrder
    <3>3. ASSUME NEW q \in 1 .. (k + p) - 1, (s \o t)[q] = taken[i]
          PROVE  \/ taken[i] \in Recs(s) \/ \E x \in 1 .. p - 1 : t[x] = taken[i]
      <4>1. CASE q <= k
        <5>1. q \in 1 .. k /\ s[q] = taken[i]
          BY <1>3, <3>3, <4>1
        <5>2. QED
          BY <1>2, <1>4, <5>1 DEF Recs, Holds
      <4>2. CASE q > k
        <5>1. PICK x \in 1 .. p - 1 : q = k + x
          <6>1. q - k \in 1 .. p - 1 /\ q = k + (q - k)
            BY <4>2
          <6>2. QED
            BY <6>1
        <5>2. x \in 1 .. l
          OBVIOUS
        <5>3. t[x] = taken[i]
          BY <1>3, <3>3, <5>1, <5>2
        <5>4. QED
          BY <5>3
      <4>3. QED
        BY <4>1, <4>2
    <3>4. QED
      BY <3>2, <3>3
  <2>3. QED
    BY <1>2, <2>1, <2>2 DEF InQueueOrder
<1>6. ASSUME InQueueOrder(taken, shown, before, s),
             InQueueOrder(taken, shown, before \cup Recs(s), t)
      PROVE  InQueueOrder(taken, shown, before, s \o t)
  <2>1. ASSUME NEW p \in 1 .. k + l, NEW i \in 1 .. Len(taken), NEW j \in 1 .. Len(taken),
               i < j, taken[j] = (s \o t)[p], taken[i] \in shown
        PROVE  taken[i] \in before \/ \E q \in 1 .. p - 1 : (s \o t)[q] = taken[i]
    <3>1. CASE p <= k
      <4>1. p \in 1 .. k /\ taken[j] = s[p]
        BY <1>3, <2>1, <3>1
      <4>2. taken[i] \in before \/ \E q \in 1 .. p - 1 : s[q] = taken[i]
        BY <1>2, <1>6, <2>1, <4>1 DEF InQueueOrder
      <4>3. \A q \in 1 .. p - 1 : q \in 1 .. k
        BY <3>1
      <4>4. QED
        BY <1>3, <4>2, <4>3
    <3>2. CASE p > k
      <4>1. PICK x \in 1 .. l : p = k + x
        <5>1. p - k \in 1 .. l /\ p = k + (p - k)
          BY <3>2
        <5>2. QED
          BY <5>1
      <4>2. taken[j] = t[x]
        BY <1>3, <2>1, <4>1
      <4>3. \/ taken[i] \in before \/ taken[i] \in Recs(s)
            \/ \E q \in 1 .. x - 1 : t[q] = taken[i]
        BY <1>2, <1>6, <2>1, <4>2 DEF InQueueOrder
      <4>4. ASSUME taken[i] \in Recs(s)
            PROVE  \E q \in 1 .. p - 1 : (s \o t)[q] = taken[i]
        <5>1. PICK q \in 1 .. k : s[q] = taken[i]
          BY <1>2, <4>4 DEF Recs, Holds
        <5>2. q \in 1 .. p - 1 /\ (s \o t)[q] = taken[i]
          BY <1>3, <3>2, <5>1
        <5>3. QED
          BY <5>2
      <4>5. ASSUME NEW q \in 1 .. x - 1, t[q] = taken[i]
            PROVE  \E y \in 1 .. p - 1 : (s \o t)[y] = taken[i]
        <5>1. q \in 1 .. l /\ k + q \in 1 .. p - 1
          BY <4>1
        <5>2. (s \o t)[k + q] = taken[i]
          BY <1>3, <4>5, <5>1
        <5>3. QED
          BY <5>1, <5>2
      <4>6. QED
        BY <4>3, <4>4, <4>5
    <3>3. p <= k \/ p > k
      OBVIOUS
    <3>4. QED
      BY <3>1, <3>2, <3>3
  <2>2. QED
    BY <1>3, <2>1 DEF InQueueOrder
<1>7. QED
  BY <1>5, <1>6

(* The record that was taken last has to follow all others, and none has   *)
(* to follow it.                                                           *)
LEMMA OrderLast ==
  ASSUME NEW taken \in Seq(Record), taken # << >>, NEW shown, NEW before,
         \A i, j \in 1 .. Len(taken) : i # j => taken[i] # taken[j]
  PROVE  /\ \A s : InQueueOrder(taken, shown, before, s) =>
                     InQueueOrder(taken, shown \cup {taken[Len(taken)]}, before, s)
         /\ shown \subseteq before =>
              InQueueOrder(taken, shown \cup {taken[Len(taken)]}, before,
                           <<taken[Len(taken)]>>)
<1>1. PICK k \in Nat : k = Len(taken) /\ k # 0
  OBVIOUS
<1>2. \A i, j \in 1 .. Len(taken) : i < j => taken[i] # taken[Len(taken)]
  <2>1. \A i, j \in 1 .. k : i < j => i # k /\ k \in 1 .. k
    BY <1>1
  <2>2. QED
    BY <1>1, <2>1
<1>3. ASSUME NEW s, InQueueOrder(taken, shown, before, s)
      PROVE  InQueueOrder(taken, shown \cup {taken[Len(taken)]}, before, s)
  BY <1>2, <1>3 DEF InQueueOrder
<1>4. ASSUME shown \subseteq before
      PROVE  InQueueOrder(taken, shown \cup {taken[Len(taken)]}, before,
                          <<taken[Len(taken)]>>)
  <2>1. InQueueOrder(taken, shown, before, <<taken[Len(taken)]>>)
    BY <1>4, OrderAfterAll
  <2>2. QED
    BY <1>3, <2>1
<1>5. QED
  BY <1>3, <1>4

(* Taking a record that is not shown changes nothing.                      *)
LEMMA OrderTaken ==
  ASSUME NEW taken \in Seq(Record), NEW r \in Record, NEW shown, NEW before, NEW s,
         InQueueOrder(taken, shown, before, s), ~Holds(s, r)
  PROVE  InQueueOrder(Append(taken, r), shown, before, s)
<1>1. PICK k \in Nat : k = Len(taken)
  OBVIOUS
<1>2. PICK more : more = Append(taken, r)
  OBVIOUS
<1>3. /\ Len(more) = k + 1 /\ more[k + 1] = r
      /\ \A i \in 1 .. k : more[i] = taken[i]
  BY <1>1, <1>2, TakenGrows
<1>4. ASSUME NEW p \in 1 .. Len(s), NEW i \in 1 .. k + 1, NEW j \in 1 .. k + 1,
             i < j, more[j] = s[p], more[i] \in shown
      PROVE  more[i] \in before \/ \E q \in 1 .. p - 1 : s[q] = more[i]
  <2>1. j # k + 1
    BY <1>3, <1>4 DEF Holds
  <2>2. i \in 1 .. k /\ j \in 1 .. k
    BY <1>4, <2>1
  <2>3. QED
    BY <1>1, <1>3, <1>4, <2>2 DEF InQueueOrder
<1>5. QED
  BY <1>2, <1>3, <1>4 DEF InQueueOrder

(* What waits to be written was taken last.                                *)
HandInv == InHand = << >> \/ (delivered # << >> /\ InHand = <<delivered[Len(delivered)]>>)

OrderedFiles ==
  \A n \in 1 .. Len(files) :
    InQueueOrder(delivered, Shown, ShownIn(n - 1), files[n].content)
OrderedRest ==
  InQueueOrder(delivered, Shown, ShownIn(Len(files)), Contents(Len(files) + 1))
OrderInv == OrderedFiles /\ OrderedRest

LEMMA HandStep ==
  ASSUME TypeOK, Same \/ Takes \/ Writes \/ Closes, HandInv
  PROVE  HandInv'
<1>1. CASE Same
  BY <1>1 DEF Same, HandInv
<1>2. CASE Takes
  <2>1. /\ delivered \in Seq(Record) /\ delivered' = Append(delivered, msg')
        /\ msg' \in Record /\ InHand' = <<msg'>>
    BY <1>2, TakenType DEF Takes
  <2>2. delivered' # << >> /\ delivered'[Len(delivered')] = msg'
    BY <2>1
  <2>3. QED
    BY <2>1, <2>2 DEF HandInv
<1>3. CASE Writes \/ Closes
  BY <1>3 DEF Writes, Closes, HandInv
<1>4. QED
  BY <1>1, <1>2, <1>3

(* The files that were closed stay as they are.                            *)
LEMMA ShownInStays ==
  ASSUME TypeOK,
         \A m \in 1 .. Len(files) : files'[m] = files[m],
         Len(files') \in Nat, Len(files') >= Len(files),
         NEW n \in 0 .. Len(files)
  PROVE  ShownIn(n)' = ShownIn(n)
<1>1. Len(files) \in Nat
  BY DEF TypeOK, FileTypeOK
<1>2. ASSUME NEW m \in 1 .. n
      PROVE  Contents(m) = files[m].content /\ Contents(m)' = files[m].content
  <2>1. m \in 1 .. Len(files) /\ m <= Len(files) /\ m <= Len(files')
    BY <1>1
  <2>2. QED
    BY <2>1 DEF Contents
<1>3. ShownIn(n)' = {r \in Record : \E m \in 1 .. n : Holds(Contents(m)', r)}
  BY DEF ShownIn, Holds
<1>4. QED
  BY <1>2, <1>3 DEF ShownIn

LEMMA ShownInClosed == TypeOK => ShownIn(Len(files)) = ClosedRecs
<1>1. TypeOK => Len(files) \in Nat
  BY DEF TypeOK, FileTypeOK
<1>2. \A m \in 1 .. Len(files) : TypeOK => Contents(m) = files[m].content
  BY <1>1 DEF Contents
<1>3. QED
  BY <1>2 DEF ShownIn, ClosedRecs

(* The steps that close a file.                                            *)
LEMMA ClosedInOrder ==
  ASSUME TypeOK, TypeOK', UNCHANGED delivered,
         NEW content \in Seq(FilePiece), NEW bytes, Closed(content, bytes),
         \A n \in 1 .. Len(files) :
           InQueueOrder(delivered, Shown', ShownIn(n - 1), files[n].content),
         InQueueOrder(delivered, Shown', ShownIn(Len(files)), content)
  PROVE  /\ OrderedFiles'
         /\ ShownIn(Len(files))' = ShownIn(Len(files)) \cup Recs(content)
<1>0. PICK N \in Nat : N = Len(files)
  BY DEF TypeOK, FileTypeOK
<1>1. /\ Len(files') = N + 1
      /\ \A n \in 1 .. N : files'[n] = files[n]
      /\ files'[N + 1].content = content \o <<FileEnd>>
  <2>1. /\ Len(files') = Len(files) + 1
        /\ \A n \in 1 .. Len(files) : files'[n] = files[n]
        /\ files'[Len(files) + 1].content = content \o <<FileEnd>>
    BY ClosedExtends
  <2>2. QED
    BY <1>0, <2>1
<1>2. \A n \in 0 .. N : ShownIn(n)' = ShownIn(n)
  <2>1. Len(files') \in Nat /\ Len(files') >= Len(files)
    BY <1>0, <1>1
  <2>2. QED
    BY <1>0, <1>1, <2>1, ShownInStays
<1>3. ASSUME NEW n \in 1 .. N
      PROVE  InQueueOrder(delivered, Shown, ShownIn(n - 1), files[n].content)'
  <2>1. n - 1 \in 0 .. N /\ ShownIn(n - 1)' = ShownIn(n - 1) /\ files'[n] = files[n]
    BY <1>1, <1>2
  <2>2. InQueueOrder(delivered, Shown', ShownIn(n - 1), files[n].content)
    BY <1>0
  <2>3. QED
    BY <2>1, <2>2 DEF InQueueOrder
<1>4. InQueueOrder(delivered, Shown', ShownIn(N), content \o <<FileEnd>>)
  <2>1. InQueueOrder(delivered, Shown', ShownIn(N) \cup Recs(content), <<FileEnd>>)
    BY TakenType, OrderNoRecord
  <2>2. /\ delivered \in Seq(Record) /\ <<FileEnd>> \in Seq(FilePiece)
        /\ InQueueOrder(delivered, Shown', ShownIn(N), content)
    BY <1>0, TakenType, Pieces
  <2>3. QED
    BY <2>1, <2>2, OrderConcat
<1>5. InQueueOrder(delivered, Shown, ShownIn(N), files[N + 1].content)'
  <2>1. PICK all : all = content \o <<FileEnd>>
    OBVIOUS
  <2>2. ShownIn(N)' = ShownIn(N) /\ files'[N + 1].content = all
    BY <1>1, <1>2, <2>1
  <2>3. InQueueOrder(delivered, Shown', ShownIn(N), all)
    BY <1>4, <2>1
  <2>4. QED
    BY <2>2, <2>3 DEF InQueueOrder
<1>6. OrderedFiles'
  <2>1. ASSUME NEW n \in 1 .. Len(files')
        PROVE  InQueueOrder(delivered, Shown, ShownIn(n - 1), files[n].content)'
    <3>1. n \in 1 .. N \/ n = N + 1
      BY <1>1
    <3>2. CASE n = N + 1
      <4>1. n - 1 = N
        BY <3>2
      <4>2. QED
        BY <1>5, <3>2, <4>1
    <3>3. QED
      BY <1>3, <3>1, <3>2
  <2>2. QED
    BY <2>1 DEF OrderedFiles
<1>7. ShownIn(Len(files))' = ShownIn(Len(files)) \cup Recs(content)
  <2>1. (TypeOK => ShownIn(Len(files)) = ClosedRecs)'
    BY ShownInClosed, PTL
  <2>2. ClosedRecs' = ClosedRecs \cup Recs(content)
    BY ClosedAdds
  <2>3. ShownIn(Len(files)) = ClosedRecs
    BY ShownInClosed
  <2>4. QED
    BY <2>1, <2>2, <2>3
<1>8. QED
  BY <1>6, <1>7

(* And those that do not.                                                  *)
LEMMA OpenInOrder ==
  ASSUME TypeOK, TypeOK', UNCHANGED <<files, delivered>>,
         \A n \in 1 .. Len(files) :
           InQueueOrder(delivered, Shown', ShownIn(n - 1), files[n].content)
  PROVE  OrderedFiles' /\ ShownIn(Len(files))' = ShownIn(Len(files))
<1>1. Len(files) \in Nat /\ files' = files
  BY DEF TypeOK, FileTypeOK
<1>2. \A n \in 0 .. Len(files) : ShownIn(n)' = ShownIn(n)
  BY <1>1, ShownInStays
<1>3. ASSUME NEW n \in 1 .. Len(files)
      PROVE  InQueueOrder(delivered, Shown, ShownIn(n - 1), files[n].content)'
  <2>1. n - 1 \in 0 .. Len(files)
    BY <1>1
  <2>2. ShownIn(n - 1)' = ShownIn(n - 1)
    BY <1>2, <2>1
  <2>3. QED
    BY <1>1, <2>2 DEF InQueueOrder
<1>4. ShownIn(Len(files))' = ShownIn(Len(files))
  <2>1. PICK N \in 0 .. Len(files) : N = Len(files)
    BY <1>1
  <2>2. QED
    BY <1>1, <1>2, <2>1
<1>5. QED
  BY <1>1, <1>3, <1>4 DEF OrderedFiles

LEMMA OrderTakes ==
  ASSUME TypeOK, TypeOK', KnownInv, Takes, OrderInv
  PROVE  OrderInv'
<1>1. /\ delivered \in Seq(Record) /\ delivered' = Append(delivered, msg')
      /\ msg' \in Record /\ msg' \notin Queue!Delivered
      /\ UNCHANGED <<files, file, buffer>>
      /\ writer # "ended" /\ writer' # "ended"
      /\ Len(files) \in Nat
  BY TakenType DEF Takes, fileVars, TypeOK, FileTypeOK
<1>2. \A n : Contents(n)' = Contents(n)
  BY <1>1 DEF Contents
<1>3. Shown' = Shown /\ \A n : ShownIn(n)' = ShownIn(n)
  BY <1>1, <1>2 DEF Shown, ShownIn, Holds
<1>4. \A n \in 1 .. Len(files) + 1 : ~Holds(Contents(n), msg')
  <2>1. msg' \notin Shown
    BY <1>1 DEF KnownInv
  <2>2. QED
    BY <1>1, <2>1 DEF Shown, ShownIn
<1>5. PICK r \in Record : r = msg'
  BY <1>1
<1>6. ASSUME NEW before, NEW s, InQueueOrder(delivered, Shown, before, s), ~Holds(s, r)
      PROVE  InQueueOrder(delivered', Shown', before, s)
  BY <1>1, <1>3, <1>5, <1>6, OrderTaken
<1>7. ASSUME NEW n \in 1 .. Len(files)
      PROVE  InQueueOrder(delivered, Shown, ShownIn(n - 1), files[n].content)'
  <2>1. n \in 1 .. Len(files) + 1 /\ Contents(n) = files[n].content
    BY <1>1 DEF Contents
  <2>2. ~Holds(files[n].content, r)
    BY <1>4, <1>5, <2>1
  <2>3. InQueueOrder(delivered', Shown', ShownIn(n - 1), files[n].content)
    BY <1>6, <2>2 DEF OrderInv, OrderedFiles
  <2>4. ShownIn(n - 1)' = ShownIn(n - 1) /\ files'[n].content = files[n].content
    BY <1>1, <1>3
  <2>5. QED
    BY <2>3, <2>4 DEF InQueueOrder
<1>8. InQueueOrder(delivered, Shown, ShownIn(Len(files)), Contents(Len(files) + 1))'
  <2>1. PICK n : n = Len(files)
    OBVIOUS
  <2>2. ~Holds(Contents(n + 1), r)
    BY <1>1, <1>4, <1>5, <2>1
  <2>3. InQueueOrder(delivered', Shown', ShownIn(n), Contents(n + 1))
    BY <1>6, <2>1, <2>2 DEF OrderInv, OrderedRest
  <2>4. ShownIn(Len(files))' = ShownIn(n) /\ Contents(Len(files) + 1)' = Contents(n + 1)
    BY <1>1, <1>2, <1>3, <2>1
  <2>5. QED
    BY <2>3, <2>4 DEF InQueueOrder
<1>9. QED
  BY <1>1, <1>7, <1>8 DEF OrderInv, OrderedFiles, OrderedRest

(* What holds of the current contents, when they are file and buffer.      *)
LEMMA RestInOrder ==
  ASSUME TypeOK, writer # "ended", OrderInv
  PROVE  /\ InQueueOrder(delivered, Shown, ShownIn(Len(files)), file \o buffer)
         /\ InQueueOrder(delivered, Shown, ShownIn(Len(files)), file)
         /\ InQueueOrder(delivered, Shown, ShownIn(Len(files)) \cup Recs(file), buffer)
         /\ Shown = ShownIn(Len(files)) \cup (Recs(file) \cup Recs(buffer))
<1>1. file \in Seq(FilePiece) /\ buffer \in Seq(FilePiece) /\ delivered \in Seq(Record)
  BY Pieces, TakenType DEF TypeOK, FileTypeOK, FilePiece
<1>2. InQueueOrder(delivered, Shown, ShownIn(Len(files)), file \o buffer)
  BY CurrentContents DEF OrderInv, OrderedRest
<1>3. Shown = ShownIn(Len(files)) \cup (Recs(file) \cup Recs(buffer))
  BY <1>1, ShownIs, ShownInClosed, CurrentContents, RecsConcat
<1>4. QED
  BY <1>1, <1>2, <1>3, OrderConcat

(* A failed write leaves in the file what is in order after the file.      *)
LEMMA RemainsInOrder ==
  ASSUME TypeOK, NEW shown, NEW before, NEW x \in Remains,
         InQueueOrder(delivered, shown, before, buffer)
  PROVE  InQueueOrder(delivered, shown, before, x)
<1>1. /\ buffer \in Seq(FilePiece) /\ delivered \in Seq(Record)
      /\ <<Torn>> \in Seq(FilePiece) /\ buffer \o buffer \in Seq(FilePiece)
  BY Pieces, TakenType DEF TypeOK, FileTypeOK, FilePiece
<1>2. /\ InQueueOrder(delivered, shown, before, << >>)
      /\ \A more : InQueueOrder(delivered, shown, more, <<Torn>>)
  BY <1>1, OrderNoRecord
<1>3. InQueueOrder(delivered, shown, before \cup Recs(buffer), buffer)
  BY OrderLater
<1>4. InQueueOrder(delivered, shown, before, buffer \o buffer)
  BY <1>1, <1>3, OrderConcat
<1>5. \A s \in Seq(FilePiece) : InQueueOrder(delivered, shown, before, s) =>
        InQueueOrder(delivered, shown, before, s \o <<Torn>>)
  <2>1. ASSUME NEW s \in Seq(FilePiece), InQueueOrder(delivered, shown, before, s)
        PROVE  InQueueOrder(delivered, shown, before, s \o <<Torn>>)
    BY <1>1, <1>2, <2>1, OrderConcat
  <2>2. QED
    BY <2>1
<1>6. QED
  <2>1. PICK t : t = <<Torn>>
    OBVIOUS
  <2>2. x \in {<< >>, t, buffer, buffer \o t, buffer \o buffer, (buffer \o buffer) \o t}
    BY <2>1 DEF Remains
  <2>3. /\ InQueueOrder(delivered, shown, before, t)
        /\ InQueueOrder(delivered, shown, before, buffer \o t)
        /\ InQueueOrder(delivered, shown, before, (buffer \o buffer) \o t)
    BY <1>1, <1>2, <1>4, <1>5, <2>1
  <2>4. QED
    BY <1>2, <1>4, <2>2, <2>3

LEMMA OrderWrites ==
  ASSUME TypeOK, TypeOK', Queue!NothingDuplicated, Writes, HandInv, OrderInv
  PROVE  OrderInv'
<1>1. /\ Write(msg) /\ delivered' = delivered /\ delivered \in Seq(Record)
      /\ writer # "ended" /\ writer' # "ended"
      /\ InHand = <<msg>> /\ msg \in Record
      /\ file \in Seq(FilePiece) /\ buffer \in Seq(FilePiece)
      /\ <<msg>> \in Seq(FilePiece)
  BY Pieces, TakenType DEF Writes, TypeOK, FileTypeOK, ThreadTypeOK, FilePiece
<1>2. /\ delivered # << >> /\ delivered[Len(delivered)] = msg
      /\ \A i, j \in 1 .. Len(delivered) : i # j => delivered[i] # delivered[j]
  <2>1. <<msg>> # << >> /\ \A x : <<msg>> = <<x>> => x = msg
    OBVIOUS
  <2>2. QED
    BY <1>1, <2>1, TakenTwice DEF HandInv
<1>3. PICK all \in Seq(FilePiece) : all = file \o buffer
  BY <1>1, PieceSequences
<1>4. PICK b0 : b0 = ShownIn(Len(files))
  OBVIOUS
<1>5. /\ InQueueOrder(delivered, Shown, b0, all)
      /\ InQueueOrder(delivered, Shown, b0, file)
      /\ InQueueOrder(delivered, Shown, b0 \cup Recs(file), buffer)
      /\ Shown = b0 \cup (Recs(file) \cup Recs(buffer))
      /\ Recs(all) = Recs(file) \cup Recs(buffer)
  BY <1>1, <1>3, <1>4, RestInOrder, RecsConcat
<1>6. (TypeOK /\ writer # "ended" => Contents(Len(files) + 1) = file \o buffer)'
  BY CurrentContents, PTL
<1>7. ASSUME NEW before, NEW s, InQueueOrder(delivered, Shown, before, s)
      PROVE  InQueueOrder(delivered, Shown \cup {msg}, before, s)
  BY <1>1, <1>2, <1>7, OrderLast
<1>8. ASSUME NEW n \in 1 .. Len(files)
      PROVE  /\ InQueueOrder(delivered, Shown, ShownIn(n - 1), files[n].content)
             /\ InQueueOrder(delivered, Shown \cup {msg}, ShownIn(n - 1), files[n].content)
  <2>1. InQueueOrder(delivered, Shown, ShownIn(n - 1), files[n].content)
    BY DEF OrderInv, OrderedFiles
  <2>2. QED
    BY <1>7, <2>1
<1>9. InQueueOrder(delivered, Shown \cup {msg}, Shown, <<msg>>)
  BY <1>1, <1>2, OrderLast
<1>10. CASE Adds(msg)
  <2>1. /\ files' = files /\ file' \o buffer' = all \o <<msg>>
        /\ Shown' = Shown \cup {msg}
    BY <1>1, <1>3, <1>10, WriteShows DEF Adds
  <2>2. OrderedFiles' /\ ShownIn(Len(files))' = b0
    BY <1>1, <1>4, <1>8, <2>1, OpenInOrder
  <2>3. InQueueOrder(delivered, Shown', b0, all \o <<msg>>)
    <3>1. InQueueOrder(delivered, Shown', b0, all)
      BY <1>5, <1>7, <2>1
    <3>2. InQueueOrder(delivered, Shown', b0 \cup Recs(all), <<msg>>)
      BY <1>5, <1>9, <2>1
    <3>3. QED
      BY <1>1, <3>1, <3>2, OrderConcat
  <2>4. Contents(Len(files) + 1)' = all \o <<msg>>
    BY <1>1, <1>6, <2>1
  <2>5. OrderedRest'
    BY <1>1, <2>2, <2>3, <2>4 DEF OrderedRest
  <2>6. QED
    BY <2>2, <2>5 DEF OrderInv
<1>11. ASSUME NEW kept \in Seq(FilePiece), Rotates(kept),
              Shown \subseteq Shown',
              \A n \in 1 .. Len(files) :
                InQueueOrder(delivered, Shown', ShownIn(n - 1), files[n].content),
              InQueueOrder(delivered, Shown', b0, all),
              InQueueOrder(delivered, Shown', b0 \cup Recs(file), buffer),
              InQueueOrder(delivered, Shown', Shown, kept)
       PROVE  OrderInv'
  <2>1. PICK bytes \in Nat : Closed(all \o buffer, bytes)
    BY <1>3, <1>11 DEF Rotates
  <2>2. all \o buffer \in Seq(FilePiece)
    BY <1>1, PieceSequences
  <2>3. InQueueOrder(delivered, Shown', b0, all \o buffer)
    <3>1. b0 \cup Recs(file) \subseteq b0 \cup Recs(all)
      BY <1>5
    <3>2. InQueueOrder(delivered, Shown', b0 \cup Recs(all), buffer)
      BY <1>11, <3>1, OrderLater
    <3>3. QED
      BY <1>1, <1>11, <3>2, OrderConcat
  <2>4. /\ OrderedFiles'
        /\ ShownIn(Len(files))' = b0 \cup Recs(all \o buffer)
    <3>1. UNCHANGED delivered
      BY <1>1
    <3>2. InQueueOrder(delivered, Shown', ShownIn(Len(files)), all \o buffer)
      BY <1>4, <2>3
    <3> HIDE <1>11
    <3>3. \A n \in 1 .. Len(files) :
            InQueueOrder(delivered, Shown', ShownIn(n - 1), files[n].content)
      BY <1>11
    <3>4. QED
      BY <1>4, <2>1, <2>2, <3>1, <3>2, <3>3, ClosedInOrder
  <2>5. Recs(all \o buffer) = Recs(file) \cup Recs(buffer)
    BY <1>1, <1>5, RecsJoin
  <2>6. ShownIn(Len(files))' = Shown
    BY <1>5, <2>4, <2>5
  <2>7. Contents(Len(files) + 1)' = kept
    <3>1. << >> \o kept = kept
      BY PieceSequences
    <3>2. QED
      BY <1>1, <1>6, <1>11, <3>1 DEF Rotates
  <2>8. OrderedRest'
    BY <1>1, <1>11, <2>6, <2>7 DEF OrderedRest
  <2>9. QED
    BY <2>4, <2>8 DEF OrderInv
<1>12. CASE Rotates(<<msg>>)
  <2>1. Shown' = Shown \cup {msg}
    BY <1>1, <1>12, WriteShows
  <2>2. /\ InQueueOrder(delivered, Shown', b0, all)
        /\ InQueueOrder(delivered, Shown', b0 \cup Recs(file), buffer)
        /\ InQueueOrder(delivered, Shown', Shown, <<msg>>)
    BY <1>5, <1>7, <1>9, <2>1
  <2>3. \A n \in 1 .. Len(files) :
          InQueueOrder(delivered, Shown', ShownIn(n - 1), files[n].content)
    BY <1>8, <2>1
  <2>4. QED
    BY <1>1, <1>11, <1>12, <2>1, <2>2, <2>3
<1>13. CASE Rotates(buffer)
  <2>1. Shown' = Shown
    BY <1>1, <1>13, WriteShows
  <2>2. InQueueOrder(delivered, Shown', Shown, buffer)
    BY <2>1, OrderAfterAll
  <2>3. \A n \in 1 .. Len(files) :
          InQueueOrder(delivered, Shown', ShownIn(n - 1), files[n].content)
    BY <1>8, <2>1
  <2>4. QED
    BY <1>1, <1>5, <1>11, <1>13, <2>1, <2>2, <2>3
<1>14. CASE Fails
  <2>1. Shown' = Shown
    BY <1>1, <1>14, WriteShows
  <2>2. files' = files /\ buffer' = buffer
    BY <1>14 DEF Fails
  <2>3. PICK x \in Remains : file' = file \o x
    BY <1>14 DEF Fails
  <2>4. OrderedFiles' /\ ShownIn(Len(files))' = b0
    BY <1>1, <1>4, <1>8, <2>1, <2>2, OpenInOrder
  <2>5. x \in Seq(FilePiece) /\ file \o x \in Seq(FilePiece)
    BY <1>1, <2>3, RemainsType, PieceSequences DEF TypeOK
  <2>6. InQueueOrder(delivered, Shown, b0, (file \o x) \o buffer)
    <3>1. InQueueOrder(delivered, Shown, b0 \cup Recs(file), x)
      BY <1>5, <2>3, RemainsInOrder
    <3>2. InQueueOrder(delivered, Shown, b0, file \o x)
      BY <1>1, <1>5, <2>5, <3>1, OrderConcat
    <3>3. b0 \cup Recs(file) \subseteq b0 \cup Recs(file \o x)
      BY <1>1, <2>5, RecsJoin
    <3>4. InQueueOrder(delivered, Shown, b0 \cup Recs(file \o x), buffer)
      BY <1>5, <3>3, OrderLater
    <3>5. QED
      BY <1>1, <2>5, <3>2, <3>4, OrderConcat
  <2>7. Contents(Len(files) + 1)' = (file \o x) \o buffer
    BY <1>1, <1>6, <2>2, <2>3
  <2>8. OrderedRest'
    BY <1>1, <2>1, <2>4, <2>6, <2>7 DEF OrderedRest
  <2>9. QED
    BY <2>4, <2>8 DEF OrderInv
<1>15. QED
  BY <1>1, <1>10, <1>12, <1>13, <1>14, WriteInShort DEF TypeOK

LEMMA OrderCloses ==
  ASSUME TypeOK, TypeOK', Closes, OrderInv
  PROVE  OrderInv'
<1>1. /\ CloseFile /\ delivered' = delivered /\ delivered \in Seq(Record)
      /\ writer # "ended" /\ writer' = "ended"
      /\ file \in Seq(FilePiece) /\ buffer \in Seq(FilePiece)
      /\ Len(files') \in Nat
  BY Pieces, TakenType DEF Closes, TypeOK, FileTypeOK, FilePiece
<1>2. Shown' \subseteq Shown
  BY CloseShows
<1>3. ASSUME NEW before, NEW s, InQueueOrder(delivered, Shown, before, s)
      PROVE  InQueueOrder(delivered, Shown', before, s)
  BY <1>2, <1>3, OrderLess
<1>4. PICK b0 : b0 = ShownIn(Len(files))
  OBVIOUS
<1>5. /\ InQueueOrder(delivered, Shown', b0, file \o buffer)
      /\ InQueueOrder(delivered, Shown', b0, file)
      /\ InQueueOrder(delivered, Shown', b0 \cup Recs(file), buffer)
  BY <1>1, <1>3, <1>4, RestInOrder
<1>6. \A n \in 1 .. Len(files) :
        InQueueOrder(delivered, Shown', ShownIn(n - 1), files[n].content)
  BY <1>3 DEF OrderInv, OrderedFiles
<1>7. Contents(Len(files) + 1)' = file'
  BY <1>1 DEF Contents
<1>8. CASE Ends
  <2>1. PICK bytes \in Nat : Closed(file \o buffer, bytes)
    BY <1>8 DEF Ends
  <2>2. PICK all \in Seq(FilePiece) : all = file \o buffer
    BY <1>1, PieceSequences
  <2>3. OrderedFiles'
    BY <1>1, <1>4, <1>5, <1>6, <2>1, <2>2, ClosedInOrder
  <2>4. \A before : InQueueOrder(delivered, Shown', before, << >>)
    BY <1>1, OrderNoRecord
  <2>5. OrderedRest'
    BY <1>1, <1>7, <1>8, <2>4 DEF OrderedRest, Ends
  <2>6. QED
    BY <2>3, <2>5 DEF OrderInv
<1>9. CASE Fails
  <2>1. PICK x \in Remains : file' = file \o x
    BY <1>9 DEF Fails
  <2>2. files' = files
    BY <1>9 DEF Fails
  <2>3. OrderedFiles' /\ ShownIn(Len(files))' = b0
    BY <1>1, <1>4, <1>6, <2>2, OpenInOrder
  <2>4. InQueueOrder(delivered, Shown', b0, file \o x)
    <3>1. InQueueOrder(delivered, Shown', b0 \cup Recs(file), x)
      BY <1>5, <2>1, RemainsInOrder
    <3>2. x \in Seq(FilePiece)
      BY <2>1, RemainsType DEF TypeOK
    <3>3. QED
      BY <1>1, <1>5, <3>1, <3>2, OrderConcat
  <2>5. OrderedRest'
    BY <1>1, <1>7, <2>1, <2>3, <2>4 DEF OrderedRest
  <2>6. QED
    BY <2>3, <2>5 DEF OrderInv
<1>10. CASE UNCHANGED fileVars
  <2>1. files' = files /\ file' = file
    BY <1>10 DEF fileVars
  <2>2. OrderedFiles' /\ ShownIn(Len(files))' = b0
    BY <1>1, <1>4, <1>6, <2>1, OpenInOrder
  <2>3. OrderedRest'
    BY <1>1, <1>5, <1>7, <2>1, <2>2 DEF OrderedRest
  <2>4. QED
    BY <2>2, <2>3 DEF OrderInv
<1>11. QED
  BY <1>1, <1>8, <1>9, <1>10, CloseInShort DEF TypeOK

LEMMA OrderStep ==
  ASSUME TypeOK, TypeOK', Queue!NothingDuplicated, KnownInv, HandInv,
         Same \/ Takes \/ Writes \/ Closes, OrderInv
  PROVE  OrderInv'
<1>1. CASE Same
  <2>1. /\ UNCHANGED <<files, file, buffer, delivered>>
        /\ (writer' = "ended" <=> writer = "ended")
    BY <1>1 DEF Same, fileVars
  <2>2. \A n : Contents(n)' = Contents(n)
    BY <2>1 DEF Contents
  <2>3. Shown' = Shown /\ \A n : ShownIn(n)' = ShownIn(n)
    BY <2>1, <2>2 DEF Shown, ShownIn, Holds
  <2>4. OrderedFiles'
    BY <2>1, <2>3 DEF OrderInv, OrderedFiles
  <2>5. /\ ShownIn(Len(files))' = ShownIn(Len(files))
        /\ Contents(Len(files) + 1)' = Contents(Len(files) + 1)
    BY <2>1, <2>2, <2>3
  <2>6. OrderedRest'
    BY <2>1, <2>3, <2>5 DEF OrderInv, OrderedRest
  <2>7. QED
    BY <2>4, <2>6 DEF OrderInv
<1>2. QED
  BY <1>1, OrderTakes, OrderWrites, OrderCloses

LEMMA OrderInit == Init => HandInv /\ OrderInv
<1> SUFFICES ASSUME Init PROVE HandInv /\ OrderInv
  OBVIOUS
<1>1. /\ file = << >> /\ buffer = << >> /\ files = << >> /\ writer = "top"
      /\ pc[WriterThread] = "idle" /\ delivered = << >>
  BY DEF Init, FileWriterInit, Queue!Init, Queue!Threads
<1>2. HandInv
  BY <1>1 DEF HandInv, InHand
<1>3. Len(files) = 0 /\ Len(delivered) = 0
  BY <1>1
<1>4. OrderedFiles
  BY <1>3 DEF OrderedFiles
<1>5. \A shown, before, s : InQueueOrder(delivered, shown, before, s)
  BY <1>3 DEF InQueueOrder
<1>6. OrderedRest
  BY <1>5 DEF OrderedRest
<1>7. QED
  BY <1>2, <1>4, <1>6 DEF OrderInv

(* Even when writes fail, the log shows records in the order they were     *)
(* taken, apart from repetitions: a record never comes before one that was *)
(* taken earlier, unless that one is never shown.                          *)
THEOREM LogKeepsOrder == Spec => []LogInQueueOrder
<1>1. TypeOK /\ TypeOK' /\ Queue!NothingDuplicated /\ Queue!NothingDuplicated'
        /\ HandControl /\ KnownInv /\ [Next]_vars
        /\ HandInv /\ OrderInv => HandInv' /\ OrderInv'
  BY StepKinds, HandStep, OrderStep
<1>2. TypeOK /\ KnownInv /\ OrderInv => LogInQueueOrder
  <2> SUFFICES ASSUME TypeOK, KnownInv, OrderInv PROVE LogInQueueOrder
    OBVIOUS
  <2>1. Len(files) \in Nat
    BY DEF TypeOK, FileTypeOK
  <2>2. ASSUME NEW n \in 1 .. Len(files) + 1
        PROVE  InQueueOrder(delivered, Shown, ShownIn(n - 1), Contents(n))
    <3>1. CASE n \in 1 .. Len(files)
      <4>1. Contents(n) = files[n].content
        BY <2>1, <3>1 DEF Contents
      <4>2. QED
        BY <3>1, <4>1 DEF OrderInv, OrderedFiles
    <3>2. CASE n = Len(files) + 1
      <4>1. n - 1 = Len(files)
        BY <2>1, <3>2
      <4>2. QED
        BY <3>2, <4>1 DEF OrderInv, OrderedRest
    <3>3. QED
      BY <2>1, <3>1, <3>2
  <2>3. QED
    BY <2>2 DEF LogInQueueOrder, KnownInv
<1>3. QED
  BY <1>1, <1>2, OrderInit, Control, Known, PTL DEF Spec

=============================================================================
