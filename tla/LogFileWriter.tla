--------------------------- MODULE LogFileWriter ---------------------------
(***************************************************************************)
(* BinaryLogFileWriter of log/BinaryLogger.cpp: records are collected in a *)
(* buffer, the buffer is written to the current file when the next record  *)
(* does not fit, and the file is closed with a FILE_END record and the     *)
(* next one opened when the file would become too long.                    *)
(*                                                                         *)
(* Any of the writes, and the opening of a file, may fail MaxFailures      *)
(* times.  A file is the sequence of what was written to it.               *)
(***************************************************************************)
EXTENDS Naturals, Sequences

CONSTANTS
  Record,       \* the messages that can be logged
  RecordSize,   \* of each, the bytes in a file: its length field and its data
  EndSize,      \* the bytes of the FILE_END record
  BatchSize,    \* batchWriteSize_, the size of buffer_
  MaxFileSize,  \* maxFileSize_
  MaxFailures   \* bound of the model: how many system calls fail

(* By default a file and the buffer have 102400 bytes, a record 1026 at    *)
(* most.                                                                   *)
ASSUME FileSizesAssumption ==
  /\ EndSize \in Nat /\ BatchSize \in Nat /\ MaxFileSize \in Nat
  /\ MaxFailures \in Nat
  /\ EndSize <= MaxFileSize
  /\ RecordSize \in [Record -> Nat]
  /\ \A r \in Record : /\ 2 * RecordSize[r] <= BatchSize
                       /\ RecordSize[r] + EndSize <= MaxFileSize

VARIABLES
  fd,          \* fd_: "open", or "closed" for -1
  buffer,      \* the records in buffer_
  bufferSize,  \* currentBufferSize_
  fileSize,    \* currentFileSize_
  file,        \* the content of the current file
  fileBytes,   \* and its length, without what a failed write left
  files,       \* the files closed so far, nextSeqNo_ - 1 of them
  failures     \* history: how many writes, closes and opens have failed

fileVars == <<fd, buffer, bufferSize, fileSize, file, fileBytes, files, failures>>

FileEnd == <<"FILE_END">>
Torn == <<"TORN">>     \* what a failed write may leave: some of its bytes

FileWriterInit ==
  /\ fd = "open"
  /\ buffer = << >> /\ bufferSize = 0
  /\ fileSize = 0
  /\ file = << >> /\ fileBytes = 0
  /\ files = << >>
  /\ failures = 0

(* A mistake: the size of the new record is not taken into account.        *)
OverflowsAfterwards(msg) == bufferSize > BatchSize

Overflows(msg) == bufferSize + RecordSize[msg] > BatchSize
FileFull(msg) ==
  fileSize + bufferSize + RecordSize[msg] + EndSize > MaxFileSize

AddToBuffer(msg) ==
  /\ buffer' = Append(buffer, msg)
  /\ bufferSize' = bufferSize + RecordSize[msg]

StartBuffer(msg) ==
  /\ buffer' = <<msg>>
  /\ bufferSize' = RecordSize[msg]

Closed(content, bytes) ==
  files' = Append(files, [content |-> content \o <<FileEnd>>,
                          bytes |-> bytes + EndSize])

NewFile == file' = << >> /\ fileBytes' = 0

(* One more system call fails.                                             *)
Failure == failures < MaxFailures /\ failures' = failures + 1

-----------------------------------------------------------------------------
(* write(msg), the record fits: it only goes to the buffer.                *)
Buffered(msg) ==
  /\ ~Overflows(msg) /\ ~FileFull(msg)
  /\ AddToBuffer(msg)
  /\ UNCHANGED <<fd, fileSize, file, fileBytes, files, failures>>

(* A mistake: currentFileSize_ is not updated.                             *)
FlushUncounted(msg) ==
  /\ Overflows(msg) /\ ~FileFull(msg)
  /\ fd = "open"
  /\ file' = file \o buffer
  /\ fileBytes' = fileBytes + bufferSize
  /\ StartBuffer(msg)
  /\ UNCHANGED <<fd, fileSize, files, failures>>

(* A mistake: a record that does not fit is written past the buffer.       *)
FlushPastBuffer(msg) ==
  /\ Overflows(msg) /\ ~FileFull(msg)
  /\ fd = "open"
  /\ file' = Append(file, msg)
  /\ fileBytes' = fileBytes + RecordSize[msg]
  /\ fileSize' = fileSize + RecordSize[msg]
  /\ UNCHANGED <<fd, buffer, bufferSize, files, failures>>

(* The buffer is written and used again.  currentFileSize_ counts it as    *)
(* full, whatever was in it.                                               *)
Flush(msg) ==
  /\ Overflows(msg) /\ ~FileFull(msg)
  /\ fd = "open"
  /\ file' = file \o buffer
  /\ fileBytes' = fileBytes + bufferSize
  /\ fileSize' = fileSize + BatchSize
  /\ StartBuffer(msg)
  /\ UNCHANGED <<fd, files, failures>>

(* A mistake: the record that did not fit is forgotten.                    *)
RotateForgetting(msg) ==
  /\ FileFull(msg)
  /\ fd = "open"
  /\ Closed(file \o buffer \o buffer, fileBytes + 2 * bufferSize)
  /\ NewFile
  /\ fileSize' = 0
  /\ buffer' = << >> /\ bufferSize' = 0
  /\ UNCHANGED <<fd, failures>>

(* The buffer is written, then closeFile writes it again, because it is    *)
(* not reset in between; then the next file is opened.                     *)
Rotate(msg) ==
  /\ FileFull(msg)
  /\ fd = "open"
  /\ Closed(file \o buffer \o buffer, fileBytes + 2 * bufferSize)
  /\ NewFile
  /\ fileSize' = 0
  /\ StartBuffer(msg)
  /\ UNCHANGED <<fd, failures>>

(* A mistake: the buffer is reset before the outcome is known.             *)
FlushFailsForgetting(msg) ==
  /\ Overflows(msg) \/ FileFull(msg)
  /\ fd = "open"
  /\ Failure
  /\ file' \in {file, Append(file, Torn)}
  /\ buffer' = << >> /\ bufferSize' = 0
  /\ UNCHANGED <<fd, fileSize, fileBytes, files>>

(* The first write fails, or is a short one: writeFull then goes on with   *)
(* another descriptor, which is assumed not to be open.  write() gives up  *)
(* msg and keeps the buffer.                                               *)
FlushFails(msg) ==
  /\ Overflows(msg) \/ FileFull(msg)
  /\ fd = "open"
  /\ Failure
  /\ file' \in {file, Append(file, Torn)}
  /\ UNCHANGED <<fd, buffer, bufferSize, fileSize, fileBytes, files>>

(* No file is open: an earlier openFile failed.                            *)
FlushWithoutFile(msg) ==
  /\ Overflows(msg) \/ FileFull(msg)
  /\ fd = "closed"
  /\ failures' = failures + 1
  /\ UNCHANGED <<fd, buffer, bufferSize, fileSize, file, fileBytes, files>>

(* What closeFile leaves in the file when one of its writes fails.         *)
CloseFailure(written, bytes) ==
  \/ /\ file' \in {written, Append(written, Torn)}
     /\ fileBytes' = bytes
  \/ /\ file' \in {written \o buffer, written \o buffer \o <<Torn>>}
     /\ fileBytes' = bytes + bufferSize

(* The first write succeeds, closeFile does not.                           *)
RotateCloseFails(msg) ==
  /\ FileFull(msg)
  /\ fd = "open"
  /\ Failure
  /\ CloseFailure(file \o buffer, fileBytes + bufferSize)
  /\ fileSize' = fileSize + BatchSize
  /\ UNCHANGED <<fd, buffer, bufferSize, files>>

(* The file is closed, the next one cannot be opened or allocated.         *)
RotateOpenFails(msg) ==
  /\ FileFull(msg)
  /\ fd = "open"
  /\ Failure
  /\ Closed(file \o buffer \o buffer, fileBytes + 2 * bufferSize)
  /\ NewFile
  /\ fd' = "closed"
  /\ fileSize' = fileSize + BatchSize
  /\ UNCHANGED <<buffer, bufferSize>>

Write(msg) ==
  \/ Buffered(msg) \/ Flush(msg) \/ Rotate(msg)
  \/ FlushFails(msg) \/ FlushWithoutFile(msg)
  \/ RotateCloseFails(msg) \/ RotateOpenFails(msg)

-----------------------------------------------------------------------------
(* closeFile when the logger stops: the rest of the buffer and FILE_END.   *)
CloseFileDone ==
  /\ fd = "open"
  /\ Closed(file \o buffer, fileBytes + bufferSize)
  /\ NewFile
  /\ fd' = "closed"
  /\ UNCHANGED <<buffer, bufferSize, fileSize, failures>>

CloseFileFails ==
  /\ fd = "open"
  /\ Failure
  /\ CloseFailure(file, fileBytes)
  /\ UNCHANGED <<fd, buffer, bufferSize, fileSize, files>>

CloseFileNotOpen == fd = "closed" /\ UNCHANGED fileVars

CloseFile == CloseFileDone \/ CloseFileFails \/ CloseFileNotOpen

-----------------------------------------------------------------------------
FilePiece == Record \cup {FileEnd, Torn}

FileTypeOK ==
  /\ fd \in {"open", "closed"}
  /\ buffer \in Seq(Record)
  /\ bufferSize \in 0 .. BatchSize
  /\ fileSize \in Nat
  /\ file \in Seq(FilePiece)
  /\ fileBytes \in Nat
  /\ files \in Seq([content : Seq(FilePiece), bytes : Nat])
  /\ failures \in Nat

(* While nothing fails, a closed file is longer than maxFileSize_ by one   *)
(* buffer at most, although the buffer is written twice when a file is     *)
(* full: currentFileSize_ never counts less than was written before.       *)
OverrunBounded ==
  failures = 0 =>
    \A n \in 1 .. Len(files) : files[n].bytes <= MaxFileSize + BatchSize

=============================================================================
