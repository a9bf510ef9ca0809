---------------------------- MODULE BinaryLogger ----------------------------
(***************************************************************************)
(* BinaryLogger of log/BinaryLogger.{h,cpp}: any thread logs a record by   *)
(* putting it into a slot ring and counting it in logCount_; the writer    *)
(* thread takes the records out and gives them to the file writer.  When   *)
(* the ring is empty it sleeps in logCount_.wait() until the count is not  *)
(* the one it loaded before it looked.                                     *)
(*                                                                         *)
(* Composes SlotRing (the threads' steps inside the ring interleave with   *)
(* everything else) and LogFileWriter (only the writer thread uses it).    *)
(* The model starts after start() and has one call of stop().              *)
(***************************************************************************)
EXTENDS LogFileWriter

CONSTANTS
  Loggers,     \* the threads that log
  QueueSize,   \* msgQueueSize_
  MaxRecords,  \* bound of the model: how many records one thread logs
  WriterThread \* writerThread_

ASSUME LoggerAssumption ==
  /\ QueueSize \in Nat \ {0}
  /\ MaxRecords \in Nat \ {0}
  /\ Loggers # {}
  /\ WriterThread \notin Loggers
  /\ Record = Loggers \X (1 .. MaxRecords)

VARIABLES
  status, data, writeIndex, readIndex, pc, idx, produced, delivered,
             \* messageQueue_, with the threads' places in it (SlotRing)
  logCount,  \* logCount_
  stop,      \* stop_
  caller,    \* where each logging thread is in logMessage
  writer,    \* where the writer thread is in exec
  seen,      \* its local logCount
  msg,       \* its local msg
  stopper    \* where the thread that calls stop() is

Queue == INSTANCE SlotRing
  WITH Writers <- Loggers, Readers <- {WriterThread},
       Size <- QueueSize, MaxItems <- MaxRecords

queueVars == <<status, data, writeIndex, readIndex, pc, idx, produced, delivered>>
threadVars == <<caller, writer, stopper>>
vars == <<queueVars, fileVars, logCount, stop, threadVars, seen, msg>>

Init ==
  /\ Queue!Init
  /\ FileWriterInit
  /\ logCount = 0
  /\ stop = FALSE
  /\ caller = [l \in Loggers |-> "out"]
  /\ writer = "top"
  /\ seen = 0
  /\ msg = CHOOSE r \in Record : TRUE   \* not read before it is set
  /\ stopper = "running"

CallerGoes(l, location) == caller' = [caller EXCEPT ![l] = location]

-----------------------------------------------------------------------------
(* logMessage, by a logging thread.                                        *)
LogMessage(l) ==
  /\ caller[l] = "out"
  /\ Queue!WriteLoad(l)
  /\ CallerGoes(l, "queueing")
  /\ UNCHANGED <<fileVars, logCount, stop, writer, stopper, seen, msg>>

(* Its steps inside getWriteSlot, and filling the slot.                    *)
LogQueueing(l) ==
  /\ caller[l] = "queueing"
  /\ \/ Queue!WriteRetry(l) \/ Queue!WriteFree(l)
     \/ Queue!WriteClaim(l) \/ Queue!WriteClaimLost(l)
     \/ Queue!WriteAdvance(l) \/ Queue!WriteData(l)
  /\ UNCHANGED <<fileVars, logCount, stop, threadVars, seen, msg>>

(* No slot: logMessage returns false and the record is gone.               *)
LogRefused(l) ==
  /\ caller[l] = "queueing"
  /\ Queue!WriteRefused(l)
  /\ CallerGoes(l, "out")
  /\ UNCHANGED <<fileVars, logCount, stop, writer, stopper, seen, msg>>

LogPublish(l) ==
  /\ caller[l] = "queueing"
  /\ Queue!WriteComplete(l)
  /\ CallerGoes(l, "counting")
  /\ UNCHANGED <<fileVars, logCount, stop, writer, stopper, seen, msg>>

LogCount(l) ==
  /\ caller[l] = "counting"
  /\ logCount' = logCount + 1
  /\ CallerGoes(l, "notifying")
  /\ UNCHANGED <<queueVars, fileVars, stop, writer, stopper, seen, msg>>

(* notify_one: the writer, if it sleeps, looks at the count again.         *)
Wake == writer' = IF writer = "asleep" THEN "waiting" ELSE writer

LogNotify(l) ==
  /\ caller[l] = "notifying"
  /\ Wake
  /\ CallerGoes(l, "out")
  /\ UNCHANGED <<queueVars, fileVars, logCount, stop, stopper, seen, msg>>

-----------------------------------------------------------------------------
(* exec, by the writer thread.  The test of stop_ and the load of the      *)
(* count are two steps.                                                    *)
ExecContinue ==
  /\ writer = "top"
  /\ ~stop
  /\ writer' = "loading"
  /\ UNCHANGED <<queueVars, fileVars, logCount, stop, caller, stopper, seen, msg>>

ExecLoadCount ==
  /\ writer = "loading"
  /\ seen' = logCount
  /\ writer' = "reading"
  /\ UNCHANGED <<queueVars, fileVars, logCount, stop, caller, stopper, msg>>

(* Its steps inside getReadSlot.  The only reader never finds a slot that  *)
(* is being read and never loses its compare-exchange.                     *)
ExecReading ==
  /\ writer = "reading"
  /\ \/ Queue!ReadLoad(WriterThread) \/ Queue!ReadReady(WriterThread)
     \/ Queue!ReadClaim(WriterThread) \/ Queue!ReadAdvance(WriterThread)
  /\ UNCHANGED <<fileVars, logCount, stop, threadVars, seen, msg>>

(* No slot: the pointer is null.                                           *)
ExecNothing ==
  /\ writer = "reading"
  /\ Queue!ReadRefused(WriterThread)
  /\ writer' = "waiting"
  /\ UNCHANGED <<fileVars, logCount, stop, caller, stopper, seen, msg>>

(* A mistake: the value to wait on is loaded again when the wait begins.   *)
ExecSleepOnCurrent ==
  /\ writer = "waiting"
  /\ seen' = logCount
  /\ writer' = "asleep"
  /\ UNCHANGED <<queueVars, fileVars, logCount, stop, caller, stopper, msg>>

(* logCount_.wait(logCount) blocks while the count is the one seen.        *)
ExecSleep ==
  /\ writer = "waiting"
  /\ logCount = seen
  /\ writer' = "asleep"
  /\ UNCHANGED <<queueVars, fileVars, logCount, stop, caller, stopper, seen, msg>>

ExecWoken ==
  /\ writer = "waiting"
  /\ logCount # seen
  /\ writer' = "woken"
  /\ UNCHANGED <<queueVars, fileVars, logCount, stop, caller, stopper, seen, msg>>

(* The ring is read again; the count to wait for stays the old one.        *)
ExecRetry ==
  /\ writer = "woken"
  /\ ~stop
  /\ writer' = "reading"
  /\ UNCHANGED <<queueVars, fileVars, logCount, stop, caller, stopper, seen, msg>>

ExecCopy ==
  /\ writer = "reading"
  /\ Queue!ReadData(WriterThread)
  /\ msg' = data[idx[WriterThread]]
  /\ UNCHANGED <<fileVars, logCount, stop, threadVars, seen>>

ExecRelease ==
  /\ writer = "reading"
  /\ Queue!ReadComplete(WriterThread)
  /\ writer' = "writing"
  /\ UNCHANGED <<fileVars, logCount, stop, caller, stopper, seen, msg>>

(* fileWriter_->write(msg), whose result is ignored.                       *)
ExecWrite ==
  /\ writer = "writing"
  /\ Write(msg)
  /\ writer' = "top"
  /\ UNCHANGED <<queueVars, logCount, stop, caller, stopper, seen, msg>>

(* stop_ is seen before a record is taken or after a wait.                 *)
ExecEnd ==
  /\ writer \in {"top", "woken"}
  /\ stop
  /\ CloseFile
  /\ writer' = "ended"
  /\ UNCHANGED <<queueVars, logCount, stop, caller, stopper, seen, msg>>

-----------------------------------------------------------------------------
(* stop(), called once by another thread.                                  *)
StopFlag ==
  /\ stopper = "running"
  /\ stop' = TRUE
  /\ stopper' = "counting"
  /\ UNCHANGED <<queueVars, fileVars, logCount, caller, writer, seen, msg>>

StopCount ==
  /\ stopper = "counting"
  /\ logCount' = logCount + 1
  /\ stopper' = "notifying"
  /\ UNCHANGED <<queueVars, fileVars, stop, caller, writer, seen, msg>>

StopNotify ==
  /\ stopper = "notifying"
  /\ Wake
  /\ stopper' = "joining"
  /\ UNCHANGED <<queueVars, fileVars, logCount, stop, caller, seen, msg>>

StopJoin ==
  /\ stopper = "joining"
  /\ writer = "ended"
  /\ stopper' = "stopped"
  /\ UNCHANGED <<queueVars, fileVars, logCount, stop, caller, writer, seen, msg>>

-----------------------------------------------------------------------------
LogContinue(l) ==
  LogQueueing(l) \/ LogRefused(l) \/ LogPublish(l) \/ LogCount(l) \/ LogNotify(l)

Exec ==
  \/ ExecContinue \/ ExecLoadCount \/ ExecReading \/ ExecNothing
  \/ ExecSleep \/ ExecWoken \/ ExecRetry
  \/ ExecCopy \/ ExecRelease \/ ExecWrite \/ ExecEnd

StopContinue == StopCount \/ StopNotify \/ StopJoin

Next ==
  \/ \E l \in Loggers : LogMessage(l) \/ LogContinue(l)
  \/ Exec
  \/ StopFlag \/ StopContinue

Spec == Init /\ [][Next]_vars

(* Threads that are running go on; nobody has to log or to stop.           *)
Fairness ==
  /\ \A l \in Loggers : WF_vars(LogContinue(l))
  /\ WF_vars(Exec)
  /\ WF_vars(StopContinue)

FairSpec == Spec /\ Fairness

-----------------------------------------------------------------------------
ThreadTypeOK ==
  /\ logCount \in Nat
  /\ stop \in BOOLEAN
  /\ caller \in [Loggers -> {"out", "queueing", "counting", "notifying"}]
  /\ writer \in {"top", "loading", "reading", "waiting", "asleep", "woken",
                 "writing", "ended"}
  /\ seen \in Nat
  /\ msg \in Record
  /\ stopper \in {"running", "counting", "notifying", "joining", "stopped"}

(* The types, and that the buffer is never filled beyond its end: the two  *)
(* memcpy of write() have no check of their own.                           *)
TypeOK == Queue!TypeOK /\ FileTypeOK /\ ThreadTypeOK

(* A call of stop() returns ("Log manager stopped", BinaryLogger.cpp:128): *)
(* the writer thread sees stop_ and ends.                                  *)
StopReturns == (stopper = "counting") ~> (stopper = "stopped")

(* Every record that logMessage accepted is taken out of the queue, unless *)
(* the logger is stopped first: the writer thread does not sleep through   *)
(* the notification that is meant for it (one logging thread).             *)
AcceptedIsTaken ==
  \A r \in Record : (r \in Queue!Published) ~> (r \in Queue!Delivered \/ stop)

=============================================================================
