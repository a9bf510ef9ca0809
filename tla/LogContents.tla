---------------------------- MODULE LogContents ----------------------------
(***************************************************************************)
(* What the log files of a BinaryLogger say of the records that were taken *)
(* out of its queue.                                                       *)
(***************************************************************************)
EXTENDS BinaryLogger, FiniteSetsExt

Holds(s, r) == \E p \in 1 .. Len(s) : s[p] = r

(* The files that were closed, and then the current one with what waits in *)
(* the buffer to be written to it.                                         *)
Contents(n) ==
  IF n <= Len(files) THEN files[n].content
  ELSE IF writer = "ended" THEN file
  ELSE file \o buffer

(* The records in the first n of them, and in all.                         *)
ShownIn(n) == {r \in Record : \E m \in 1 .. n : Holds(Contents(m), r)}
Shown == ShownIn(Len(files) + 1)

(* The record the writer thread has taken but not handed to write().       *)
InHand ==
  IF pc[WriterThread] = "finish" \/ writer = "writing" THEN <<msg>> ELSE << >>

(* How many of the records that were taken are in the first n files, when  *)
(* they are there one after the other.                                     *)
Reached(n) == {i \in 1 .. Len(delivered) :
                 \E m \in 1 .. n : Holds(files[m].content, delivered[i])}
Through(n) == Max(Reached(n) \cup {0})

Part(first, last) == SubSeq(delivered, first + 1, last)

FilesAsTaken ==
  \A n \in 1 .. Len(files) :
    \E again \in Through(n - 1) .. Through(n) :
      files[n].content = Part(Through(n - 1), Through(n)) \o Part(again, Through(n))
                           \o <<FileEnd>>

RestAsTaken ==
  Contents(Len(files) + 1) \o InHand = Part(Through(Len(files)), Len(delivered))

(* While nothing fails, the files hold exactly the records that were taken *)
(* out of the queue, in that order, across buffers, rotations and the end. *)
(* Each is there once, but the last buffer of a file that was rotated,     *)
(* which is in that file twice (write and closeFile, BinaryLogger.cpp:220  *)
(* and :258).                                                              *)
LogIsWhatWasTaken == failures = 0 => FilesAsTaken /\ RestAsTaken

(* The records that were taken and are neither in the log nor at hand.     *)
Missing == {r \in Queue!Delivered : r \notin Shown /\ ~Holds(InHand, r)}

(* A failed system call costs the record at hand and no other: the buffer  *)
(* is kept and written again.  What is taken and not in the log is counted *)
(* by the failures, until the logger stops.                                *)
FailureCostsOneRecord == writer # "ended" => Cardinality(Missing) <= failures

(* Each record of s comes after those of shown that were taken before it.  *)
InQueueOrder(taken, shown, before, s) ==
  \A p \in 1 .. Len(s) : \A i, j \in 1 .. Len(taken) :
    i < j /\ taken[j] = s[p] /\ taken[i] \in shown
      => taken[i] \in before \/ \E q \in 1 .. p - 1 : s[q] = taken[i]

(* Even when writes fail the log shows records in the order of the queue,  *)
(* apart from repetitions, and none that was never logged (write, with the *)
(* buffer it keeps when a write fails).                                    *)
LogInQueueOrder ==
  /\ Shown \subseteq Queue!Delivered
  /\ \A n \in 1 .. Len(files) + 1 :
       InQueueOrder(delivered, Shown, ShownIn(n - 1), Contents(n))

=============================================================================
