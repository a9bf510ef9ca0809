----------------------------- MODULE MCSlotRing -----------------------------
(***************************************************************************)
(* Instances of SlotRing for model checking: one writer and one reader     *)
(* (where the ring is a FIFO queue), several writers, several readers.     *)
(***************************************************************************)
EXTENDS SlotRing, FiniteSets

(***************************************************************************)
(* The refinement of BoundedFIFO for one writer and one reader.  A Put is  *)
(* the setWriteComplete, a Get the reader's compare-exchange.              *)
(***************************************************************************)
TheReader == CHOOSE r \in Readers : TRUE

(* The oldest slot the reader has not claimed: readIndex_ lags behind the  *)
(* compare-exchange until the reader stores it.                            *)
HeadSlot ==
  IF pc[TheReader] = "advance" THEN NextIndex(readIndex) ELSE readIndex

WaitingCount == Cardinality({s \in Slots : status[s] = Valid})

Waiting == [n \in 1 .. WaitingCount |-> data[(HeadSlot + n - 1) % Size]]

Claimed ==
  IF pc[TheReader] \in {"advance", "access"}
  THEN Append(delivered, data[idx[TheReader]])
  ELSE delivered

Fifo == INSTANCE BoundedFIFO
  WITH Capacity <- Size, inside <- Waiting, out <- Claimed

(* With one writer and one reader the ring implements a bounded FIFO       *)
(* channel: items come out once each, in the order they were put.          *)
IsFifo == Fifo!FifoSpec

=============================================================================
