--------------------------- MODULE RingFifoProofs ---------------------------
(***************************************************************************)
(* With one writer and one reader SlotRing implements BoundedFIFO, and     *)
(* refuses a caller only when it is full or empty: for every size of the   *)
(* ring and any number of items.                                           *)
(***************************************************************************)
EXTENDS MCSlotRing, SlotRingProofs, FiniteSetTheorems, SequenceTheorems

TheWriter == CHOOSE w \in Writers : TRUE

OneEach == \E w, r : Writers = {w} /\ Readers = {r}

LEMMA Threads2 ==
  ASSUME OneEach
  PROVE /\ Writers = {TheWriter} /\ Readers = {TheReader}
        /\ TheWriter # TheReader
BY ThreadsAssumption DEF OneEach, TheWriter, TheReader

-----------------------------------------------------------------------------
(* The slots from the head of the queue on.                                *)
From(h, n) == (h + n) % Size
At(n) == From(HeadSlot, n)

LEMMA Wrap ==
  ASSUME NEW h \in Slots, NEW n \in 0 .. Size
  PROVE From(h, n) = IF h + n < Size THEN h + n ELSE h + n - Size
<1>1. /\ Size \in Nat /\ Size > 0 /\ h \in Nat /\ n \in Nat
      /\ h < Size /\ n <= Size
  BY SizeAssumption DEF Slots
<1>2. CASE h + n < Size
  BY <1>1, <1>2 DEF From
<1>3. CASE ~(h + n < Size)
  <2>1. h + n = 1 * Size + (h + n - Size) /\ h + n - Size \in 0 .. Size - 1
    BY <1>1, <1>3
  <2> QED BY <1>1, <1>3, <2>1 DEF From
<1> QED BY <1>2, <1>3

(* The places 0 .. Size - 1 from any slot on are all the slots, each once. *)
LEMMA FromIsSlot ==
  ASSUME NEW h \in Slots, NEW n \in 0 .. Size
  PROVE From(h, n) \in Slots
<1>1. /\ Size \in Nat /\ Size > 0 /\ h \in Nat /\ n \in Nat
      /\ h < Size /\ n <= Size
  BY SizeAssumption DEF Slots
<1> QED BY <1>1, Wrap DEF Slots

LEMMA FromOnce ==
  ASSUME NEW h \in Slots, NEW m \in 0 .. Size - 1, NEW n \in 0 .. Size - 1,
         From(h, m) = From(h, n)
  PROVE m = n
<1>1. /\ Size \in Nat /\ Size > 0 /\ h \in Nat /\ m \in Nat /\ n \in Nat
      /\ h < Size /\ m < Size /\ n < Size
  BY SizeAssumption DEF Slots
<1>2. (IF h + m < Size THEN h + m ELSE h + m - Size)
        = (IF h + n < Size THEN h + n ELSE h + n - Size)
  BY <1>1, Wrap
<1> QED BY <1>1, <1>2

LEMMA FromAll ==
  ASSUME NEW h \in Slots, NEW s \in Slots
  PROVE \E n \in 0 .. Size - 1 : From(h, n) = s
<1>1. /\ Size \in Nat /\ Size > 0 /\ h \in Nat /\ s \in Nat
      /\ h < Size /\ s < Size
  BY SizeAssumption DEF Slots
<1> DEFINE n == IF h <= s THEN s - h ELSE s - h + Size
<1>2. n \in 0 .. Size - 1 /\ (IF h + n < Size THEN h + n ELSE h + n - Size) = s
  BY <1>1
<1>3. From(h, n) = s
  BY <1>1, <1>2, Wrap
<1> QED BY <1>2, <1>3

(* One place further is the place after it.                                *)
LEMMA FromNext ==
  ASSUME NEW h \in Slots, NEW n \in 0 .. Size - 1
  PROVE /\ NextIndex(h) \in Slots
        /\ From(NextIndex(h), n) = From(h, n + 1)
        /\ NextIndex(From(h, n)) = From(h, n + 1)
        /\ From(h, 0) = h /\ From(h, Size) = h
<1>1. /\ Size \in Nat /\ Size > 0 /\ h \in Nat /\ n \in Nat
      /\ h < Size /\ n < Size
  BY SizeAssumption DEF Slots
<1>2. /\ NextIndex(h) = IF h + 1 < Size THEN h + 1 ELSE h + 1 - Size
      /\ NextIndex(h) \in Slots
  BY <1>1, Wrap, FromIsSlot DEF NextIndex, From
<1>3. /\ From(h, n) = IF h + n < Size THEN h + n ELSE h + n - Size
      /\ From(h, n) \in Slots
      /\ From(h, n + 1) = IF h + (n + 1) < Size THEN h + (n + 1) ELSE h + (n + 1) - Size
  BY <1>1, Wrap, FromIsSlot
<1>4. NextIndex(From(h, n)) =
        IF From(h, n) + 1 < Size THEN From(h, n) + 1 ELSE From(h, n) + 1 - Size
  BY <1>1, <1>3, Wrap DEF NextIndex, From
<1>5. From(NextIndex(h), n) =
        IF NextIndex(h) + n < Size THEN NextIndex(h) + n ELSE NextIndex(h) + n - Size
  BY <1>1, <1>2, Wrap
<1>6. From(h, 0) = h /\ From(h, Size) = h
  BY <1>1, Wrap
<1>7. NextIndex(From(h, n)) = From(h, n + 1)
  BY <1>1, <1>3, <1>4 DEF Slots
<1>8. From(NextIndex(h), n) = From(h, n + 1)
  BY <1>1, <1>2, <1>3, <1>5 DEF Slots
<1> QED BY <1>2, <1>6, <1>7, <1>8

-----------------------------------------------------------------------------
(* The inductive invariant: from the head on there are the items that wait,*)
(* then what the writer has in hand, free slots, and what the reader has   *)
(* in hand; and what each thread knows of its index is still true.         *)
Queued ==
  /\ WaitingCount \in 0 .. Size
  /\ \A n \in 0 .. Size - 1 : status[At(n)] = Valid <=> n < WaitingCount

WriterInv ==
  /\ \A s \in Slots : status[s] = Writing <=> Owns(TheWriter) /\ s = idx[TheWriter]
  /\ Owns(TheWriter) => WaitingCount < Size /\ idx[TheWriter] = At(WaitingCount)
  /\ pc[TheWriter] \in {"access", "finish"} => writeIndex = NextIndex(idx[TheWriter])
  /\ pc[TheWriter] \notin {"access", "finish"} => writeIndex = At(WaitingCount)
  /\ pc[TheWriter] \in {"check", "claim"} => idx[TheWriter] = writeIndex
  /\ pc[TheWriter] = "claim" => status[idx[TheWriter]] = NoData

ReaderInv ==
  /\ \A s \in Slots : status[s] = Reading <=> Owns(TheReader) /\ s = idx[TheReader]
  /\ pc[TheReader] \in {"check", "claim", "advance"} => idx[TheReader] = readIndex
  /\ pc[TheReader] = "claim" => status[idx[TheReader]] = Valid
  /\ pc[TheReader] \in {"access", "finish"} => readIndex = NextIndex(idx[TheReader])

FifoInv == IInv /\ Queued /\ WriterInv /\ ReaderInv

LEMMA HeadIsSlot == ASSUME Shape PROVE HeadSlot \in Slots
BY FromNext, SizeAssumption, NextIndexInside DEF Shape, HeadSlot

LEMMA SlotsFinite == IsFiniteSet(Slots) /\ Cardinality(Slots) = Size
<1>1. Size - 1 \in Int /\ 0 \in Int /\ ~(0 > Size - 1) /\ Size - 1 - 0 + 1 = Size
  BY SizeAssumption
<1> QED BY <1>1, FS_Interval DEF Slots

LEMMA CountType == WaitingCount \in 0 .. Size
<1> DEFINE V == {s \in Slots : status[s] = Valid}
<1>1. V \in SUBSET Slots
  OBVIOUS
<1>2. IsFiniteSet(V) /\ Cardinality(V) <= Size
  BY <1>1, SlotsFinite, FS_Subset
<1>3. Cardinality(V) \in Nat
  BY <1>2, FS_CardinalityType
<1> QED BY <1>2, <1>3, SizeAssumption DEF WaitingCount

(* One slot more, or one less, holds an item.                              *)
LEMMA CountGrows ==
  ASSUME NEW s \in Slots, status \in [Slots -> DataStatus], status[s] # Valid,
         status' = [status EXCEPT ![s] = Valid]
  PROVE WaitingCount' = WaitingCount + 1
<1> DEFINE V == {x \in Slots : status[x] = Valid}
<1>1. {x \in Slots : status'[x] = Valid} = V \cup {s} /\ s \notin V
  OBVIOUS
<1>2. IsFiniteSet(V)
  BY SlotsFinite, FS_Subset
<1> HIDE DEF V
<1>3. Cardinality(V \cup {s}) = Cardinality(V) + 1
  BY <1>1, <1>2, FS_AddElement
<1> QED BY <1>1, <1>3 DEF WaitingCount, V

LEMMA CountShrinks ==
  ASSUME NEW s \in Slots, NEW other, status \in [Slots -> DataStatus], status[s] = Valid,
         other # Valid, status' = [status EXCEPT ![s] = other]
  PROVE WaitingCount' = WaitingCount - 1
<1> DEFINE V == {x \in Slots : status[x] = Valid}
<1>1. {x \in Slots : status'[x] = Valid} = V \ {s} /\ s \in V
  OBVIOUS
<1>2. IsFiniteSet(V)
  BY SlotsFinite, FS_Subset
<1> HIDE DEF V
<1>3. Cardinality(V \ {s}) = Cardinality(V) - 1
  BY <1>1, <1>2, FS_RemoveElement
<1> QED BY <1>1, <1>3 DEF WaitingCount, V

LEMMA CountStays ==
  ASSUME \A s \in Slots : status'[s] = Valid <=> status[s] = Valid
  PROVE WaitingCount' = WaitingCount
BY DEF WaitingCount


-----------------------------------------------------------------------------
(* What a step does to the queue.                                          *)
Parts == Queued /\ WriterInv /\ ReaderInv

(* Nothing: the steps that look, and those that move an index.             *)
SameQueue ==
  /\ HeadSlot' = HeadSlot /\ WaitingCount' = WaitingCount
  /\ \A s \in Slots : status'[s] = Valid <=> status[s] = Valid

LEMMA SameQueued == ASSUME Queued, Shape, SameQueue PROVE Queued'
<1>1. \A n \in 0 .. Size - 1 : At(n)' = At(n) /\ At(n) \in Slots
  BY HeadIsSlot, FromIsSlot, SizeAssumption DEF SameQueue, At
<1> QED BY <1>1 DEF Queued, SameQueue

LEMMA Types ==
  ASSUME OneEach, Shape
  PROVE /\ TheWriter \in Threads /\ TheReader \in Threads /\ TheWriter # TheReader
        /\ pc \in [Threads -> Location] /\ idx \in [Threads -> Slots]
        /\ status \in [Slots -> DataStatus]
        /\ writeIndex \in Slots /\ readIndex \in Slots
        /\ pc[TheReader] \in Location /\ pc[TheWriter] \in Location
        /\ idx[TheReader] \in Slots /\ idx[TheWriter] \in Slots
BY Threads2 DEF Shape, Threads

(* The steps of the writer that only look.                                 *)
WriterLooks ==
  \/ WriteLoad(TheWriter) \/ WriteRetry(TheWriter) \/ WriteRefused(TheWriter)
  \/ WriteFree(TheWriter) \/ WriteClaimLost(TheWriter)

LEMMA WriterLooking ==
  ASSUME OneEach, Shape, Parts, WriterLooks
  PROVE Parts' /\ SameQueue
<1> USE Types DEF WriterLooks, WriteLoad, WriteRetry, WriteRefused, WriteFree, WriteClaimLost,
                  Goto, NoData, Valid, Writing, Reading, Location
<1>1. SameQueue /\ UNCHANGED <<status, writeIndex, readIndex>>
      /\ pc'[TheReader] = pc[TheReader] /\ idx'[TheReader] = idx[TheReader]
  <2>1. UNCHANGED <<status, writeIndex, readIndex>>
        /\ pc'[TheReader] = pc[TheReader] /\ idx'[TheReader] = idx[TheReader]
    OBVIOUS
  <2> QED BY <2>1, CountStays DEF SameQueue, HeadSlot
<1>2. Queued'
  BY <1>1, SameQueued DEF Parts
<1>3. ~Owns(TheWriter) /\ ~Owns(TheWriter)' /\ pc'[TheWriter] \in {"idle", "check", "claim"}
      /\ pc[TheWriter] \in {"idle", "check", "claim"}
  BY DEF Owns
<1>4. At(WaitingCount)' = At(WaitingCount)
  BY <1>1 DEF SameQueue, At
<1>5. /\ pc'[TheWriter] \in {"check", "claim"} => idx'[TheWriter] = writeIndex'
      /\ pc'[TheWriter] = "claim" => status'[idx'[TheWriter]] = NoData
  BY DEF Parts, WriterInv
<1>6. WriterInv'
  BY <1>1, <1>3, <1>4, <1>5 DEF Parts, WriterInv
<1>7. ReaderInv'
  BY <1>1 DEF Parts, ReaderInv, Owns
<1> QED BY <1>1, <1>2, <1>6, <1>7 DEF Parts

ReaderLooks ==
  \/ ReadLoad(TheReader) \/ ReadRetry(TheReader) \/ ReadRefused(TheReader)
  \/ ReadReady(TheReader) \/ ReadClaimLost(TheReader)

LEMMA ReaderLooking ==
  ASSUME OneEach, Shape, Parts, ReaderLooks
  PROVE Parts' /\ SameQueue
<1> USE Types DEF ReaderLooks, ReadLoad, ReadRetry, ReadRefused, ReadReady, ReadClaimLost,
                  Goto, NoData, Valid, Writing, Reading, Location
<1>1. UNCHANGED <<status, writeIndex, readIndex>>
      /\ pc'[TheWriter] = pc[TheWriter] /\ idx'[TheWriter] = idx[TheWriter]
  OBVIOUS
<1>2. ~Owns(TheReader) /\ ~Owns(TheReader)' /\ pc'[TheReader] \in {"idle", "check", "claim"}
      /\ pc[TheReader] \in {"idle", "check", "claim"}
  BY DEF Owns
<1>3. SameQueue
  BY <1>1, <1>2, CountStays DEF SameQueue, HeadSlot
<1>4. Queued'
  BY <1>3, SameQueued DEF Parts
<1>5. At(WaitingCount)' = At(WaitingCount)
  BY <1>3 DEF SameQueue, At
<1>6. WriterInv'
  BY <1>1, <1>3, <1>5 DEF Parts, WriterInv, Owns, SameQueue
<1>7. /\ pc'[TheReader] \in {"check", "claim"} => idx'[TheReader] = readIndex'
      /\ pc'[TheReader] = "claim" => status'[idx'[TheReader]] = Valid
  BY DEF Parts, ReaderInv
<1>8. ReaderInv'
  BY <1>1, <1>2, <1>7 DEF Parts, ReaderInv
<1> QED BY <1>3, <1>4, <1>6, <1>8 DEF Parts

(* The writer claims the first slot after those that hold an item.         *)
LEMMA WriterClaims ==
  ASSUME OneEach, Shape, Parts, WriteClaim(TheWriter)
  PROVE Parts' /\ SameQueue
<1> USE Types DEF WriteClaim, Goto, NoData, Valid, Writing, Reading, Location
<1> DEFINE i == idx[TheWriter]
<1>1. /\ UNCHANGED <<writeIndex, readIndex, idx>> /\ pc'[TheReader] = pc[TheReader]
      /\ pc[TheWriter] = "claim" /\ pc'[TheWriter] = "advance"
      /\ status[i] = NoData /\ status'[i] = Writing
      /\ \A s \in Slots \ {i} : status'[s] = status[s]
  OBVIOUS
<1>2. SameQueue
  BY <1>1, CountStays DEF SameQueue, HeadSlot
<1>3. Queued'
  BY <1>2, SameQueued DEF Parts
<1>4. At(WaitingCount)' = At(WaitingCount)
  BY <1>2 DEF SameQueue, At
<1>5. i = At(WaitingCount) /\ i = writeIndex
  BY <1>1 DEF Parts, WriterInv
<1>6. WaitingCount < Size
  <2>1. WaitingCount \in 0 .. Size /\ Size \in Nat \ {0}
    BY SizeAssumption DEF Parts, Queued
  <2>2. WaitingCount = Size => i = At(0)
    <3>1. 0 \in 0 .. Size - 1 /\ HeadSlot \in Slots
      BY <2>1, HeadIsSlot
    <3>2. From(HeadSlot, 0) = From(HeadSlot, Size)
      BY <3>1, FromNext
    <3> QED BY <1>5, <3>2 DEF At
  <2>3. 0 < WaitingCount => status[At(0)] = Valid
    BY <2>1 DEF Parts, Queued
  <2> QED BY <1>1, <2>1, <2>2, <2>3
<1>7. WriterInv'
  BY <1>1, <1>2, <1>4, <1>5, <1>6 DEF Parts, WriterInv, Owns, SameQueue
<1>8. ReaderInv'
  BY <1>1 DEF Parts, ReaderInv, Owns
<1> QED BY <1>2, <1>3, <1>7, <1>8 DEF Parts

(* It stores the index of the next one, and fills the slot.                *)
LEMMA WriterAdvances ==
  ASSUME OneEach, Shape, Parts, WriteAdvance(TheWriter) \/ WriteData(TheWriter)
  PROVE Parts' /\ SameQueue
<1> USE Types DEF WriteAdvance, WriteData, Goto, Location
<1>1. /\ UNCHANGED <<status, readIndex, idx>> /\ pc'[TheReader] = pc[TheReader]
      /\ pc[TheWriter] \in {"advance", "access"} /\ pc'[TheWriter] \in {"access", "finish"}
  OBVIOUS
<1>2. writeIndex' = NextIndex(idx[TheWriter])
  BY DEF Parts, WriterInv
<1>3. SameQueue
  BY <1>1, CountStays DEF SameQueue, HeadSlot
<1>4. Queued'
  BY <1>3, SameQueued DEF Parts
<1>5. At(WaitingCount)' = At(WaitingCount)
  BY <1>3 DEF SameQueue, At
<1>6. WriterInv'
  BY <1>1, <1>2, <1>3, <1>5 DEF Parts, WriterInv, Owns, SameQueue
<1>7. ReaderInv'
  BY <1>1 DEF Parts, ReaderInv, Owns
<1> QED BY <1>3, <1>4, <1>6, <1>7 DEF Parts


(* Its slot then holds an item, the last of the queue.                     *)
LEMMA WriterCompletes ==
  ASSUME OneEach, Shape, Parts, WriteComplete(TheWriter)
  PROVE Parts' /\ HeadSlot' = HeadSlot /\ WaitingCount' = WaitingCount + 1
        /\ idx[TheWriter] = At(WaitingCount)
<1> USE Types DEF WriteComplete, Goto, NoData, Valid, Writing, Reading, Location
<1> DEFINE i == idx[TheWriter]
<1>1. /\ UNCHANGED <<writeIndex, readIndex, idx>> /\ pc'[TheReader] = pc[TheReader]
      /\ pc[TheWriter] = "finish" /\ pc'[TheWriter] = "idle"
      /\ status'[i] = Valid /\ status' = [status EXCEPT ![i] = Valid]
      /\ \A s \in Slots \ {i} : status'[s] = status[s]
  OBVIOUS
<1>2. status[i] = Writing /\ WaitingCount < Size /\ i = At(WaitingCount)
      /\ writeIndex = NextIndex(i)
  BY <1>1 DEF Parts, WriterInv, Owns
<1>3. WaitingCount' = WaitingCount + 1
  BY <1>1, <1>2, CountGrows
<1>4. HeadSlot' = HeadSlot /\ HeadSlot \in Slots
  BY <1>1, HeadIsSlot DEF HeadSlot
<1>5. WaitingCount \in 0 .. Size - 1 /\ Size \in Nat \ {0}
  BY <1>2, SizeAssumption DEF Parts, Queued
<1>6. Queued'
  <2>1. \A n \in 0 .. Size - 1 : At(n)' = At(n) /\ At(n) \in Slots
    BY <1>4, <1>5, FromIsSlot DEF At
  <2>2. \A n \in 0 .. Size - 1 : At(n) = i <=> n = WaitingCount
    BY <1>2, <1>4, <1>5, FromOnce DEF At
  <2>3. \A n \in 0 .. Size - 1 : status'[At(n)] = Valid <=> n < WaitingCount \/ n = WaitingCount
    BY <1>1, <2>1, <2>2 DEF Parts, Queued
  <2>4. \A n \in 0 .. Size - 1 : n < WaitingCount \/ n = WaitingCount <=> n < WaitingCount'
    BY <1>3, <1>5
  <2>5. WaitingCount' \in 0 .. Size
    BY <1>3, <1>5
  <2> QED BY <2>1, <2>3, <2>4, <2>5 DEF Queued
<1>7. writeIndex' = At(WaitingCount)'
  BY <1>1, <1>2, <1>3, <1>4, <1>5, FromNext DEF At
<1>8. WriterInv'
  BY <1>1, <1>7 DEF Parts, WriterInv, Owns
<1>9. ReaderInv'
  BY <1>1, <1>2 DEF Parts, ReaderInv, Owns
<1> QED BY <1>2, <1>3, <1>4, <1>6, <1>8, <1>9 DEF Parts

(* The reader claims the first of the queue: the head moves on.            *)
LEMMA ReaderClaims ==
  ASSUME OneEach, Shape, Parts, ReadClaim(TheReader)
  PROVE Parts' /\ HeadSlot' = NextIndex(HeadSlot) /\ WaitingCount' = WaitingCount - 1
        /\ WaitingCount > 0 /\ idx[TheReader] = HeadSlot
<1> USE Types DEF ReadClaim, Goto, NoData, Valid, Writing, Reading, Location
<1> DEFINE i == idx[TheReader]
<1>1. /\ UNCHANGED <<writeIndex, readIndex, idx>> /\ pc'[TheWriter] = pc[TheWriter]
      /\ pc[TheReader] = "claim" /\ pc'[TheReader] = "advance"
      /\ status[i] = Valid /\ status'[i] = Reading /\ status' = [status EXCEPT ![i] = Reading]
      /\ \A s \in Slots \ {i} : status'[s] = status[s]
  OBVIOUS
<1>2. i = readIndex /\ HeadSlot = i /\ HeadSlot' = NextIndex(i) /\ i \in Slots
  BY <1>1 DEF Parts, ReaderInv, HeadSlot
<1>3. WaitingCount' = WaitingCount - 1
  BY <1>1, CountShrinks
<1>4. WaitingCount \in 0 .. Size /\ Size \in Nat \ {0} /\ 0 \in 0 .. Size - 1
  BY SizeAssumption DEF Parts, Queued
<1>5. WaitingCount > 0
  <2>1. At(0) = i
    BY <1>2, <1>4, FromNext DEF At
  <2> QED BY <1>1, <1>4, <2>1 DEF Parts, Queued
<1>6. \A n \in 0 .. Size - 1 : At(n)' = From(i, n + 1)
  BY <1>2, FromNext DEF At
<1>7. Queued'
  <2>1. ASSUME NEW n \in 0 .. Size - 1, n + 1 \in 0 .. Size - 1
        PROVE status'[At(n)'] = Valid <=> n < WaitingCount'
    <3>1. From(i, n + 1) # i /\ From(i, n + 1) \in Slots
      <4>1. From(i, 0) = i /\ n + 1 # 0
        BY <1>2, <1>4, FromNext
      <4> QED BY <1>2, <1>4, <2>1, <4>1, FromOnce, FromIsSlot
    <3>2. status[From(i, n + 1)] = Valid <=> n + 1 < WaitingCount
      BY <1>2, <2>1 DEF Parts, Queued, At
    <3>3. n + 1 < WaitingCount <=> n < WaitingCount'
      BY <1>3, <1>4
    <3> QED BY <1>1, <1>6, <3>1, <3>2, <3>3
  <2>2. ASSUME NEW n \in 0 .. Size - 1, n + 1 \notin 0 .. Size - 1
        PROVE status'[At(n)'] = Valid <=> n < WaitingCount'
    <3>1. n + 1 = Size
      BY <1>4, <2>2
    <3>2. From(i, n + 1) = i
      BY <1>2, <1>4, <3>1, FromNext
    <3>3. ~(n < WaitingCount')
      BY <1>3, <1>4, <3>1
    <3> QED BY <1>1, <1>6, <3>2, <3>3
  <2>3. WaitingCount' \in 0 .. Size
    BY <1>3, <1>4, <1>5
  <2> QED BY <2>1, <2>2, <2>3 DEF Queued
<1>8. At(WaitingCount)' = At(WaitingCount)
  <2>1. WaitingCount - 1 \in 0 .. Size - 1 /\ WaitingCount - 1 + 1 = WaitingCount
    BY <1>4, <1>5
  <2> QED BY <1>2, <1>3, <1>6, <2>1 DEF At
<1>9. WaitingCount < Size => WaitingCount' < Size
  BY <1>3, <1>4
<1>10. WriterInv'
  BY <1>1, <1>8, <1>9 DEF Parts, WriterInv, Owns
<1>11. ReaderInv'
  BY <1>1, <1>2 DEF Parts, ReaderInv, Owns
<1> QED BY <1>2, <1>3, <1>5, <1>7, <1>10, <1>11 DEF Parts

(* It stores the index of the next one, and uses the slot.                 *)
LEMMA ReaderAdvances ==
  ASSUME OneEach, Shape, Parts, ReadAdvance(TheReader) \/ ReadData(TheReader)
  PROVE Parts' /\ SameQueue
<1> USE Types DEF ReadAdvance, ReadData, Goto, Location
<1>1. /\ UNCHANGED <<status, writeIndex, idx>> /\ pc'[TheWriter] = pc[TheWriter]
      /\ pc[TheReader] \in {"advance", "access"} /\ pc'[TheReader] \in {"access", "finish"}
  OBVIOUS
<1>2. readIndex' = NextIndex(idx[TheReader])
  BY DEF Parts, ReaderInv
<1>3. HeadSlot = NextIndex(idx[TheReader])
  BY <1>1 DEF Parts, ReaderInv, HeadSlot
<1>4. SameQueue
  BY <1>1, <1>2, <1>3, CountStays DEF SameQueue, HeadSlot
<1>5. Queued'
  BY <1>4, SameQueued DEF Parts
<1>6. At(WaitingCount)' = At(WaitingCount)
  BY <1>4 DEF SameQueue, At
<1>7. WriterInv'
  BY <1>1, <1>4, <1>6 DEF Parts, WriterInv, Owns, SameQueue
<1>8. ReaderInv'
  BY <1>1, <1>2 DEF Parts, ReaderInv, Owns
<1> QED BY <1>4, <1>5, <1>7, <1>8 DEF Parts

LEMMA ReaderCompletes ==
  ASSUME OneEach, Shape, Parts, ReadComplete(TheReader)
  PROVE Parts' /\ SameQueue
<1> USE Types DEF ReadComplete, Goto, NoData, Valid, Writing, Reading, Location
<1> DEFINE i == idx[TheReader]
<1>1. /\ UNCHANGED <<writeIndex, readIndex, idx>> /\ pc'[TheWriter] = pc[TheWriter]
      /\ pc[TheReader] = "finish" /\ pc'[TheReader] = "idle" /\ status'[i] = NoData
      /\ \A s \in Slots \ {i} : status'[s] = status[s]
  OBVIOUS
<1>2. status[i] = Reading
  BY <1>1 DEF Parts, ReaderInv, Owns
<1>3. SameQueue
  BY <1>1, <1>2, CountStays DEF SameQueue, HeadSlot
<1>4. Queued'
  BY <1>3, SameQueued DEF Parts
<1>5. At(WaitingCount)' = At(WaitingCount)
  BY <1>3 DEF SameQueue, At
<1>6. WriterInv'
  BY <1>1, <1>2, <1>3, <1>5 DEF Parts, WriterInv, Owns, SameQueue
<1>7. ReaderInv'
  BY <1>1 DEF Parts, ReaderInv, Owns
<1> QED BY <1>3, <1>4, <1>6, <1>7 DEF Parts

-----------------------------------------------------------------------------
LEMMA InitParts == ASSUME OneEach, Init PROVE FifoInv
<1>1. IInv /\ Shape
  BY InitInv DEF IInv
<1>2. /\ pc[TheReader] = "idle" /\ pc[TheWriter] = "idle" /\ HeadSlot = 0
      /\ writeIndex = 0 /\ readIndex = 0 /\ \A s \in Slots : status[s] = NoData
  BY <1>1, Types DEF Init, HeadSlot
<1>3. {s \in Slots : status[s] = Valid} = {}
  BY <1>2 DEF NoData, Valid
<1>4. WaitingCount = 0
  BY <1>3, FS_EmptySet DEF WaitingCount
<1>5. Size \in Nat \ {0} /\ 0 \in Slots /\ 0 \in 0 .. Size /\ 0 \in 0 .. Size - 1
  BY SizeAssumption DEF Slots
<1>6. At(0) = 0
  BY <1>2, <1>5, FromNext DEF At
<1>7. Queued
  <2>1. \A n \in 0 .. Size - 1 : At(n) \in Slots /\ ~(n < 0)
    BY <1>2, <1>5, FromIsSlot DEF At
  <2> QED BY <1>2, <1>4, <1>5, <2>1 DEF Queued, NoData, Valid
<1>8. WriterInv /\ ReaderInv
  BY <1>2, <1>4, <1>6 DEF WriterInv, ReaderInv, Owns, NoData, Writing, Reading
<1> QED BY <1>1, <1>7, <1>8 DEF FifoInv

(* Every step leaves the queue alone, appends to it, or takes its head.    *)
LEMMA Steps ==
  ASSUME OneEach, Shape, Parts, Next
  PROVE Parts' /\ (SameQueue \/ WriteComplete(TheWriter) \/ ReadClaim(TheReader))
<1>1. Write(TheWriter) \/ Read(TheReader)
  BY Threads2 DEF Next
<1>2. ASSUME Write(TheWriter)
      PROVE Parts' /\ (SameQueue \/ WriteComplete(TheWriter))
  BY <1>2, WriterLooking, WriterClaims, WriterAdvances, WriterCompletes
     DEF Write, WriteContinue, WriterLooks
<1>3. ASSUME Read(TheReader)
      PROVE Parts' /\ (SameQueue \/ ReadClaim(TheReader))
  BY <1>3, ReaderLooking, ReaderClaims, ReaderAdvances, ReaderCompletes
     DEF Read, ReaderLooks
<1> QED BY <1>1, <1>2, <1>3

LEMMA FifoInductive == ASSUME OneEach, FifoInv, [Next]_vars PROVE FifoInv'
<1>1. IInv' /\ Shape /\ Parts
  BY Inductive DEF FifoInv, IInv, Parts
<1>2. CASE Next
  BY <1>1, <1>2, Steps DEF FifoInv, Parts
<1>3. CASE UNCHANGED vars
  <2>1. UNCHANGED <<status, writeIndex, readIndex, pc, idx>>
    BY <1>3 DEF vars
  <2>2. UNCHANGED <<HeadSlot, WaitingCount>>
    BY <2>1 DEF HeadSlot, WaitingCount
  <2> QED BY <1>1, <2>1, <2>2
          DEF FifoInv, Parts, Queued, WriterInv, ReaderInv, At, From, Owns
<1> QED BY <1>2, <1>3

LEMMA FifoInvariant == ASSUME OneEach PROVE Spec => []FifoInv
<1>1. Init => FifoInv
  BY InitParts
<1>2. FifoInv /\ [Next]_vars => FifoInv'
  BY FifoInductive
<1> QED BY <1>1, <1>2, PTL DEF Spec

-----------------------------------------------------------------------------
(* A refused writer (one writer, one reader) met a full ring: every slot   *)
(* holds an item, or is the one the reader is using.                       *)
LEMMA WriterRefused ==
  ASSUME OneEach, FifoInv, NEW w \in Writers, WriteRefused(w), NEW s \in Slots
  PROVE status[s] \in {Valid, Reading}
<1>1. w = TheWriter /\ Shape
  BY Threads2 DEF FifoInv, IInv
<1>2. idx[TheWriter] = At(WaitingCount) /\ status[At(WaitingCount)] \in {Valid, Reading}
  BY <1>1, Types DEF WriteRefused, FifoInv, WriterInv
<1>3. /\ Size \in Nat \ {0} /\ WaitingCount \in 0 .. Size /\ HeadSlot \in Slots
      /\ 0 \in 0 .. Size - 1
  BY <1>1, SizeAssumption, HeadIsSlot DEF FifoInv, Queued
<1>4. PICK n \in 0 .. Size - 1 : s = At(n)
  BY <1>3, FromAll DEF At
<1>5. CASE WaitingCount = Size
  <2>1. n < WaitingCount
    BY <1>3, <1>5
  <2> QED BY <1>4, <2>1 DEF FifoInv, Queued
<1>6. CASE WaitingCount # Size
  <2>1. WaitingCount \in 0 .. Size - 1 /\ ~(WaitingCount < WaitingCount)
    BY <1>3, <1>6
  <2>2. status[At(WaitingCount)] = Reading
    BY <1>2, <2>1 DEF FifoInv, Queued
  <2>3. At(WaitingCount) \in Slots
    BY <1>3, FromIsSlot DEF At
  <2>4. Owns(TheReader) /\ At(WaitingCount) = idx[TheReader]
    BY <2>2, <2>3 DEF FifoInv, ReaderInv
  <2>5. HeadSlot = NextIndex(idx[TheReader])
    BY <2>4 DEF FifoInv, ReaderInv, HeadSlot, Owns
  <2>6. From(HeadSlot, WaitingCount + 1) = HeadSlot /\ From(HeadSlot, 0) = HeadSlot
    BY <1>3, <2>1, <2>4, <2>5, FromNext DEF At
  <2>7. WaitingCount + 1 \notin 0 .. Size - 1
    <3>1. WaitingCount + 1 # 0
      BY <1>3
    <3> QED BY <1>3, <2>6, <3>1, FromOnce
  <2>8. n < WaitingCount \/ n = WaitingCount
    BY <1>3, <2>1, <2>7
  <2> QED BY <1>4, <2>2, <2>8 DEF FifoInv, Queued
<1> QED BY <1>5, <1>6

(* A refused reader (one writer, one reader) met an empty ring.            *)
LEMMA ReaderRefused ==
  ASSUME OneEach, FifoInv, NEW r \in Readers, ReadRefused(r), NEW s \in Slots
  PROVE status[s] # Valid
<1>1. r = TheReader /\ Shape
  BY Threads2 DEF FifoInv, IInv
<1>2. /\ Size \in Nat \ {0} /\ WaitingCount \in 0 .. Size /\ HeadSlot \in Slots
      /\ 0 \in 0 .. Size - 1
  BY <1>1, SizeAssumption, HeadIsSlot DEF FifoInv, Queued
<1>3. HeadSlot = idx[TheReader] /\ status[HeadSlot] # Valid
  BY <1>1 DEF ReadRefused, FifoInv, ReaderInv, HeadSlot, NoData, Valid, Writing
<1>4. At(0) = HeadSlot
  BY <1>2, FromNext DEF At
<1>5. ~(0 < WaitingCount)
  BY <1>2, <1>3, <1>4 DEF FifoInv, Queued
<1>6. PICK n \in 0 .. Size - 1 : s = At(n)
  BY <1>2, FromAll DEF At
<1>7. ~(n < WaitingCount)
  BY <1>2, <1>5
<1> QED BY <1>6, <1>7 DEF FifoInv, Queued

(* getWriteSlot (MWMRNoOverWriteSlotRingBuffer.h:71) answers nullptr only  *)
(* when the ring is full, for one writer and one reader and every size.    *)
THEOREM RefusalMeansFull == OneEach => (Spec => RefusedOnlyWhenFull)
<1> SUFFICES ASSUME OneEach PROVE Spec => RefusedOnlyWhenFull
  OBVIOUS
<1>1. FifoInv /\ [Next]_vars =>
        [\A w \in Writers : WriteRefused(w) =>
           \A s \in Slots : status[s] \in {Valid, Reading}]_vars
  BY WriterRefused
<1> QED BY <1>1, FifoInvariant, PTL DEF Spec, RefusedOnlyWhenFull

(* getReadSlot answers nullptr only when no completed item waits.          *)
THEOREM RefusalMeansEmpty == OneEach => (Spec => RefusedOnlyWhenEmpty)
<1> SUFFICES ASSUME OneEach PROVE Spec => RefusedOnlyWhenEmpty
  OBVIOUS
<1>1. FifoInv /\ [Next]_vars =>
        [\A r \in Readers : ReadRefused(r) => \A s \in Slots : status[s] # Valid]_vars
  BY ReaderRefused
<1> QED BY <1>1, FifoInvariant, PTL DEF Spec, RefusedOnlyWhenEmpty

-----------------------------------------------------------------------------
(* The items that wait, counted from the head.                             *)
LEMMA WaitingAt ==
  ASSUME Shape, WaitingCount \in 0 .. Size
  PROVE Waiting = [n \in 1 .. WaitingCount |-> data[At(n - 1)]]
<1>1. HeadSlot \in Int /\ WaitingCount \in Int
  BY HeadIsSlot, SizeAssumption DEF Slots
<1>2. \A n \in 1 .. WaitingCount : HeadSlot + n - 1 = HeadSlot + (n - 1)
  BY <1>1
<1> QED BY <1>2 DEF Waiting, At, From

LEMMA WaitingIsSeq ==
  ASSUME FifoInv
  PROVE /\ Waiting \in Seq(Item \cup {Blank}) /\ Len(Waiting) = WaitingCount
        /\ WaitingCount \in 0 .. Size /\ Size \in Nat \ {0}
        /\ \A n \in 1 .. WaitingCount : Waiting[n] = data[At(n - 1)]
<1>1. Shape /\ WaitingCount \in 0 .. Size /\ data \in [Slots -> Item \cup {Blank}]
  BY DEF FifoInv, IInv, Queued, Content
<1>2. Size \in Nat \ {0} /\ WaitingCount \in Nat
  BY <1>1, SizeAssumption
<1>3. \A n \in 1 .. WaitingCount : n - 1 \in 0 .. Size
  BY <1>1, <1>2
<1>4. \A n \in 1 .. WaitingCount : data[At(n - 1)] \in Item \cup {Blank}
  BY <1>1, <1>3, HeadIsSlot, FromIsSlot DEF At
<1>5. Waiting = [n \in 1 .. WaitingCount |-> data[At(n - 1)]]
  BY <1>1, WaitingAt
<1> QED BY <1>1, <1>2, <1>4, <1>5

(* A step that leaves the queue alone leaves the items that wait alone.    *)
LEMMA WaitingStays ==
  ASSUME FifoInv, FifoInv', SameQueue,
         \A s \in Slots : status[s] = Valid => data'[s] = data[s]
  PROVE Waiting' = Waiting
<1>1. \A n \in 1 .. WaitingCount : n - 1 \in 0 .. Size - 1 /\ n - 1 < WaitingCount
  BY WaitingIsSeq
<1>2. \A n \in 1 .. WaitingCount : status[At(n - 1)] = Valid /\ At(n - 1) \in Slots
  <2>1. \A n \in 0 .. Size - 1 : At(n) \in Slots
    BY WaitingIsSeq, HeadIsSlot, FromIsSlot DEF At, FifoInv, IInv
  <2> QED BY <1>1, <2>1 DEF FifoInv, Queued
<1>3. \A n \in 1 .. WaitingCount : At(n - 1)' = At(n - 1)
  BY DEF At, SameQueue
<1>4. Waiting = [n \in 1 .. WaitingCount |-> data[At(n - 1)]]
  BY WaitingAt DEF FifoInv, IInv, Queued
<1>5. Waiting' = [n \in 1 .. WaitingCount |-> data'[At(n - 1)]]
  <2>1. (Shape /\ WaitingCount \in 0 .. Size
           => Waiting = [n \in 1 .. WaitingCount |-> data[At(n - 1)]])'
    BY WaitingAt, PTL
  <2>2. Waiting' = [n \in 1 .. WaitingCount' |-> data'[At(n - 1)']]
    BY <2>1 DEF FifoInv, IInv, Queued
  <2> QED BY <1>3, <2>2 DEF SameQueue
<1> QED BY <1>2, <1>4, <1>5

(* A completed write puts its item at the end of the queue.                *)
LEMMA CompletePuts ==
  ASSUME OneEach, FifoInv, FifoInv', WriteComplete(TheWriter)
  PROVE Fifo!FifoNext
<1>1. Shape /\ Parts
  BY DEF FifoInv, IInv, Parts
<1>2. /\ HeadSlot' = HeadSlot /\ WaitingCount' = WaitingCount + 1
      /\ idx[TheWriter] = At(WaitingCount)
  BY <1>1, WriterCompletes
<1> DEFINE item == CurrentItem(TheWriter)
<1>3. data[At(WaitingCount)] = item /\ data' = data
  BY <1>2, Threads2 DEF WriteComplete, FifoInv, IInv, Content, Filled
<1>4. item \in Item
  BY <1>1, Threads2, MaxItemsAssumption DEF WriteComplete, CurrentItem, Item, Shape
<1>5. Len(Waiting) = WaitingCount /\ WaitingCount \in Nat /\ Size \in Nat
      /\ Waiting \in Seq(Item \cup {Blank})
  BY WaitingIsSeq
<1>6. WaitingCount < Size
  <2>1. WaitingCount + 1 \in 0 .. Size
    BY <1>2 DEF FifoInv, Queued
  <2> QED BY <1>5, <2>1
<1>7. Waiting = [n \in 1 .. WaitingCount |-> data[At(n - 1)]]
  BY WaitingAt DEF FifoInv, IInv, Queued
<1>8. Waiting' = [n \in 1 .. WaitingCount + 1 |-> data[At(n - 1)]]
  <2>1. (Shape /\ WaitingCount \in 0 .. Size
           => Waiting = [n \in 1 .. WaitingCount |-> data[At(n - 1)]])'
    BY WaitingAt, PTL
  <2>2. Waiting' = [n \in 1 .. WaitingCount' |-> data'[At(n - 1)']]
    BY <2>1 DEF FifoInv, IInv, Queued
  <2>3. \A n \in 1 .. WaitingCount + 1 : At(n - 1)' = At(n - 1)
    BY <1>2 DEF At
  <2> QED BY <1>2, <1>3, <2>2, <2>3
<1> HIDE DEF item
<1>9. Waiting' = Append(Waiting, item)
  <2> DEFINE S == Item \cup {Blank}
  <2>1. Waiting' \in Seq(S) /\ Len(Waiting') = WaitingCount + 1
    <3>1. (FifoInv => Waiting \in Seq(Item \cup {Blank}) /\ Len(Waiting) = WaitingCount)'
      BY WaitingIsSeq, PTL
    <3> QED BY <1>2, <3>1
  <2>2. /\ Append(Waiting, item) \in Seq(S) /\ Len(Append(Waiting, item)) = WaitingCount + 1
        /\ \A n \in 1 .. WaitingCount : Append(Waiting, item)[n] = Waiting[n]
        /\ Append(Waiting, item)[WaitingCount + 1] = item
    <3>1. item \in S /\ Waiting \in Seq(S)
      BY <1>4, <1>5
    <3> HIDE DEF S
    <3> QED BY <1>5, <3>1, AppendProperties
  <2>3. Waiting'[WaitingCount + 1] = item
    <3>1. (WaitingCount + 1) - 1 = WaitingCount /\ WaitingCount + 1 \in 1 .. WaitingCount + 1
      BY <1>5
    <3>2. ASSUME NEW n \in 1 .. WaitingCount + 1, n - 1 = WaitingCount
          PROVE Waiting'[n] = item
      BY <1>3, <1>8, <3>2
    <3> QED BY <3>1, <3>2
  <2>4. \A n \in 1 .. WaitingCount : Waiting'[n] = Waiting[n]
    <3>1. \A n \in 1 .. WaitingCount : n \in 1 .. WaitingCount + 1
      BY <1>5
    <3> QED BY <1>7, <1>8, <3>1
  <2>5. \A n \in 1 .. WaitingCount + 1 : n \in 1 .. WaitingCount \/ n = WaitingCount + 1
    BY <1>5
  <2>6. \A n \in 1 .. Len(Waiting') : Waiting'[n] = Append(Waiting, item)[n]
    BY <2>1, <2>2, <2>3, <2>4, <2>5
  <2> HIDE DEF S
  <2> QED BY <2>1, <2>2, <2>6, SeqEqual
<1>10. Claimed' = Claimed
  BY <1>1, Types, Threads2 DEF WriteComplete, Goto, Claimed
<1>11. Fifo!Put(item)
  BY <1>5, <1>6, <1>9, <1>10 DEF Fifo!Put
<1> QED BY <1>4, <1>11 DEF Fifo!FifoNext

(* A reader that claims its slot takes the head of the queue.              *)
LEMMA ClaimGets ==
  ASSUME OneEach, FifoInv, FifoInv', ReadClaim(TheReader)
  PROVE Fifo!FifoNext
<1>1. Shape /\ Parts
  BY DEF FifoInv, IInv, Parts
<1>2. /\ HeadSlot' = NextIndex(HeadSlot) /\ WaitingCount' = WaitingCount - 1
      /\ WaitingCount > 0 /\ idx[TheReader] = HeadSlot
  BY <1>1, ReaderClaims
<1>3. data' = data /\ delivered' = delivered /\ idx' = idx
      /\ pc[TheReader] = "claim" /\ pc'[TheReader] = "advance"
  BY <1>1, Types DEF ReadClaim, Goto
<1>4. Len(Waiting) = WaitingCount /\ WaitingCount \in 0 .. Size /\ Size \in Nat \ {0}
      /\ Waiting \in Seq(Item \cup {Blank}) /\ HeadSlot \in Slots
  BY <1>1, WaitingIsSeq, HeadIsSlot
<1>5. \A n \in 1 .. WaitingCount : Waiting[n] = data[At(n - 1)]
  BY WaitingIsSeq
<1>6. Waiting' = [n \in 1 .. WaitingCount - 1 |-> Waiting[n + 1]]
  <2>1. (Shape /\ WaitingCount \in 0 .. Size
           => Waiting = [n \in 1 .. WaitingCount |-> data[At(n - 1)]])'
    BY WaitingAt, PTL
  <2>2. Waiting' = [n \in 1 .. WaitingCount' |-> data'[At(n - 1)']]
    BY <2>1 DEF FifoInv, IInv, Queued
  <2>3. ASSUME NEW n \in 1 .. WaitingCount - 1
        PROVE At(n - 1)' = At(n) /\ Waiting[n + 1] = data[At(n)]
    <3>1. n - 1 \in 0 .. Size - 1 /\ n - 1 + 1 = n
          /\ n + 1 \in 1 .. WaitingCount /\ n + 1 - 1 = n
      BY <1>4
    <3>2. From(NextIndex(HeadSlot), n - 1) = From(HeadSlot, n)
      BY <1>4, <3>1, FromNext
    <3> QED BY <1>2, <1>5, <3>1, <3>2 DEF At
  <2> QED BY <1>2, <1>3, <2>2, <2>3
<1>7. Waiting' = Tail(Waiting)
  <2> DEFINE S == Item \cup {Blank}
  <2>1. Waiting' \in Seq(S) /\ Len(Waiting') = WaitingCount - 1
    <3>1. (FifoInv => Waiting \in Seq(Item \cup {Blank}) /\ Len(Waiting) = WaitingCount)'
      BY WaitingIsSeq, PTL
    <3> QED BY <1>2, <3>1
  <2>2. Waiting \in Seq(S) /\ Waiting # << >>
    BY <1>2, <1>4
  <2> HIDE DEF S
  <2>3. /\ Tail(Waiting) \in Seq(S) /\ Len(Tail(Waiting)) = WaitingCount - 1
        /\ \A n \in 1 .. WaitingCount - 1 : Tail(Waiting)[n] = Waiting[n + 1]
    BY <1>4, <2>2, HeadTailProperties
  <2>4. \A n \in 1 .. Len(Waiting') : Waiting'[n] = Tail(Waiting)[n]
    BY <1>6, <2>1, <2>3
  <2> QED BY <2>1, <2>3, <2>4, SeqEqual
<1>8. Head(Waiting) = data[idx[TheReader]] /\ Waiting # << >>
  <2>1. 1 \in 1 .. WaitingCount /\ 1 - 1 = 0 /\ 0 \in 0 .. Size - 1
    BY <1>2, <1>4
  <2>2. At(0) = HeadSlot
    BY <1>4, <2>1, FromNext DEF At
  <2>3. Waiting[1] = data[idx[TheReader]]
    BY <1>2, <1>5, <2>1, <2>2
  <2>4. Len(Waiting) # 0
    BY <1>2, <1>4
  <2> QED BY <1>4, <2>3, <2>4
<1>9. Claimed' = Append(Claimed, Head(Waiting))
  BY <1>3, <1>8 DEF Claimed
<1>10. Fifo!Get
  BY <1>7, <1>8, <1>9 DEF Fifo!Get
<1> QED BY <1>10 DEF Fifo!FifoNext

(* Any other step is none of the channel.                                  *)
LEMMA OtherStutters ==
  ASSUME OneEach, FifoInv, FifoInv', Next, SameQueue
  PROVE UNCHANGED <<Waiting, Claimed>>
<1>1. Shape /\ SlotExclusive /\ Parts
  BY DEF FifoInv, IInv, Parts
<1>2. ~ReadClaim(TheReader)
  BY <1>1, ReaderClaims, WaitingIsSeq DEF SameQueue
<1>3. ASSUME Write(TheWriter)
      PROVE /\ \A s \in Slots : status[s] = Valid => data'[s] = data[s]
            /\ Claimed' = Claimed
  <2>1. CASE WriteData(TheWriter)
    <3>1. status[idx[TheWriter]] = Writing /\ pc'[TheReader] = pc[TheReader]
          /\ idx' = idx /\ delivered' = delivered
          /\ \A s \in Slots \ {idx[TheWriter]} : data'[s] = data[s]
      BY <1>1, <2>1, Types, Threads2
         DEF WriteData, Goto, SlotExclusive, Owns, FifoInv, IInv, Content
    <3>2. pc[TheReader] \in {"advance", "access"} => idx[TheReader] # idx[TheWriter]
      BY <1>1, <2>1, Types DEF WriteData, SlotExclusive, Owns
    <3> QED BY <1>1, <3>1, <3>2, Types DEF Claimed, Valid, Writing
  <2>2. CASE ~WriteData(TheWriter)
    <3>1. data' = data /\ delivered' = delivered /\ pc'[TheReader] = pc[TheReader]
          /\ idx'[TheReader] = idx[TheReader]
      BY <1>1, <1>3, <2>2, Types
         DEF Write, WriteContinue, WriteLoad, WriteRetry, WriteRefused, WriteFree,
             WriteClaim, WriteClaimLost, WriteAdvance, WriteComplete, Goto
    <3> QED BY <3>1 DEF Claimed
  <2> QED BY <2>1, <2>2
<1>4. ASSUME Read(TheReader)
      PROVE /\ \A s \in Slots : status[s] = Valid => data'[s] = data[s]
            /\ Claimed' = Claimed
  BY <1>1, <1>2, <1>4, Types
     DEF Read, ReadLoad, ReadRetry, ReadRefused, ReadReady, ReadClaimLost,
         ReadAdvance, ReadData, ReadComplete, Goto, Claimed
<1>5. Write(TheWriter) \/ Read(TheReader)
  BY Threads2 DEF Next
<1> QED BY <1>3, <1>4, <1>5, WaitingStays

(* With one writer and one reader the ring is a bounded first-in first-out *)
(* channel (what the Session, the ExecutionEngine and the Strategy take    *)
(* their rings for), whatever its size.                                    *)
THEOREM RingIsFifo == OneEach => (Spec => IsFifo)
<1> SUFFICES ASSUME OneEach PROVE Spec => IsFifo
  OBVIOUS
<1>1. Init => Fifo!FifoInit
  <2> SUFFICES ASSUME Init PROVE Fifo!FifoInit
    OBVIOUS
  <2>1. FifoInv
    BY InitParts
  <2>2. {s \in Slots : status[s] = Valid} = {}
    BY DEF Init, NoData, Valid
  <2>3. WaitingCount = 0
    BY <2>2, FS_EmptySet DEF WaitingCount
  <2>4. Waiting = << >>
    BY <2>1, <2>3, WaitingIsSeq
  <2>5. Claimed = << >>
    BY Threads2 DEF Init, Claimed, Threads
  <2> QED BY <2>4, <2>5 DEF Fifo!FifoInit
<1>2. FifoInv /\ FifoInv' /\ [Next]_vars => [Fifo!FifoNext]_<<Waiting, Claimed>>
  <2> SUFFICES ASSUME FifoInv, FifoInv', [Next]_vars
               PROVE [Fifo!FifoNext]_<<Waiting, Claimed>>
    OBVIOUS
  <2>1. CASE Next
    <3>1. SameQueue \/ WriteComplete(TheWriter) \/ ReadClaim(TheReader)
      BY <2>1, Steps DEF FifoInv, IInv, Parts
    <3> QED BY <2>1, <3>1, CompletePuts, ClaimGets, OtherStutters
  <2>2. CASE UNCHANGED vars
    BY <2>2 DEF vars, Waiting, WaitingCount, HeadSlot, Claimed
  <2> QED BY <2>1, <2>2
<1> QED BY <1>1, <1>2, FifoInvariant, PTL DEF Spec, IsFifo, Fifo!FifoSpec

=============================================================================
