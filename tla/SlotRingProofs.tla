--------------------------- MODULE SlotRingProofs ---------------------------
(***************************************************************************)
(* Proofs about SlotRing for any number of writers and readers, any size   *)
(* and any number of items: the types, the exclusive use of slots, that    *)
(* every marked slot has an owner, and that completed items are neither    *)
(* lost nor duplicated.                                                    *)
(***************************************************************************)
EXTENDS SlotRing, TLAPS

(* The part of the invariant that does not look at the items.              *)
Shape ==
  /\ status \in [Slots -> DataStatus]
  /\ writeIndex \in Slots
  /\ readIndex \in Slots
  /\ pc \in [Threads -> Location]
  /\ idx \in [Threads -> Slots]
  /\ produced \in [Writers -> 0 .. MaxItems]
  /\ \A w \in Writers : pc[w] # "idle" => produced[w] < MaxItems

(* What a writer that is about to complete its slot has put there.         *)
Filled ==
  \A w \in Writers : pc[w] = "finish" => data[idx[w]] = CurrentItem(w)

Content ==
  /\ data \in [Slots -> Item \cup {Blank}]
  /\ delivered \in Seq(Item)
  /\ Filled
  /\ NothingLost
  /\ NothingDuplicated

(* The inductive invariant.                                                *)
IInv == Shape /\ SlotExclusive /\ MarkedByOwner /\ Content

(* The successor of an index stays inside the ring.                        *)
LEMMA NextIndexInside == \A i \in Slots : NextIndex(i) \in Slots
BY SizeAssumption DEF Slots, NextIndex

-----------------------------------------------------------------------------
(* The shape and the exclusive use of slots hold initially.                *)
LEMMA InitCore == Init => Shape /\ SlotExclusive
BY SizeAssumption, MaxItemsAssumption
   DEF Init, Shape, SlotExclusive, Owns, Slots, Threads, DataStatus, Location,
       NoData, Valid, Writing, Reading

(* A step of a writer preserves them.                                      *)
LEMMA WriteCore ==
  ASSUME Shape, SlotExclusive, NEW w \in Writers, Write(w)
  PROVE  Shape' /\ SlotExclusive'
<1> USE ThreadsAssumption, MaxItemsAssumption, NextIndexInside
    DEF Shape, SlotExclusive, Owns, Threads, DataStatus, Location,
        NoData, Valid, Writing, Reading, Goto
<1>1. CASE WriteLoad(w)
  BY <1>1 DEF WriteLoad
<1>2. CASE WriteRetry(w)
  BY <1>2 DEF WriteRetry
<1>3. CASE WriteRefused(w)
  BY <1>3 DEF WriteRefused
<1>4. CASE WriteFree(w)
  BY <1>4 DEF WriteFree
<1>5. CASE WriteClaim(w)
  BY <1>5 DEF WriteClaim
<1>6. CASE WriteClaimLost(w)
  BY <1>6 DEF WriteClaimLost
<1>7. CASE WriteAdvance(w)
  BY <1>7 DEF WriteAdvance
<1>8. CASE WriteData(w)
  BY <1>8 DEF WriteData
<1>9. CASE WriteComplete(w)
  BY <1>9 DEF WriteComplete
<1>10. QED
  BY <1>1, <1>2, <1>3, <1>4, <1>5, <1>6, <1>7, <1>8, <1>9
     DEF Write, WriteContinue

(* A step of a reader preserves them.                                      *)
LEMMA ReadCore ==
  ASSUME Shape, SlotExclusive, NEW r \in Readers, Read(r)
  PROVE  Shape' /\ SlotExclusive'
<1> USE ThreadsAssumption, MaxItemsAssumption, NextIndexInside
    DEF Shape, SlotExclusive, Owns, Threads, DataStatus, Location,
        NoData, Valid, Writing, Reading, Goto
<1>1. CASE ReadLoad(r)
  BY <1>1 DEF ReadLoad
<1>2. CASE ReadRetry(r)
  BY <1>2 DEF ReadRetry
<1>3. CASE ReadRefused(r)
  BY <1>3 DEF ReadRefused
<1>4. CASE ReadReady(r)
  BY <1>4 DEF ReadReady
<1>5. CASE ReadClaim(r)
  BY <1>5 DEF ReadClaim
<1>6. CASE ReadClaimLost(r)
  BY <1>6 DEF ReadClaimLost
<1>7. CASE ReadAdvance(r)
  BY <1>7 DEF ReadAdvance
<1>8. CASE ReadData(r)
  BY <1>8 DEF ReadData
<1>9. CASE ReadComplete(r)
  BY <1>9 DEF ReadComplete
<1>10. QED
  BY <1>1, <1>2, <1>3, <1>4, <1>5, <1>6, <1>7, <1>8, <1>9 DEF Read

-----------------------------------------------------------------------------
(* Initially nothing is published, held or delivered.                      *)
LEMMA InitContent == Init => Content
<1> SUFFICES ASSUME Init PROVE Content
  OBVIOUS
<1>1. Published = {} /\ Delivered = {} /\ \A s \in Slots : ~Holding(s)
  BY MaxItemsAssumption
     DEF Init, Published, Delivered, Item, Holding, NoData, Valid, Threads
<1>2. NothingLost /\ NothingDuplicated
  BY <1>1 DEF Init, NothingLost, NothingDuplicated
<1>3. QED
  BY <1>2, ThreadsAssumption DEF Init, Content, Filled, Threads

(* Every step but those three moves no item: it changes neither what is    *)
(* held by which slot, nor the histories.                                  *)
LEMMA SameContent ==
  ASSUME Content,
         UNCHANGED <<data, produced, delivered>>,
         \A s \in Slots : Holding(s)' <=> Holding(s),
         Filled'
  PROVE  Content'
<1>1. Published' = Published /\ Delivered' = Delivered
  BY DEF Published, Delivered
<1>2. QED
  BY <1>1 DEF Content, NothingLost, NothingDuplicated

(* A writer holds its slot exclusively, so what it puts there disturbs no  *)
(* held item; completing the write adds its item and no other.             *)
LEMMA WriteContent ==
  ASSUME Shape, SlotExclusive, Content, NEW w \in Writers, Write(w)
  PROVE  Content'
<1> USE ThreadsAssumption DEF Shape, SlotExclusive, Owns, Threads,
        NoData, Valid, Writing, Reading, Goto
<1>1. CASE WriteData(w)
  <2>1. Published' = Published /\ Delivered' = Delivered
    BY <1>1 DEF WriteData, Published, Delivered
  <2>2. \A s \in Slots : Holding(s)' <=> Holding(s)
    BY <1>1 DEF WriteData, Holding
  <2>3. ~Holding(idx[w])
    BY <1>1 DEF WriteData, Holding
  <2>4. \A s \in Slots : Holding(s) => data'[s] = data[s]
    BY <1>1, <2>3 DEF WriteData, Content
  <2>5. CurrentItem(w) \in Item
    BY <1>1, MaxItemsAssumption DEF WriteData, CurrentItem, Item
  <2>6. data' \in [Slots -> Item \cup {Blank}]
    BY <1>1, <2>5 DEF WriteData, Content
  <2>7. Filled'
    BY <1>1 DEF WriteData, Filled, Content, CurrentItem
  <2>8. NothingLost'
    BY <2>1, <2>2, <2>4 DEF NothingLost, Content
  <2>9. NothingDuplicated'
    BY <1>1, <2>1, <2>2, <2>4 DEF WriteData, NothingDuplicated, Content
  <2>10. QED
    BY <1>1, <2>6, <2>7, <2>8, <2>9 DEF WriteData, Content
<1>2. CASE WriteComplete(w)
  <2> DEFINE item == CurrentItem(w)
  <2>1. data[idx[w]] = item /\ item \in Item /\ item \notin Published
    BY <1>2, MaxItemsAssumption
       DEF WriteComplete, Content, Filled, CurrentItem, Item, Published
  <2>2. Published' = Published \cup {item}
    BY <1>2, MaxItemsAssumption
       DEF WriteComplete, Published, CurrentItem, Item
  <2>3. Delivered' = Delivered /\ Delivered \subseteq Published
    BY <1>2 DEF WriteComplete, Delivered, Content, NothingLost
  <2>4. ~Holding(idx[w]) /\ Holding(idx[w])'
    BY <1>2 DEF WriteComplete, Holding
  <2>5. \A s \in Slots \ {idx[w]} : Holding(s)' <=> Holding(s)
    BY <1>2 DEF WriteComplete, Holding
  <2>6. \A s \in Slots : Holding(s) => data[s] \in Published
    BY DEF Content, NothingLost
  <2>7. NothingLost'
    BY <1>2, <2>1, <2>2, <2>3, <2>4, <2>5
       DEF WriteComplete, Content, NothingLost
  <2>8. NothingDuplicated'
    BY <1>2, <2>1, <2>3, <2>4, <2>5, <2>6
       DEF WriteComplete, Content, NothingDuplicated
  <2>9. Filled'
    BY <1>2 DEF WriteComplete, Filled, Content, CurrentItem
  <2>10. QED
    BY <1>2, <2>7, <2>8, <2>9 DEF WriteComplete, Content
<1>3. ASSUME ~WriteData(w), ~WriteComplete(w)
      PROVE  Content'
  <2>1. UNCHANGED <<data, produced, delivered>>
    BY <1>3 DEF Write, WriteContinue, WriteLoad, WriteRetry, WriteRefused,
                WriteFree, WriteClaim, WriteClaimLost, WriteAdvance
  <2>2. \A s \in Slots : Holding(s)' <=> Holding(s)
    BY <1>3 DEF Write, WriteContinue, WriteLoad, WriteRetry, WriteRefused,
                WriteFree, WriteClaim, WriteClaimLost, WriteAdvance, Holding
  <2>3. Filled'
    BY <1>3, <2>1
       DEF Write, WriteContinue, WriteLoad, WriteRetry, WriteRefused,
           WriteFree, WriteClaim, WriteClaimLost, WriteAdvance,
           Filled, Content, CurrentItem
  <2>4. QED
    BY <2>1, <2>2, <2>3, SameContent
<1>4. QED
  BY <1>1, <1>2, <1>3

(* A reader delivers the item of the slot it holds exclusively, once.      *)
LEMMA ReadContent ==
  ASSUME Shape, SlotExclusive, Content, NEW r \in Readers, Read(r)
  PROVE  Content'
<1> USE ThreadsAssumption DEF Shape, SlotExclusive, Owns, Threads,
        NoData, Valid, Writing, Reading, Goto
<1>1. CASE ReadData(r)
  <2> DEFINE item == data[idx[r]]
             len == Len(delivered)
  <2>1. Holding(idx[r]) /\ ~Holding(idx[r])'
    BY <1>1 DEF ReadData, Holding
  <2>2. \A s \in Slots \ {idx[r]} : Holding(s)' <=> Holding(s)
    BY <1>1 DEF ReadData, Holding
  <2>3. item \in Published /\ item \in Item
    BY <2>1 DEF Content, NothingLost, Published
  <2>4. /\ delivered' \in Seq(Item) /\ len \in Nat
        /\ Len(delivered') = len + 1
        /\ delivered'[len + 1] = item
        /\ \A n \in 1 .. len : delivered'[n] = delivered[n]
    BY <1>1, <2>3 DEF ReadData, Content
  <2>5. Delivered' = Delivered \cup {item}
    <3>1. Delivered' = {delivered'[n] : n \in 1 .. len + 1}
      BY <2>4 DEF Delivered
    <3>2. \A x : x \in Delivered' <=> x \in Delivered \/ x = item
      <4> HIDE DEF item
      <4>1. ASSUME NEW x, x \in Delivered'
            PROVE  x \in Delivered \/ x = item
        <5>1. PICK n \in 1 .. len + 1 : x = delivered'[n]
          BY <3>1, <4>1
        <5>2. QED
          BY <2>4, <5>1 DEF Delivered
      <4>2. ASSUME NEW x, x \in Delivered \/ x = item
            PROVE  x \in Delivered'
        <5>1. PICK n \in 1 .. len + 1 : x = delivered'[n]
          BY <2>4, <4>2 DEF Delivered
        <5>2. QED
          BY <3>1, <5>1
      <4>3. QED
        BY <4>1, <4>2
    <3>3. QED
      BY <3>2
  <2>6. item \notin Delivered
    BY <2>1 DEF Content, NothingDuplicated
  <2>7. \A n \in 1 .. len : delivered[n] # item
    BY <2>6 DEF Delivered
  <2>8. Published' = Published
    BY <1>1 DEF ReadData, Published
  <2>9. NothingLost'
    BY <1>1, <2>1, <2>2, <2>5, <2>8 DEF ReadData, Content, NothingLost
  <2>10. NothingDuplicated'
    <3>1. ASSUME NEW m \in 1 .. len + 1, NEW n \in 1 .. len + 1, m # n
          PROVE  delivered'[m] # delivered'[n]
      <4> HIDE DEF item, len
      <4>1. \A i, j \in 1 .. len : i # j => delivered[i] # delivered[j]
        BY DEF Content, NothingDuplicated, len
      <4>2. CASE m \in 1 .. len /\ n \in 1 .. len
        BY <2>4, <3>1, <4>1, <4>2
      <4>3. CASE m = len + 1 /\ n \in 1 .. len
        BY <2>4, <2>7, <4>3
      <4>4. CASE n = len + 1 /\ m \in 1 .. len
        BY <2>4, <2>7, <4>4
      <4>5. QED
        BY <2>4, <3>1, <4>2, <4>3, <4>4
    <3>2. \A s \in Slots : Holding(s)' => data'[s] \notin Delivered'
      BY <1>1, <2>1, <2>2, <2>5 DEF ReadData, Content, NothingDuplicated
    <3>3. QED
      BY <1>1, <2>1, <2>2, <2>4, <3>1, <3>2
         DEF ReadData, Content, NothingDuplicated
  <2>11. Filled'
    BY <1>1 DEF ReadData, Filled, Content, CurrentItem
  <2>12. QED
    BY <1>1, <2>4, <2>9, <2>10, <2>11 DEF ReadData, Content
<1>2. ASSUME ~ReadData(r)
      PROVE  Content'
  <2>1. UNCHANGED <<data, produced, delivered>>
    BY <1>2 DEF Read, ReadLoad, ReadRetry, ReadRefused, ReadReady,
                ReadClaim, ReadClaimLost, ReadAdvance, ReadComplete
  <2>2. \A s \in Slots : Holding(s)' <=> Holding(s)
    BY <1>2 DEF Read, ReadLoad, ReadRetry, ReadRefused, ReadReady, ReadClaim,
                ReadClaimLost, ReadAdvance, ReadComplete, Holding
  <2>3. Filled'
    BY <1>2, <2>1
       DEF Read, ReadLoad, ReadRetry, ReadRefused, ReadReady, ReadClaim,
           ReadClaimLost, ReadAdvance, ReadComplete,
           Filled, Content, CurrentItem
  <2>4. QED
    BY <2>1, <2>2, <2>3, SameContent
<1>3. QED
  BY <1>1, <1>2

-----------------------------------------------------------------------------
(* Slots that are marked have an owner: a step of a writer changes only    *)
(* the mark of its own slot, and gives it up with the slot.                *)
LEMMA WriteMarks ==
  ASSUME Shape, SlotExclusive, MarkedByOwner, NEW w \in Writers, Write(w)
  PROVE  MarkedByOwner'
<1> USE ThreadsAssumption
    DEF Shape, SlotExclusive, MarkedByOwner, Owns, Threads, NoData, Valid, Writing, Reading, Goto
<1>1. CASE WriteLoad(w)
  BY <1>1 DEF WriteLoad
<1>2. CASE WriteRetry(w)
  BY <1>2 DEF WriteRetry
<1>3. CASE WriteRefused(w)
  BY <1>3 DEF WriteRefused
<1>4. CASE WriteFree(w)
  BY <1>4 DEF WriteFree
<1>5. CASE WriteClaim(w)
  BY <1>5 DEF WriteClaim
<1>6. CASE WriteClaimLost(w)
  BY <1>6 DEF WriteClaimLost
<1>7. CASE WriteAdvance(w)
  BY <1>7 DEF WriteAdvance
<1>8. CASE WriteData(w)
  BY <1>8 DEF WriteData
<1>9. CASE WriteComplete(w)
  BY <1>9 DEF WriteComplete
<1>10. QED
  BY <1>1, <1>2, <1>3, <1>4, <1>5, <1>6, <1>7, <1>8, <1>9 DEF Write, WriteContinue

(* The same of a reader.                                                   *)
LEMMA ReadMarks ==
  ASSUME Shape, SlotExclusive, MarkedByOwner, NEW r \in Readers, Read(r)
  PROVE  MarkedByOwner'
<1> USE ThreadsAssumption
    DEF Shape, SlotExclusive, MarkedByOwner, Owns, Threads, NoData, Valid, Writing, Reading, Goto
<1>1. CASE ReadLoad(r)
  BY <1>1 DEF ReadLoad
<1>2. CASE ReadRetry(r)
  BY <1>2 DEF ReadRetry
<1>3. CASE ReadRefused(r)
  BY <1>3 DEF ReadRefused
<1>4. CASE ReadReady(r)
  BY <1>4 DEF ReadReady
<1>5. CASE ReadClaim(r)
  BY <1>5 DEF ReadClaim
<1>6. CASE ReadClaimLost(r)
  BY <1>6 DEF ReadClaimLost
<1>7. CASE ReadAdvance(r)
  BY <1>7 DEF ReadAdvance
<1>8. CASE ReadData(r)
  BY <1>8 DEF ReadData
<1>9. CASE ReadComplete(r)
  BY <1>9 DEF ReadComplete
<1>10. QED
  BY <1>1, <1>2, <1>3, <1>4, <1>5, <1>6, <1>7, <1>8, <1>9 DEF Read

-----------------------------------------------------------------------------
(* The invariant is inductive.                                             *)
LEMMA Inductive == IInv /\ [Next]_vars => IInv'
<1> SUFFICES ASSUME IInv, [Next]_vars PROVE IInv'
  OBVIOUS
<1> USE DEF IInv
<1>1. ASSUME NEW w \in Writers, Write(w) PROVE IInv'
  BY <1>1, WriteCore, WriteMarks, WriteContent
<1>2. ASSUME NEW r \in Readers, Read(r) PROVE IInv'
  BY <1>2, ReadCore, ReadMarks, ReadContent
<1>3. CASE UNCHANGED vars
  <2>1. Shape' /\ SlotExclusive' /\ MarkedByOwner'
    BY <1>3 DEF vars, Shape, SlotExclusive, MarkedByOwner, Owns
  <2>2. (\A s \in Slots : Holding(s)' <=> Holding(s)) /\ Filled'
    BY <1>3 DEF vars, Holding, Filled, Content, CurrentItem
  <2>3. Content'
    BY <1>3, <2>2, SameContent DEF vars
  <2>4. QED
    BY <2>1, <2>3
<1>4. QED
  BY <1>1, <1>2, <1>3 DEF Next

(* It holds initially.                                                     *)
LEMMA InitInv == Init => IInv
<1>1. Init => MarkedByOwner
  BY DEF Init, MarkedByOwner, NoData, Writing, Reading
<1>2. QED
  BY <1>1, InitCore, InitContent DEF IInv

(* Every reachable state satisfies the inductive invariant.                *)
LEMMA Invariant == Spec => []IInv
BY InitInv, Inductive, PTL DEF Spec

(* The types hold in every reachable state.                                *)
THEOREM Typing == Spec => []TypeOK
<1>1. IInv => TypeOK
  BY DEF IInv, Shape, Content, TypeOK
<1>2. QED
  BY <1>1, Invariant, PTL

(* However many threads use the ring, with whatever stale indices, no slot *)
(* is used by two of them at once (getWriteSlot .. setReadComplete).       *)
THEOREM Exclusion == Spec => []SlotExclusive
<1>1. IInv => SlotExclusive
  BY DEF IInv
<1>2. QED
  BY <1>1, Invariant, PTL

(* No slot stays marked after the thread that marked it has left it, so a  *)
(* caller that looks again always does so for a thread inside a call.      *)
THEOREM Ownership == Spec => []MarkedByOwner
<1>1. IInv => MarkedByOwner
  BY DEF IInv
<1>2. QED
  BY <1>1, Invariant, PTL

(* A completed item waits in a slot or has been delivered, for every       *)
(* number of threads: the ring overwrites nothing ("NoOverWrite").         *)
THEOREM NoLoss == Spec => []NothingLost
<1>1. IInv => NothingLost
  BY DEF IInv, Content
<1>2. QED
  BY <1>1, Invariant, PTL

(* No item is delivered twice or is in two places.                         *)
THEOREM NoDuplication == Spec => []NothingDuplicated
<1>1. IInv => NothingDuplicated
  BY DEF IInv, Content
<1>2. QED
  BY <1>1, Invariant, PTL

=============================================================================
