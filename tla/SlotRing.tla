------------------------------ MODULE SlotRing ------------------------------
(***************************************************************************)
(* The lock-free ring of util/MWMRNoOverWriteSlotRingBuffer.h, the queue   *)
(* between every pair of threads of the program (the outgoing messages of  *)
(* a Session, the events of the ExecutionEngine and of a Strategy, the     *)
(* records of the BinaryLogger).                                           *)
(*                                                                         *)
(* A caller claims a slot (getWriteSlot / getReadSlot), uses it in place,  *)
(* and releases it (setWriteComplete / setReadComplete).  Every load,      *)
(* store and compare-exchange of the code is one step here, so the steps   *)
(* of different threads interleave exactly where the code lets them.       *)
(***************************************************************************)
EXTENDS Naturals, Sequences

CONSTANTS
  Writers,   \* threads that call getWriteSlot / setWriteComplete
  Readers,   \* threads that call getReadSlot / setReadComplete
  Size,      \* size_, the number of slots
  MaxItems   \* bound of the model: how many items one writer puts

ASSUME ThreadsAssumption == Writers \cap Readers = {}
ASSUME SizeAssumption == Size \in Nat \ {0}
ASSUME MaxItemsAssumption == MaxItems \in Nat

VARIABLES
  status,      \* Slot::dataStatus_
  data,        \* Slot::data_
  writeIndex,  \* writeIndex_
  readIndex,   \* readIndex_
  pc,          \* where each thread is in the code
  idx,         \* the thread's local wi / ri, then the slot it returned
  produced,    \* history: how many items each writer has completed
  delivered    \* history: the items taken out, in the order of the taking

vars == <<status, data, writeIndex, readIndex, pc, idx, produced, delivered>>

Slots == 0 .. Size - 1
Threads == Writers \cup Readers

NoData == "NO_DATA"
Valid == "DATA_VALID"
Writing == "DATA_WRITING"
Reading == "DATA_READING"
DataStatus == {NoData, Valid, Writing, Reading}

(* The n-th item of a writer; Blank is the content of a slot never used.   *)
Item == Writers \X (1 .. MaxItems)
Blank == << >>

(* A thread is outside the ring ("idle"), inside getWriteSlot/getReadSlot  *)
(* ("check", "claim", "advance"), using the slot it got ("access"), or     *)
(* about to call setWriteComplete/setReadComplete ("finish").              *)
Location == {"idle", "check", "claim", "advance", "access", "finish"}

(* A mistake: the index is not wrapped.                                    *)
NextIndexUnwrapped(i) == i + 1

NextIndex(i) == (i + 1) % Size

Goto(t, location) == pc' = [pc EXCEPT ![t] = location]

CurrentItem(w) == <<w, produced[w] + 1>>

Init ==
  /\ status = [s \in Slots |-> NoData]
  /\ data = [s \in Slots |-> Blank]
  /\ writeIndex = 0
  /\ readIndex = 0
  /\ pc = [t \in Threads |-> "idle"]
  /\ idx = [t \in Threads |-> 0]
  /\ produced = [w \in Writers |-> 0]
  /\ delivered = << >>

-----------------------------------------------------------------------------
(* getWriteSlot: the load of writeIndex_, also taken again by "continue".  *)
WriteLoad(w) ==
  /\ pc[w] = "idle"
  /\ produced[w] < MaxItems
  /\ idx' = [idx EXCEPT ![w] = writeIndex]
  /\ Goto(w, "check")
  /\ UNCHANGED <<status, data, writeIndex, readIndex, produced, delivered>>

(* The slot at the loaded index is being written: look again.              *)
WriteRetry(w) ==
  /\ pc[w] = "check"
  /\ status[idx[w]] = Writing
  /\ idx' = [idx EXCEPT ![w] = writeIndex]
  /\ UNCHANGED <<status, data, writeIndex, readIndex, pc, produced, delivered>>

(* The slot still holds data: getWriteSlot returns nullptr.                *)
WriteRefused(w) ==
  /\ pc[w] = "check"
  /\ status[idx[w]] \in {Valid, Reading}
  /\ Goto(w, "idle")
  /\ UNCHANGED <<status, data, writeIndex, readIndex, idx, produced, delivered>>

WriteFree(w) ==
  /\ pc[w] = "check"
  /\ status[idx[w]] = NoData
  /\ Goto(w, "claim")
  /\ UNCHANGED <<status, data, writeIndex, readIndex, idx, produced, delivered>>

(* A mistake: the slot is marked as holding data before it is filled.      *)
WriteClaimPublishing(w) ==
  /\ pc[w] = "claim"
  /\ status[idx[w]] = NoData
  /\ status' = [status EXCEPT ![idx[w]] = Valid]
  /\ Goto(w, "advance")
  /\ UNCHANGED <<data, writeIndex, readIndex, idx, produced, delivered>>

(* A mistake: a store in place of the compare-exchange.                    *)
WriteClaimBlind(w) ==
  /\ pc[w] = "claim"
  /\ status' = [status EXCEPT ![idx[w]] = Writing]
  /\ Goto(w, "advance")
  /\ UNCHANGED <<data, writeIndex, readIndex, idx, produced, delivered>>

(* compare_exchange_strong(NO_DATA, DATA_WRITING) succeeds.                *)
WriteClaim(w) ==
  /\ pc[w] = "claim"
  /\ status[idx[w]] = NoData
  /\ status' = [status EXCEPT ![idx[w]] = Writing]
  /\ Goto(w, "advance")
  /\ UNCHANGED <<data, writeIndex, readIndex, idx, produced, delivered>>

(* It fails: another thread changed the slot since the check.              *)
WriteClaimLost(w) ==
  /\ pc[w] = "claim"
  /\ status[idx[w]] # NoData
  /\ idx' = [idx EXCEPT ![w] = writeIndex]
  /\ Goto(w, "check")
  /\ UNCHANGED <<status, data, writeIndex, readIndex, produced, delivered>>

(* A mistake: the index is not moved.                                      *)
WriteAdvanceStuck(w) ==
  /\ pc[w] = "advance"
  /\ Goto(w, "access")
  /\ UNCHANGED <<status, data, writeIndex, readIndex, idx, produced, delivered>>

(* A plain store of the index after the loaded one, whatever the shared    *)
(* index has become in the meantime.                                       *)
WriteAdvance(w) ==
  /\ pc[w] = "advance"
  /\ writeIndex' = NextIndex(idx[w])
  /\ Goto(w, "access")
  /\ UNCHANGED <<status, data, readIndex, idx, produced, delivered>>

(* The caller fills the slot it was given.                                 *)
WriteData(w) ==
  /\ pc[w] = "access"
  /\ data' = [data EXCEPT ![idx[w]] = CurrentItem(w)]
  /\ Goto(w, "finish")
  /\ UNCHANGED <<status, writeIndex, readIndex, idx, produced, delivered>>

(* A mistake: the slot is left marked as being written.                    *)
WriteAbandon(w) ==
  /\ pc[w] = "finish"
  /\ produced' = [produced EXCEPT ![w] = @ + 1]
  /\ Goto(w, "idle")
  /\ UNCHANGED <<status, data, writeIndex, readIndex, idx, delivered>>

(* setWriteComplete.                                                       *)
WriteComplete(w) ==
  /\ pc[w] = "finish"
  /\ status' = [status EXCEPT ![idx[w]] = Valid]
  /\ produced' = [produced EXCEPT ![w] = @ + 1]
  /\ Goto(w, "idle")
  /\ UNCHANGED <<data, writeIndex, readIndex, idx, delivered>>

-----------------------------------------------------------------------------
(* getReadSlot, in the same steps on readIndex_.                           *)
ReadLoad(r) ==
  /\ pc[r] = "idle"
  /\ idx' = [idx EXCEPT ![r] = readIndex]
  /\ Goto(r, "check")
  /\ UNCHANGED <<status, data, writeIndex, readIndex, produced, delivered>>

ReadRetry(r) ==
  /\ pc[r] = "check"
  /\ status[idx[r]] = Reading
  /\ idx' = [idx EXCEPT ![r] = readIndex]
  /\ UNCHANGED <<status, data, writeIndex, readIndex, pc, produced, delivered>>

(* Nothing to read in that slot: getReadSlot returns nullptr.              *)
ReadRefused(r) ==
  /\ pc[r] = "check"
  /\ status[idx[r]] \in {NoData, Writing}
  /\ Goto(r, "idle")
  /\ UNCHANGED <<status, data, writeIndex, readIndex, idx, produced, delivered>>

ReadReady(r) ==
  /\ pc[r] = "check"
  /\ status[idx[r]] = Valid
  /\ Goto(r, "claim")
  /\ UNCHANGED <<status, data, writeIndex, readIndex, idx, produced, delivered>>

(* A mistake: a store in place of the compare-exchange.                    *)
ReadClaimBlind(r) ==
  /\ pc[r] = "claim"
  /\ status' = [status EXCEPT ![idx[r]] = Reading]
  /\ Goto(r, "advance")
  /\ UNCHANGED <<data, writeIndex, readIndex, idx, produced, delivered>>

ReadClaim(r) ==
  /\ pc[r] = "claim"
  /\ status[idx[r]] = Valid
  /\ status' = [status EXCEPT ![idx[r]] = Reading]
  /\ Goto(r, "advance")
  /\ UNCHANGED <<data, writeIndex, readIndex, idx, produced, delivered>>

ReadClaimLost(r) ==
  /\ pc[r] = "claim"
  /\ status[idx[r]] # Valid
  /\ idx' = [idx EXCEPT ![r] = readIndex]
  /\ Goto(r, "check")
  /\ UNCHANGED <<status, data, writeIndex, readIndex, produced, delivered>>

(* Mistakes: the index moves by two, or not at all.                        *)
ReadAdvanceTwice(r) ==
  /\ pc[r] = "advance"
  /\ readIndex' = NextIndex(NextIndex(idx[r]))
  /\ Goto(r, "access")
  /\ UNCHANGED <<status, data, writeIndex, idx, produced, delivered>>

ReadAdvanceStuck(r) ==
  /\ pc[r] = "advance"
  /\ Goto(r, "access")
  /\ UNCHANGED <<status, data, writeIndex, readIndex, idx, produced, delivered>>

ReadAdvance(r) ==
  /\ pc[r] = "advance"
  /\ readIndex' = NextIndex(idx[r])
  /\ Goto(r, "access")
  /\ UNCHANGED <<status, data, writeIndex, idx, produced, delivered>>

(* The caller uses the content of the slot.                                *)
ReadData(r) ==
  /\ pc[r] = "access"
  /\ delivered' = Append(delivered, data[idx[r]])
  /\ Goto(r, "finish")
  /\ UNCHANGED <<status, data, writeIndex, readIndex, idx, produced>>

(* setReadComplete.                                                        *)
ReadComplete(r) ==
  /\ pc[r] = "finish"
  /\ status' = [status EXCEPT ![idx[r]] = NoData]
  /\ Goto(r, "idle")
  /\ UNCHANGED <<data, writeIndex, readIndex, idx, produced, delivered>>

-----------------------------------------------------------------------------
(* What a writer that has started a call goes on to do by itself.          *)
WriteContinue(w) ==
  \/ WriteRetry(w) \/ WriteRefused(w) \/ WriteFree(w)
  \/ WriteClaim(w) \/ WriteClaimLost(w) \/ WriteAdvance(w)
  \/ WriteData(w) \/ WriteComplete(w)

Write(w) == WriteLoad(w) \/ WriteContinue(w)

Read(r) ==
  \/ ReadLoad(r) \/ ReadRetry(r) \/ ReadRefused(r) \/ ReadReady(r)
  \/ ReadClaim(r) \/ ReadClaimLost(r) \/ ReadAdvance(r)
  \/ ReadData(r) \/ ReadComplete(r)

Next ==
  \/ \E w \in Writers : Write(w)
  \/ \E r \in Readers : Read(r)

(* A thread inside a call is never descheduled for ever, and the reading   *)
(* threads poll the ring in their exec loops.  No writer has to write.     *)
Fairness ==
  /\ \A w \in Writers : WF_vars(WriteContinue(w))
  /\ \A r \in Readers : WF_vars(Read(r))

Spec == Init /\ [][Next]_vars
FairSpec == Spec /\ Fairness

-----------------------------------------------------------------------------
(* The types, and: only a writer with an item left to put is in a call.     *)
TypeOK ==
  /\ status \in [Slots -> DataStatus]
  /\ data \in [Slots -> Item \cup {Blank}]
  /\ writeIndex \in Slots
  /\ readIndex \in Slots
  /\ pc \in [Threads -> Location]
  /\ idx \in [Threads -> Slots]
  /\ produced \in [Writers -> 0 .. MaxItems]
  /\ delivered \in Seq(Item)

(* The slot is between a successful compare-exchange of t and the call     *)
(* that completes it.                                                      *)
Owns(t) == pc[t] \in {"advance", "access", "finish"}

(* No two threads ever use one slot at the same time, whatever the stale   *)
(* indices they loaded: the slot a writer fills is marked DATA_WRITING and *)
(* the slot a reader uses DATA_READING for as long as it is used.          *)
SlotExclusive ==
  /\ \A t, u \in Threads : Owns(t) /\ Owns(u) /\ t # u => idx[t] # idx[u]
  /\ \A w \in Writers : Owns(w) => status[idx[w]] = Writing
  /\ \A r \in Readers : Owns(r) => status[idx[r]] = Reading

(* A slot whose item is complete and not yet used by a reader.             *)
Holding(s) ==
  \/ status[s] = Valid
  \/ \E r \in Readers : idx[r] = s /\ pc[r] \in {"advance", "access"}

Published == {i \in Item : i[2] <= produced[i[1]]}
Delivered == {delivered[n] : n \in 1 .. Len(delivered)}

(* An item whose write was completed is in exactly one place: it waits in  *)
(* one slot, or it has been delivered.  Nothing is overwritten and nothing *)
(* else is ever delivered.                                                 *)
NothingLost ==
  Published = Delivered \cup {data[s] : s \in {x \in Slots : Holding(x)}}

(* No item is delivered twice, waits in two slots, or still waits after it *)
(* was delivered.                                                          *)
NothingDuplicated ==
  /\ \A m, n \in 1 .. Len(delivered) : m # n => delivered[m] # delivered[n]
  /\ \A s \in Slots : Holding(s) => data[s] \notin Delivered
  /\ \A s, x \in Slots :
       Holding(s) /\ Holding(x) /\ s # x => data[s] # data[x]

(* The state no thread gets out of: every call of a writer is refused      *)
(* ("full") and every call of a reader too ("empty"), with items inside.   *)
Wedged ==
  /\ \A t \in Threads : pc[t] = "idle"
  /\ status[writeIndex] = Valid
  /\ status[readIndex] = NoData

(* A refused writer means a full queue (ExecutionEngine.cpp:80 "the queue   *)
(* is full"), so a reader that comes now is given an item: the ring never  *)
(* refuses everyone.                                                       *)
NeverWedged == ~Wedged

(* getWriteSlot answers nullptr only when every slot holds an item that is *)
(* waiting or being read (one writer).                                     *)
RefusedOnlyWhenFull ==
  [][\A w \in Writers : WriteRefused(w) =>
       \A s \in Slots : status[s] \in {Valid, Reading}]_vars

(* getReadSlot answers nullptr only when no completed item waits (one      *)
(* reader, one writer).                                                    *)
RefusedOnlyWhenEmpty ==
  [][\A r \in Readers : ReadRefused(r) =>
       \A s \in Slots : status[s] # Valid]_vars

(* The marks that make a caller look again are those of a thread inside a  *)
(* call: a slot is DATA_WRITING or DATA_READING only while the thread that *)
(* marked it still has it, so nobody waits for a thread that is gone.      *)
MarkedByOwner ==
  \A s \in Slots :
    /\ status[s] = Writing => \E w \in Writers : Owns(w) /\ idx[w] = s
    /\ status[s] = Reading => \E r \in Readers : Owns(r) /\ idx[r] = s

(* The loops of getWriteSlot and getReadSlot are lock-free, not wait-free: *)
(* a call comes to an end if the other threads claim slots only finitely   *)
(* often from some time on; nothing limits how often a call may lose the   *)
(* compare-exchange to others that claim for ever.                         *)
Claiming(t) ==
  \/ t \in Writers /\ WriteClaim(t)
  \/ t \in Readers /\ ReadClaim(t)

CallsReturn ==
  \A t \in Threads :
    <>[][\A u \in Threads \ {t} : ~Claiming(u)]_vars => ((pc[t] # "idle") ~> (pc[t] = "idle"))

(* Every item whose write was completed is eventually delivered.           *)
EverythingDelivered ==
  \A i \in Item : (i \in Published) ~> (i \in Delivered)

=============================================================================
