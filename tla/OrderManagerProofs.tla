------------------------- MODULE OrderManagerProofs -------------------------
(***************************************************************************)
(* Proofs about OrderManager, for any number of slots, ids, volumes and    *)
(* prices, with or without lost and repeated reports: the types, that the  *)
(* free list stays sound, and that reports find their orders.              *)
(***************************************************************************)
EXTENDS OrderManager, FiniteSetTheorems, TLAPS

(* A report after which the order is over.                                 *)
Terminal(m) ==
  \/ m.type \in {"REJECTED", "CANCELED"}
  \/ m.type = "TRADE" /\ m.full

Refusal(m) == m.type \in {"CANCEL_REJECT", "REPLACE_REJECT"}

Used == 1 .. currentOrderID - 1
Older == 0 .. currentOrderID - 1
Places == 1 .. Len(requests)

(* Only ids that were issued occur anywhere.                               *)
Fresh ==
  /\ live \subseteq Used
  /\ \A s \in Slots : orderEntries[s].orderId \in Older
  /\ \A o \in Ids : book[o].clid \in Older
  /\ \A o \in Ids : book[o].state # "none" => o \in Used
  /\ \A n \in Places : requests[n].id \in Used /\ requests[n].order \in Used
  /\ lastReport.id \in Older /\ lastReport.order \in Older

(* The order an id was issued for, wherever the id occurs.                 *)
Parents ==
  /\ \A i \in Used : parent[i] \in Used /\ parent[parent[i]] = parent[i]
  /\ \A o \in Ids : book[o].state # "none" =>
       parent[o] = o /\ book[o].clid \in Used /\ parent[book[o].clid] = o
  /\ \A n \in Places : parent[requests[n].id] = requests[n].order
  /\ lastReport.type # "NONE" =>
       /\ lastReport.id \in Used
       /\ parent[lastReport.id] = lastReport.order

(* An id issued for an order that is not over leads to that order, or      *)
(* nowhere.                                                                *)
Links ==
  \A i \in Used :
    HasEntry(i) /\ parent[i] \in live => Holds(SlotOf(i), parent[i])

(* The ids of the requests that are under way.                             *)
Queue ==
  /\ \A n \in Places : requests[n].kind = "new" =>
       requests[n].id = requests[n].order
         /\ book[requests[n].order].state = "sent"
  /\ \A n \in Places : requests[n].kind # "new" =>
       /\ requests[n].id # requests[n].order
       /\ \A o \in Ids : book[o].clid # requests[n].id
  /\ \A m, n \in Places : m # n => requests[m].id # requests[n].id

(* An order the broker may still fill is not over for the manager.         *)
BookLive ==
  /\ \A o \in Ids : book[o].state \in {"sent", "open"} => o \in live
  /\ \A o \in live : book[o].state # "none"

(* What the last report, which may come again, can still change.           *)
ReportSafe ==
  /\ Terminal(lastReport) =>
       /\ book[lastReport.order].state \notin {"sent", "open"}
       /\ HasEntry(lastReport.id) => lastReport.order \in live
  /\ lastReport.type = "REJECTED" => lastReport.id = lastReport.order
  /\ lastReport.type = "REPLACED" =>
       /\ lastReport.id # lastReport.order
       /\ book[lastReport.order].state = "open"
       /\ book[lastReport.order].clid = lastReport.id
  /\ Refusal(lastReport) =>
       /\ \A n \in Places : requests[n].id # lastReport.id
       /\ \A o \in Ids : book[o].clid # lastReport.id

(* The inductive invariant.                                                *)
IInv ==
  /\ TypeOK
  /\ Fresh
  /\ Parents
  /\ Links
  /\ Queue
  /\ BookLive
  /\ ReportSafe
  /\ SlotsSound
  /\ ReportsFindOrder

-----------------------------------------------------------------------------
(* The totals stay integers, whatever is added to them.                    *)
LEMMA AddToEntry ==
  ASSUME NEW f \in [Side -> Int], NEW side, NEW n \in Int
  PROVE  [f EXCEPT ![side] = @ + n] \in [Side -> Int]
<1> DEFINE g == [f EXCEPT ![side] = @ + n]
<1>1. g = [d \in Side |-> IF d = side THEN f[side] + n ELSE f[d]]
  OBVIOUS
<1>2. \A d \in Side : (IF d = side THEN f[side] + n ELSE f[d]) \in Int
  OBVIOUS
<1> HIDE DEF g
<1>3. g \in [Side -> Int]
  BY <1>1, <1>2
<1>4. QED
  BY <1>3 DEF g

LEMMA AddPendingType ==
  ASSUME NEW t \in Totals, NEW side, NEW volume \in Int, NEW value \in Int
  PROVE  AddPending(t, side, volume, value) \in Totals
<1> DEFINE shares == [t.pendingShares EXCEPT ![side] = @ + volume]
           values == [t.pendingShareValues EXCEPT ![side] = @ + value]
<1>1. /\ t.pendingShares \in [Side -> Int]
      /\ t.pendingShareValues \in [Side -> Int]
  BY DEF Totals
<1>2. shares \in [Side -> Int]
  BY <1>1, AddToEntry
<1>3. values \in [Side -> Int]
  BY <1>1, AddToEntry
<1> HIDE DEF shares, values
<1>4. [t EXCEPT !.pendingShares = shares, !.pendingShareValues = values]
        \in Totals
  BY <1>2, <1>3 DEF Totals
<1>5. AddPending(t, side, volume, value) =
        [t EXCEPT !.pendingShares = shares, !.pendingShareValues = values]
  BY DEF AddPending, Totals, shares, values
<1>6. QED
  BY <1>4, <1>5

LEMMA AddCancellingType ==
  ASSUME NEW t \in Totals, NEW side, NEW volume \in Int
  PROVE  AddCancelling(t, side, volume) \in Totals
<1> DEFINE shares == [t.pendingCancellations EXCEPT ![side] = @ + volume]
<1>1. t.pendingCancellations \in [Side -> Int]
  BY DEF Totals
<1>2. shares \in [Side -> Int]
  BY <1>1, AddToEntry
<1> HIDE DEF shares
<1>3. [t EXCEPT !.pendingCancellations = shares] \in Totals
  BY <1>2 DEF Totals
<1>4. AddCancelling(t, side, volume) = [t EXCEPT !.pendingCancellations = shares]
  BY DEF AddCancelling, Totals, shares
<1>5. QED
  BY <1>3, <1>4

LEMMA FillType ==
  ASSUME NEW t \in Totals, NEW side, NEW price \in Int, NEW volume \in Int
  PROVE  onOrderFill(t, side, price, volume) \in Totals
<1>1. /\ volume * price \in Int /\ -volume \in Int
      /\ -(volume * price) \in Int
  OBVIOUS
<1> DEFINE u == AddPending(t, side, -volume, -(volume * price))
<1>2. u \in Totals
  BY <1>1, AddPendingType
<1> HIDE DEF u
<1>3. [u EXCEPT !.ownShares = IF side = "BUY" THEN @ + volume ELSE @ - volume]
        \in Totals
  BY <1>2 DEF Totals
<1>4. QED
  BY <1>3 DEF onOrderFill, u

LEMMA AddTradeType ==
  ASSUME NEW t \in Trades, NEW side, NEW limit \in Int, NEW paid \in Int
  PROVE  AddTrade(t, side, limit, paid) \in Trades
<1> DEFINE limits == [t.limit EXCEPT ![side] = @ + limit]
           pays == [t.paid EXCEPT ![side] = @ + paid]
<1>1. t.limit \in [Side -> Int] /\ t.paid \in [Side -> Int]
  BY DEF Trades
<1>2. limits \in [Side -> Int]
  BY <1>1, AddToEntry
<1>3. pays \in [Side -> Int]
  BY <1>1, AddToEntry
<1> HIDE DEF limits, pays
<1>4. [t EXCEPT !.limit = limits, !.paid = pays] \in Trades
  BY <1>2, <1>3 DEF Trades
<1>5. AddTrade(t, side, limit, paid) =
        [t EXCEPT !.limit = limits, !.paid = pays]
  BY DEF AddTrade, Trades, limits, pays
<1>6. QED
  BY <1>4, <1>5

(* Costs are integers.                                                     *)
LEMMA CostType ==
  ASSUME NEW price \in Int, NEW volume \in Int, NEW side
  PROVE  calculateCost(price, volume, side) \in Int
<1>1. price * volume \in Int
  OBVIOUS
<1>2. CommissionRate \div PriceScale \in Int
  BY DEF CommissionRate, PriceScale
<1>3. calculateCommission(price, volume) \in Int
  BY <1>1, <1>2 DEF calculateCommission
<1>4. QED
  BY <1>1, <1>3 DEF calculateCost

-----------------------------------------------------------------------------
(* A report of the broker, as it is emitted.                               *)
ProperReport ==
  [type : ReportType \ {"NONE"}, id : Ids, order : Ids, side : Side,
   qty : Nat, price : Nat, cum : Nat, full : BOOLEAN]

EntryTypes ==
  /\ orderIDVsEntryMap \in [0 .. MaxOrders - 1 -> Slots \cup {orderEntryEnd}]
  /\ orderEntries \in [Slots -> OrderEntry]

(* Changing the status of an entry, its fill or its terms keeps its id.    *)
SameIds == \A s \in Slots : orderEntries'[s].orderId = orderEntries[s].orderId

(* The end marker is no slot, and the id of a report is in the map.        *)
LEMMA EntryFound ==
  ASSUME EntryTypes, NEW i \in Ids, HasEntry(i)
  PROVE  SlotOf(i) \in Slots /\ EntryOf(i) \in OrderEntry
BY MaxOrdersAssumption, OrderSlotsAssumption
   DEF EntryTypes, HasEntry, SlotOf, EntryOf, Ids, Slots, orderEntryEnd

LEMMA EntryUpdate ==
  ASSUME EntryTypes, NEW s \in Slots, NEW r \in OrderEntry,
         r.orderId = orderEntries[s].orderId,
         orderEntries' = [orderEntries EXCEPT ![s] = r]
  PROVE  orderEntries' \in [Slots -> OrderEntry] /\ SameIds
<1>1. orderEntries \in [Slots -> OrderEntry]
  BY DEF EntryTypes
<1>2. \A t \in Slots : orderEntries'[t] = IF t = s THEN r ELSE orderEntries[t]
  BY <1>1
<1>3. orderEntries' \in [Slots -> OrderEntry]
  BY <1>1
<1>4. SameIds
  BY <1>2 DEF SameIds
<1>5. QED
  BY <1>3, <1>4

LEMMA StatusUpdate ==
  ASSUME EntryTypes, NEW s \in Slots, NEW st \in SUBSET OrderStatus,
         orderEntries' = [orderEntries EXCEPT ![s].status = st]
  PROVE  orderEntries' \in [Slots -> OrderEntry] /\ SameIds
BY DEF EntryTypes, OrderEntry, SameIds

LEMMA FillUpdate ==
  ASSUME EntryTypes, NEW s \in Slots, NEW st \in SUBSET OrderStatus,
         NEW filled \in Nat,
         orderEntries' = [orderEntries EXCEPT ![s].filled = filled,
                                              ![s].status = st]
  PROVE  orderEntries' \in [Slots -> OrderEntry] /\ SameIds
BY DEF EntryTypes, OrderEntry, SameIds

LEMMA TermsUpdate ==
  ASSUME EntryTypes, NEW s \in Slots, NEW st \in SUBSET OrderStatus,
         NEW volume \in Nat, NEW price \in Nat,
         orderEntries' = [orderEntries EXCEPT ![s].volume = volume,
                                              ![s].price = price,
                                              ![s].status = st]
  PROVE  orderEntries' \in [Slots -> OrderEntry] /\ SameIds
<1> DEFINE r == [orderEntries[s] EXCEPT !.volume = volume, !.price = price,
                                        !.status = st]
<1>1. orderEntries[s] \in OrderEntry
  BY DEF EntryTypes
<1>2. r \in OrderEntry /\ r.orderId = orderEntries[s].orderId
  BY <1>1 DEF OrderEntry
<1>3. orderEntries' = [orderEntries EXCEPT ![s] = r]
  BY DEF EntryTypes
<1> HIDE DEF r
<1>4. QED
  BY <1>2, <1>3, EntryUpdate

LEMMA PendingTermsUpdate ==
  ASSUME EntryTypes, NEW s \in Slots, NEW st \in SUBSET OrderStatus,
         NEW volume \in Nat, NEW price \in Nat,
         orderEntries' = [orderEntries EXCEPT ![s].status = st,
                                              ![s].newPrice = price,
                                              ![s].newVolume = volume]
  PROVE  orderEntries' \in [Slots -> OrderEntry] /\ SameIds
<1> DEFINE r == [orderEntries[s] EXCEPT !.status = st, !.newPrice = price,
                                        !.newVolume = volume]
<1>1. orderEntries[s] \in OrderEntry
  BY DEF EntryTypes
<1>2. r \in OrderEntry /\ r.orderId = orderEntries[s].orderId
  BY <1>1 DEF OrderEntry
<1>3. orderEntries' = [orderEntries EXCEPT ![s] = r]
  BY DEF EntryTypes
<1> HIDE DEF r
<1>4. QED
  BY <1>2, <1>3, EntryUpdate

(* The ids that lead nowhere after a report, and the marker stays.         *)
LEMMA ForgetTypes ==
  ASSUME EntryTypes, NEW ids, Forget(ids)
  PROVE  /\ orderIDVsEntryMap' \in
              [0 .. MaxOrders - 1 -> Slots \cup {orderEntryEnd}]
         /\ \A i \in Ids : HasEntry(i)' <=> HasEntry(i) /\ i \notin ids
         /\ \A i \in Ids : i \notin ids => SlotOf(i)' = SlotOf(i)
BY DEF EntryTypes, Forget, HasEntry, SlotOf, Ids

-----------------------------------------------------------------------------
(* What a report does to the ids and the slots: it keeps the slots and     *)
(* forgets at most one id that no live order needs, or it ends its order.  *)
Keeps(m) ==
  /\ UNCHANGED <<freeEntries, freeEntryPtr, live>>
  /\ \/ UNCHANGED orderIDVsEntryMap
     \/ Refusal(m) /\ Forget({m.id})
     \/ m.type = "REPLACED" /\ Forget({m.order})
  /\ Terminal(m) =>
       /\ UNCHANGED orderIDVsEntryMap
       /\ HasEntry(m.id) => m.order \in live

Releases(m) ==
  /\ Terminal(m)
  /\ m.order \in live
  /\ live' = live \ {m.order}
  /\ \E s \in Slots : Holds(s, m.order) /\ ReleaseSlot(s)
  /\ Forget({m.id}) \/ Forget({m.order, m.id})

(* The facts about a report that its handler relies on.                    *)
Justified(m) ==
  /\ m \in ProperReport
  /\ Terminal(m) /\ HasEntry(m.id) => m.order \in live
  /\ m.type = "REPLACED" => m.order \in live
  /\ m.type = "REJECTED" => m.id = m.order
  /\ m.order \in live /\ HasEntry(m.id) => Holds(SlotOf(m.id), m.order)

(* Every handler keeps the types of the entries, the totals and the        *)
(* balance, and has one of the two effects.                                *)
HandledWell(m) ==
  /\ orderIDVsEntryMap' \in [0 .. MaxOrders - 1 -> Slots \cup {orderEntryEnd}]
  /\ orderEntries' \in [Slots -> OrderEntry]
  /\ SameIds
  /\ totals' \in Totals /\ symbol' \in Totals
  /\ currentBalance' \in Int
  /\ fault' \in {"none", "order id", "free entry", "division"}
  /\ traded' \in Trades
  /\ misEdited' \in BOOLEAN
  /\ Keeps(m) \/ Releases(m)

LEMMA Unhandled ==
  ASSUME TypeOK, NEW m, Justified(m), UNCHANGED handled
  PROVE  HandledWell(m)
BY DEF TypeOK, Justified, handled, HandledWell, SameIds, Keeps

LEMMA AckEffect ==
  ASSUME TypeOK, NEW m, Justified(m), HasEntry(m.id),
         m.type = "NEW", handleSingleOrderAck(m)
  PROVE  HandledWell(m)
<1>1. EntryTypes /\ m.id \in Ids
  BY DEF TypeOK, EntryTypes, Justified, ProperReport
<1>2. SlotOf(m.id) \in Slots
  BY <1>1, EntryFound
<1>3. orderEntries' = [orderEntries EXCEPT ![SlotOf(m.id)].status = {"NEW"}]
  BY DEF handleSingleOrderAck
<1>4. {"NEW"} \in SUBSET OrderStatus
  BY DEF OrderStatus
<1>5. orderEntries' \in [Slots -> OrderEntry] /\ SameIds
  BY <1>1, <1>2, <1>3, <1>4, StatusUpdate
<1>6. Keeps(m)
  BY DEF handleSingleOrderAck, Keeps, Terminal
<1>7. QED
  BY <1>5, <1>6 DEF TypeOK, HandledWell, handleSingleOrderAck

LEMMA SingleRejectEffect ==
  ASSUME TypeOK, NEW m, Justified(m), HasEntry(m.id),
         m.type = "REJECTED", handleSingleOrderReject(m)
  PROVE  HandledWell(m)
<1> DEFINE e == EntryOf(m.id)
           volume == Unfilled(e)
<1>1. EntryTypes /\ m.id \in Ids /\ m.id = m.order
  BY DEF TypeOK, EntryTypes, Justified, ProperReport
<1>2. SlotOf(m.id) \in Slots /\ e \in OrderEntry
  BY <1>1, EntryFound
<1>3. Terminal(m) /\ m.order \in live /\ e.orderId = m.order
  BY <1>1 DEF Terminal, Justified, Holds, EntryOf
<1>4. /\ e.price \in Int /\ volume \in Int
      /\ -volume \in Int /\ volume * e.price \in Int
      /\ -(volume * e.price) \in Int
  BY <1>2 DEF OrderEntry, Unfilled
<1>5. {"REJECTED"} \in SUBSET OrderStatus
  BY DEF OrderStatus
<1>6. orderEntries' \in [Slots -> OrderEntry] /\ SameIds
  BY <1>1, <1>2, <1>5, StatusUpdate DEF handleSingleOrderReject
<1>7. Forget({m.id}) /\ ReleaseSlot(SlotOf(m.id)) /\ live' = live \ {m.order}
  BY <1>1, <1>3 DEF handleSingleOrderReject
<1>8. totals' \in Totals /\ symbol' \in Totals
  BY <1>4, AddPendingType DEF TypeOK, handleSingleOrderReject, onSingleOrderReject
<1>9. currentBalance' \in Int
  <2>1. calculateCost(e.price, volume, e.side) \in Int
    BY <1>4, CostType
  <2>2. currentBalance' = currentBalance + calculateCost(e.price, volume, e.side)
    BY DEF handleSingleOrderReject
  <2>3. currentBalance \in Int
    BY DEF TypeOK
  <2> HIDE DEF e, volume
  <2>4. QED
    BY <2>1, <2>2, <2>3
<1>10. Releases(m)
  BY <1>1, <1>2, <1>3, <1>7 DEF Releases, Holds, EntryOf
<1>11. QED
  BY <1>1, <1>6, <1>7, <1>8, <1>9, <1>10, ForgetTypes
     DEF TypeOK, HandledWell, handleSingleOrderReject

LEMMA FillEffect ==
  ASSUME TypeOK, NEW m, Justified(m), HasEntry(m.id),
         m.type = "TRADE", handleOrderFill(m)
  PROVE  HandledWell(m)
<1> DEFINE slot == SlotOf(m.id)
           e == EntryOf(m.id)
<1>1. /\ EntryTypes /\ m.id \in Ids
      /\ m.qty \in Nat /\ m.price \in Nat /\ m.full \in BOOLEAN
  BY DEF TypeOK, EntryTypes, Justified, ProperReport
<1>2. slot \in Slots /\ e \in OrderEntry
  BY <1>1, EntryFound
<1>3. CASE ~Counts(m, e) /\ UNCHANGED handled
  BY <1>3, Unhandled
<1>4. CASE Abort("division") /\ UNCHANGED <<live, traded, misEdited>>
  <2>1. Keeps(m)
    BY <1>4 DEF Abort, Keeps, Justified
  <2>2. SameIds
    BY <1>4 DEF Abort, SameIds
  <2>3. QED
    BY <1>4, <2>1, <2>2 DEF TypeOK, HandledWell, Abort
<1>5. CASE
      /\ orderEntries' = [orderEntries EXCEPT
           ![slot].filled = e.filled + m.qty,
           ![slot].status = {IF m.full THEN "FILLED" ELSE "PARTIALLY_FILLED"}]
      /\ totals' = onOrderFill(totals, m.side, m.price, m.qty)
      /\ symbol' = onOrderFill(symbol, m.side, m.price, m.qty)
      /\ IF m.full
         THEN /\ ReleaseSlot(slot)
              /\ Forget({m.id})
              /\ live' = live \ {m.order}
         ELSE UNCHANGED <<freeEntries, freeEntryPtr, orderIDVsEntryMap, live>>
      /\ traded' = AddTrade(traded, m.side, m.qty * e.price, m.qty * m.price)
      /\ UNCHANGED <<currentBalance, fault, misEdited>>
  <2>1. {IF m.full THEN "FILLED" ELSE "PARTIALLY_FILLED"} \in SUBSET OrderStatus
    BY DEF OrderStatus
  <2>2. e.filled + m.qty \in Nat
    BY <1>1, <1>2 DEF OrderEntry
  <2>3. orderEntries' \in [Slots -> OrderEntry] /\ SameIds
    <3> HIDE DEF e, slot
    <3>1. QED
      BY <1>1, <1>2, <1>5, <2>1, <2>2, FillUpdate
  <2>4. totals' \in Totals /\ symbol' \in Totals
    <3>1. totals \in Totals /\ symbol \in Totals
      BY DEF TypeOK
    <3>2. m.qty \in Int /\ m.price \in Int
      BY <1>1
    <3> HIDE DEF e, slot
    <3>3. QED
      BY <1>5, <3>1, <3>2, FillType
  <2>5. traded' \in Trades
    <3>1. m.qty * e.price \in Int /\ m.qty * m.price \in Int
      BY <1>1, <1>2 DEF OrderEntry
    <3>2. traded \in Trades
      BY DEF TypeOK
    <3> HIDE DEF e
    <3>3. QED
      BY <1>5, <3>1, <3>2, AddTradeType
  <2>6. CASE m.full
    <3>1. Forget({m.id}) /\ ReleaseSlot(slot) /\ live' = live \ {m.order}
      BY <1>5, <2>6
    <3>2. Terminal(m) /\ m.order \in live /\ Holds(slot, m.order)
      BY <2>6 DEF Terminal, Justified
    <3>3. Releases(m)
      BY <1>2, <3>1, <3>2 DEF Releases
    <3>4. orderIDVsEntryMap' \in
            [0 .. MaxOrders - 1 -> Slots \cup {orderEntryEnd}]
      BY <1>1, <3>1, ForgetTypes
    <3>5. /\ currentBalance' \in Int /\ misEdited' \in BOOLEAN
          /\ fault' \in {"none", "order id", "free entry", "division"}
      BY <1>5 DEF TypeOK
    <3>6. QED
      BY <2>3, <2>4, <2>5, <3>3, <3>4, <3>5 DEF HandledWell
  <2>7. CASE ~m.full
    <3>1. Keeps(m)
      BY <1>5, <2>7 DEF Keeps, Terminal
    <3>2. QED
      BY <1>5, <2>3, <2>4, <2>5, <2>7, <3>1 DEF TypeOK, HandledWell
  <2>8. QED
    BY <2>6, <2>7
<1>6. QED
  BY <1>3, <1>4, <1>5 DEF handleOrderFill

LEMMA CanceledEffect ==
  ASSUME TypeOK, NEW m, Justified(m), HasEntry(m.id),
         m.type = "CANCELED", handleCanceledOrder(m)
  PROVE  HandledWell(m)
<1> DEFINE e == EntryOf(m.id)
           volume == Unfilled(e)
<1>1. EntryTypes /\ m.id \in Ids
  BY DEF TypeOK, EntryTypes, Justified, ProperReport
<1>2. SlotOf(m.id) \in Slots /\ e \in OrderEntry
  BY <1>1, EntryFound
<1>3. Terminal(m) /\ m.order \in live /\ e.orderId = m.order
  BY DEF Terminal, Justified, Holds, EntryOf
<1>4. /\ e.price \in Int /\ volume \in Int
      /\ -volume \in Int /\ -(volume * e.price) \in Int
  BY <1>2 DEF OrderEntry, Unfilled
<1>5. Forget({m.order, m.id}) /\ ReleaseSlot(SlotOf(m.id))
        /\ live' = live \ {m.order}
  BY <1>3 DEF handleCanceledOrder
<1>6. totals' \in Totals
  <2>1. AddCancelling(totals, e.side, -volume) \in Totals
    BY <1>4, AddCancellingType DEF TypeOK
  <2>2. AddPending(AddCancelling(totals, e.side, -volume), e.side, -volume, 0)
          \in Totals
    BY <1>4, <2>1, AddPendingType
  <2>3. QED
    BY <2>2 DEF handleCanceledOrder
<1>7. symbol' \in Totals
  <2>1. AddCancelling(symbol, e.side, -volume) \in Totals
    BY <1>4, AddCancellingType DEF TypeOK
  <2>2. onCancelOrderAck(symbol, e.side, e.price, volume) \in Totals
    BY <1>4, <2>1, AddPendingType DEF onCancelOrderAck
  <2>3. QED
    BY <2>2 DEF handleCanceledOrder
<1>8. currentBalance' \in Int
  <2>1. calculateCost(e.price, volume, e.side) \in Int
    BY <1>4, CostType
  <2>2. currentBalance' = currentBalance + calculateCost(e.price, volume, e.side)
    BY DEF handleCanceledOrder
  <2>3. currentBalance \in Int
    BY DEF TypeOK
  <2> HIDE DEF e, volume
  <2>4. QED
    BY <2>1, <2>2, <2>3
<1>9. Releases(m)
  BY <1>2, <1>3, <1>5 DEF Releases, Holds, EntryOf
<1>10. QED
  BY <1>1, <1>5, <1>6, <1>7, <1>8, <1>9, ForgetTypes
     DEF TypeOK, HandledWell, SameIds, handleCanceledOrder

LEMMA CancelRejectEffect ==
  ASSUME TypeOK, NEW m, Justified(m), HasEntry(m.id),
         m.type = "CANCEL_REJECT", handleCancelOrderReject(m)
  PROVE  HandledWell(m)
<1> DEFINE e == EntryOf(m.id)
           status == e.status \ {"PENDING_CANCEL"}
<1>1. EntryTypes /\ m.id \in Ids
  BY DEF TypeOK, EntryTypes, Justified, ProperReport
<1>2. SlotOf(m.id) \in Slots /\ e \in OrderEntry
  BY <1>1, EntryFound
<1>3. status \in SUBSET OrderStatus
  BY <1>2 DEF OrderEntry
<1>4. orderEntries' = [orderEntries EXCEPT ![SlotOf(m.id)].status = status]
  BY DEF handleCancelOrderReject, EntryOf
<1>5. orderEntries' \in [Slots -> OrderEntry] /\ SameIds
  <2> HIDE DEF status
  <2>1. QED
    BY <1>1, <1>2, <1>3, <1>4, StatusUpdate
<1>6. totals' \in Totals /\ symbol' \in Totals
  <2>1. -Unfilled(e) \in Int
    BY <1>2 DEF OrderEntry, Unfilled
  <2>2. QED
    BY <2>1, AddCancellingType
       DEF TypeOK, handleCancelOrderReject, onCancelOrderReject
<1>7. Keeps(m)
  BY DEF handleCancelOrderReject, Keeps, Terminal, Refusal
<1>8. Forget({m.id})
  BY DEF handleCancelOrderReject
<1>9. QED
  BY <1>1, <1>5, <1>6, <1>7, <1>8, ForgetTypes
     DEF TypeOK, HandledWell, handleCancelOrderReject

LEMMA EditAckEffect ==
  ASSUME TypeOK, NEW m, Justified(m), HasEntry(m.id),
         m.type = "REPLACED", handleEditOrderAck(m)
  PROVE  HandledWell(m)
<1> DEFINE e == EntryOf(m.id)
           status == e.status \ {"PENDING_REPLACE"}
<1>1. EntryTypes /\ m.id \in Ids
  BY DEF TypeOK, EntryTypes, Justified, ProperReport
<1>2. SlotOf(m.id) \in Slots /\ e \in OrderEntry
  BY <1>1, EntryFound
<1>3. /\ status \in SUBSET OrderStatus
      /\ e.newVolume \in Nat /\ e.newPrice \in Nat
  BY <1>2 DEF OrderEntry
<1>4. orderEntries' = [orderEntries EXCEPT
                         ![SlotOf(m.id)].volume = e.newVolume,
                         ![SlotOf(m.id)].price = e.newPrice,
                         ![SlotOf(m.id)].status = status]
  <2>1. orderEntries \in [Slots -> OrderEntry]
    BY <1>1 DEF EntryTypes
  <2>2. QED
    BY <1>2, <2>1 DEF handleEditOrderAck, EntryOf, OrderEntry
<1>5. orderEntries' \in [Slots -> OrderEntry] /\ SameIds
  <2> HIDE DEF e, status
  <2>1. QED
    BY <1>1, <1>2, <1>3, <1>4, TermsUpdate
<1>6. e.orderId = m.order
  BY DEF Justified, Holds, EntryOf
<1>7. Forget({m.order})
  BY <1>6 DEF handleEditOrderAck
<1>8. Keeps(m)
  BY <1>7 DEF handleEditOrderAck, Keeps, Terminal
<1>9. QED
  BY <1>1, <1>5, <1>7, <1>8, ForgetTypes
     DEF TypeOK, HandledWell, handleEditOrderAck

LEMMA EditCostType ==
  ASSUME NEW e \in OrderEntry, NEW price \in Nat, NEW volume \in Nat
  PROVE  EditCost(e, price, volume) \in Int
<1>1. /\ volume - e.filled \in Int /\ e.price \in Int
      /\ Unfilled(e) \in Int /\ price \in Int
  BY DEF OrderEntry, Unfilled
<1>2. /\ calculateCost(price, volume - e.filled, e.side) \in Int
      /\ calculateCost(e.price, Unfilled(e), e.side) \in Int
  BY <1>1, CostType
<1>3. QED
  BY <1>2 DEF EditCost

LEMMA EditRejectEffect ==
  ASSUME TypeOK, NEW m, Justified(m), HasEntry(m.id),
         m.type = "REPLACE_REJECT", handleEditOrderReject(m)
  PROVE  HandledWell(m)
<1> DEFINE e == EntryOf(m.id)
           status == e.status \ {"PENDING_REPLACE"}
           value == e.volume * e.price - e.newVolume * e.newPrice
           cost == EditCost(e, e.newPrice, e.newVolume)
<1>1. EntryTypes /\ m.id \in Ids
  BY DEF TypeOK, EntryTypes, Justified, ProperReport
<1>2. SlotOf(m.id) \in Slots /\ e \in OrderEntry
  BY <1>1, EntryFound
<1>3. /\ status \in SUBSET OrderStatus
      /\ e.volume - e.newVolume \in Int /\ value \in Int
      /\ e.newVolume \in Nat /\ e.newPrice \in Nat
  BY <1>2 DEF OrderEntry
<1>4. orderEntries' = [orderEntries EXCEPT ![SlotOf(m.id)].status = status]
  BY DEF handleEditOrderReject, EntryOf
<1>5. orderEntries' \in [Slots -> OrderEntry] /\ SameIds
  <2> HIDE DEF status
  <2>1. QED
    BY <1>1, <1>2, <1>3, <1>4, StatusUpdate
<1>6. totals' \in Totals /\ symbol' \in Totals
  <2>1. totals \in Totals /\ symbol \in Totals
    BY DEF TypeOK
  <2>2. /\ totals' = AddPending(totals, e.side, e.volume - e.newVolume, 0)
        /\ symbol' = AddPending(symbol, e.side, e.volume - e.newVolume, value)
    BY DEF handleEditOrderReject, onEditOrderReject
  <2> HIDE DEF e, value
  <2>3. QED
    BY <1>3, <2>1, <2>2, AddPendingType
<1>7. currentBalance' \in Int
  <2>1. cost \in Int
    BY <1>2, <1>3, EditCostType
  <2>2. currentBalance' = IF cost > 0 THEN currentBalance + cost
                                      ELSE currentBalance
    BY DEF handleEditOrderReject
  <2>3. currentBalance \in Int
    BY DEF TypeOK
  <2> HIDE DEF cost
  <2>4. QED
    BY <2>1, <2>2, <2>3
<1>8. misEdited' \in BOOLEAN
  BY DEF TypeOK, handleEditOrderReject
<1>9. Keeps(m)
  BY DEF handleEditOrderReject, Keeps, Terminal, Refusal
<1>10. Forget({m.id})
  BY DEF handleEditOrderReject
<1>11. QED
  BY <1>1, <1>5, <1>6, <1>7, <1>8, <1>9, <1>10, ForgetTypes
     DEF TypeOK, HandledWell, handleEditOrderReject

(* Whatever a report is, and whether or not it is handled.                 *)
LEMMA HandleEffect ==
  ASSUME TypeOK, NEW m, Justified(m), Handle(m) \/ UNCHANGED handled
  PROVE  HandledWell(m)
<1>1. CASE UNCHANGED handled
  BY <1>1, Unhandled
<1>2. CASE HasEntry(m.id) /\ m.type = "NEW" /\ handleSingleOrderAck(m)
  BY <1>2, AckEffect
<1>3. CASE HasEntry(m.id) /\ m.type = "REJECTED" /\ handleSingleOrderReject(m)
  BY <1>3, SingleRejectEffect
<1>4. CASE HasEntry(m.id) /\ m.type = "TRADE" /\ handleOrderFill(m)
  BY <1>4, FillEffect
<1>5. CASE HasEntry(m.id) /\ m.type = "CANCELED" /\ handleCanceledOrder(m)
  BY <1>5, CanceledEffect
<1>6. CASE HasEntry(m.id) /\ m.type = "REPLACED" /\ handleEditOrderAck(m)
  BY <1>6, EditAckEffect
<1>7. CASE HasEntry(m.id) /\ m.type = "CANCEL_REJECT"
             /\ handleCancelOrderReject(m)
  BY <1>7, CancelRejectEffect
<1>8. CASE HasEntry(m.id) /\ m.type = "REPLACE_REJECT"
             /\ handleEditOrderReject(m)
  BY <1>8, EditRejectEffect
<1>9. QED
  BY <1>1, <1>2, <1>3, <1>4, <1>5, <1>6, <1>7, <1>8 DEF Handle

-----------------------------------------------------------------------------
(* The free list under the effects of a report.                            *)

(* A slot in use leaves no room for every slot to be in the free list.     *)
LEMMA SlotInUse ==
  ASSUME freeEntries \in [Slots -> Slots], SlotsSound,
         NEW s \in Slots, orderEntries[s].orderId \in live
  PROVE  freeEntryPtr \in 1 .. OrderSlots
<1>1. OrderSlots \in Nat \ {0} /\ freeEntryPtr \in 0 .. OrderSlots
  BY OrderSlotsAssumption DEF SlotsSound
<1>2. SUFFICES ASSUME freeEntryPtr = 0 PROVE FALSE
  BY <1>1
<1>3. freeEntries \in Injection(Slots, Slots)
  BY <1>2 DEF SlotsSound, Slots, Injection, IsInjective
<1>4. IsFiniteSet(Slots)
  BY <1>1, FS_Interval DEF Slots
<1>5. freeEntries \in Surjection(Slots, Slots)
  BY <1>3, <1>4, FS_Injection
<1>6. s \in FreeSlots
  <2>1. PICK i \in Slots : freeEntries[i] = s
    BY <1>5 DEF Surjection
  <2>2. QED
    BY <1>2, <2>1 DEF FreeSlots, Slots
<1>7. QED
  BY <1>6 DEF SlotsSound

LEMMA SlotsKept ==
  ASSUME SlotsSound, SameIds, UNCHANGED <<freeEntries, freeEntryPtr, live>>
  PROVE  SlotsSound'
BY DEF SlotsSound, SameIds, FreeSlots, Holds

LEMMA SlotsReleased ==
  ASSUME freeEntries \in [Slots -> Slots], SlotsSound, SameIds,
         NEW o \in live, live' = live \ {o},
         NEW s \in Slots, Holds(s, o), ReleaseSlot(s)
  PROVE  SlotsSound' /\ freeEntries' \in [Slots -> Slots]
<1>1. /\ OrderSlots \in Nat \ {0}
      /\ freeEntryPtr \in 1 .. OrderSlots /\ freeEntryPtr - 1 \in Slots
  <2>1. orderEntries[s].orderId \in live
    BY DEF Holds
  <2>2. freeEntryPtr \in 1 .. OrderSlots
    BY <2>1, SlotInUse
  <2>3. QED
    BY <2>2, OrderSlotsAssumption DEF Slots
<1>2. /\ freeEntryPtr' = freeEntryPtr - 1
      /\ freeEntries' \in [Slots -> Slots]
      /\ \A i \in Slots : freeEntries'[i] =
           IF i = freeEntryPtr - 1 THEN s ELSE freeEntries[i]
  BY <1>1 DEF ReleaseSlot
<1>3. s \notin FreeSlots
  BY DEF SlotsSound, Holds
<1>4. FreeSlots' = FreeSlots \cup {s}
  <2>1. /\ \A i \in freeEntryPtr .. OrderSlots - 1 :
             i \in Slots /\ freeEntries'[i] = freeEntries[i]
        /\ freeEntries'[freeEntryPtr - 1] = s
    <3>1. \A i \in freeEntryPtr .. OrderSlots - 1 :
            i \in Slots /\ i # freeEntryPtr - 1
      BY <1>1 DEF Slots
    <3>2. QED
      BY <1>1, <1>2, <3>1
  <2>2. freeEntryPtr' .. OrderSlots - 1 =
          {freeEntryPtr - 1} \cup (freeEntryPtr .. OrderSlots - 1)
    BY <1>1, <1>2
  <2>3. FreeSlots' = {freeEntries'[i] : i \in freeEntryPtr' .. OrderSlots - 1}
    BY DEF FreeSlots
  <2>4. FreeSlots' = {freeEntries'[i] : i \in freeEntryPtr .. OrderSlots - 1}
                      \cup {freeEntries'[freeEntryPtr - 1]}
    <3> DEFINE new == freeEntryPtr' .. OrderSlots - 1
               old == freeEntryPtr .. OrderSlots - 1
    <3>1. new = {freeEntryPtr - 1} \cup old
      BY <2>2
    <3>2. FreeSlots' = {freeEntries'[i] : i \in new}
      BY <2>3
    <3> HIDE DEF new, old
    <3>3. FreeSlots' = {freeEntries'[i] : i \in old}
                        \cup {freeEntries'[freeEntryPtr - 1]}
      BY <3>1, <3>2
    <3>4. QED
      BY <3>3 DEF old
  <2>5. {freeEntries'[i] : i \in freeEntryPtr .. OrderSlots - 1} = FreeSlots
    BY <2>1 DEF FreeSlots
  <2>6. QED
    BY <2>1, <2>4, <2>5
<1>5. \A i, j \in (freeEntryPtr .. OrderSlots - 1)' :
        i # j => freeEntries'[i] # freeEntries'[j]
  <2>1. SUFFICES ASSUME NEW i \in freeEntryPtr - 1 .. OrderSlots - 1,
                        NEW j \in freeEntryPtr - 1 .. OrderSlots - 1,
                        i # j
                 PROVE  freeEntries'[i] # freeEntries'[j]
    BY <1>2
  <2>2. i \in Slots /\ j \in Slots
    BY <1>1 DEF Slots
  <2>3. \A k \in freeEntryPtr .. OrderSlots - 1 : freeEntries[k] # s
    BY <1>3 DEF FreeSlots
  <2>4. QED
    BY <1>1, <1>2, <2>1, <2>2, <2>3 DEF SlotsSound
<1>6. \A t \in Slots : t \in FreeSlots' <=> orderEntries'[t].orderId \notin live'
  BY <1>4 DEF SlotsSound, SameIds, Holds
<1>7. \A p \in live' : \E t \in Slots : Holds(t, p)'
  BY DEF SlotsSound, SameIds, Holds
<1>8. \A t, u \in Slots :
        t # u /\ orderEntries'[t].orderId = orderEntries'[u].orderId
          => orderEntries'[t].orderId \notin live'
  BY DEF SlotsSound, SameIds
<1>9. freeEntryPtr' \in 0 .. OrderSlots
  BY <1>1, <1>2
<1>10. QED
  BY <1>2, <1>5, <1>6, <1>7, <1>8, <1>9 DEF SlotsSound

(* Every report leaves the free list sound.                                *)
LEMMA HandledSlots ==
  ASSUME TypeOK, SlotsSound, NEW m, HandledWell(m)
  PROVE  /\ SlotsSound' /\ freeEntries' \in [Slots -> Slots]
         /\ live' \subseteq live
<1>1. freeEntries \in [Slots -> Slots] /\ SameIds
  BY DEF TypeOK, HandledWell
<1>2. CASE Keeps(m)
  BY <1>1, <1>2, SlotsKept DEF Keeps
<1>3. CASE Releases(m)
  BY <1>1, <1>3, SlotsReleased DEF Releases
<1>4. QED
  BY <1>2, <1>3 DEF HandledWell

-----------------------------------------------------------------------------
(* What a step that emits the report m, or sends it again, does to the     *)
(* requests and the book of the broker.                                    *)
Advance ==
  \/ UNCHANGED requests
  \/ requests # << >> /\ requests' = Tail(requests)

AnsweredWell(m) ==
  /\ m \in ProperReport /\ m.id \in Used /\ parent[m.id] = m.order
  /\ Advance
  /\ book' \in [Ids -> BookEntry]
  /\ \A o \in Ids : o # m.order => book'[o] = book[o]
  /\ book'[m.order].state = "none" <=> book[m.order].state = "none"
  /\ book'[m.order].state \in {"sent", "open"} =>
       book[m.order].state \in {"sent", "open"} /\ ~Terminal(m)
  /\ book'[m.order].clid =
       IF m.type = "REPLACED" THEN m.id ELSE book[m.order].clid
  /\ \A n \in Places' :
       requests'[n].kind = "new" /\ requests'[n].order = m.order
         => book'[m.order].state = "sent"
  /\ m.type = "REPLACED" =>
       /\ m.id # m.order
       /\ book[m.order].state = "open" /\ book'[m.order].state = "open"
       /\ \A n \in Places' : requests'[n].id # m.id
       /\ \A s \in Slots : Holds(s, m.order) =>
            HasEntry(m.id) /\ SlotOf(m.id) = s
  /\ Refusal(m) =>
       /\ \A n \in Places' : requests'[n].id # m.id
       /\ \A o \in Ids : book[o].clid # m.id

(* The requests that are left are among those that were there.             *)
LEMMA Advanced ==
  ASSUME requests \in Seq(Request), Advance
  PROVE  /\ requests' \in Seq(Request)
         /\ \E d \in {0, 1} :
              /\ Len(requests') = Len(requests) - d
              /\ \A n \in Places' :
                   n + d \in Places /\ requests'[n] = requests[n + d]
<1>1. CASE UNCHANGED requests
  BY <1>1 DEF Places
<1>2. CASE requests # << >> /\ requests' = Tail(requests)
  <2>1. /\ requests' \in Seq(Request) /\ Len(requests) \in Nat
        /\ Len(requests') = Len(requests) - 1
    BY <1>2
  <2>2. \A n \in Places' :
          n + 1 \in Places /\ requests'[n] = requests[n + 1]
    BY <1>2, <2>1 DEF Places
  <2>3. QED
    BY <2>1, <2>2
<1>3. QED
  BY <1>1, <1>2 DEF Advance

LEMMA IdsUsed ==
  ASSUME TypeOK, Parents, NEW i \in Used
  PROVE  /\ Used \subseteq Ids
         /\ parent[i] \in Used /\ parent[parent[i]] = parent[i]
<1>1. currentOrderID \in 1 .. MaxOrders /\ MaxOrders \in Nat
  BY MaxOrdersAssumption DEF TypeOK
<1>2. Used \subseteq Ids
  BY <1>1 DEF Used, Ids
<1>3. QED
  BY <1>2 DEF Parents

(* Ids only leave the map, and those of an order that is not over, other   *)
(* than the one the report is about, stay.                                 *)
LEMMA HandledIds ==
  ASSUME TypeOK, Parents, NEW m, HandledWell(m),
         m.id \in Used, parent[m.id] = m.order, NEW i \in Used
  PROVE  /\ HasEntry(i)' => HasEntry(i) /\ SlotOf(i)' = SlotOf(i)
         /\ /\ HasEntry(i) /\ parent[i] \in live'
            /\ Refusal(m) => i # m.id
            /\ m.type = "REPLACED" => i # m.order
            => HasEntry(i)' /\ SlotOf(i)' = SlotOf(i)
<1>1. EntryTypes /\ i \in Ids
  BY IdsUsed DEF TypeOK, EntryTypes
<1>2. parent[m.order] = m.order
  BY IdsUsed
<1>3. CASE UNCHANGED orderIDVsEntryMap
  BY <1>3 DEF HasEntry, SlotOf
<1>4. CASE Refusal(m) /\ Forget({m.id})
  BY <1>1, <1>4, ForgetTypes DEF HasEntry
<1>5. CASE m.type = "REPLACED" /\ Forget({m.order})
  BY <1>1, <1>5, ForgetTypes
<1>6. CASE Releases(m)
  <2>1. parent[m.id] \notin live' /\ parent[m.order] \notin live'
    BY <1>2, <1>6 DEF Releases
  <2>2. CASE Forget({m.id})
    BY <1>1, <2>1, <2>2, ForgetTypes
  <2>3. CASE Forget({m.order, m.id})
    BY <1>1, <2>1, <2>3, ForgetTypes
  <2>4. QED
    BY <1>6, <2>2, <2>3 DEF Releases
<1>7. QED
  BY <1>3, <1>4, <1>5, <1>6 DEF HandledWell, Keeps

(* Such a step preserves the invariant.                                    *)
LEMMA AnswerStep ==
  ASSUME IInv, NEW m, Justified(m), HandledWell(m), AnsweredWell(m),
         lastReport' = m, UNCHANGED <<currentOrderID, parent>>
  PROVE  IInv'
<1>1. /\ TypeOK /\ Fresh /\ Parents /\ Links /\ Queue /\ BookLive
      /\ SlotsSound /\ ReportsFindOrder
  BY DEF IInv
<1>2. /\ m.id \in Used /\ m.order \in Used /\ parent[m.id] = m.order
      /\ parent[m.order] = m.order /\ Used \subseteq Ids /\ Used' = Used
      /\ requests \in Seq(Request) /\ Advance
      /\ currentOrderID \in 1 .. MaxOrders
      /\ Older' = Older /\ Used \subseteq Older
  <2>1. m.id \in Used /\ parent[m.id] = m.order /\ Advance
    BY DEF AnsweredWell
  <2>2. Used \subseteq Ids /\ parent[m.id] \in Used
          /\ parent[parent[m.id]] = parent[m.id]
    BY <1>1, <2>1, IdsUsed
  <2>3. currentOrderID \in 1 .. MaxOrders /\ MaxOrders \in Nat
          /\ requests \in Seq(Request)
    BY <1>1, MaxOrdersAssumption DEF TypeOK
  <2>4. Used' = Used /\ Older' = Older
    BY DEF Used, Older
  <2>5. Used \subseteq Older
    BY <2>3 DEF Used, Older
  <2>6. QED
    BY <2>1, <2>2, <2>3, <2>4, <2>5
<1>3. /\ SlotsSound' /\ freeEntries' \in [Slots -> Slots]
      /\ live' \subseteq live /\ SameIds
  BY <1>1, HandledSlots DEF HandledWell
<1>4. requests' \in Seq(Request)
  BY <1>2, Advanced
<1>5. PICK d \in {0, 1} :
        /\ Len(requests') = Len(requests) - d
        /\ \A n \in Places' : n + d \in Places /\ requests'[n] = requests[n + d]
  BY <1>2, Advanced
<1>6. \A n \in Places' : \E k \in Places : requests'[n] = requests[k]
  BY <1>5
<1>7. \A i \in Used :
        /\ HasEntry(i)' => HasEntry(i) /\ SlotOf(i)' = SlotOf(i)
        /\ /\ HasEntry(i) /\ parent[i] \in live'
           /\ Refusal(m) => i # m.id
           /\ m.type = "REPLACED" => i # m.order
           => HasEntry(i)' /\ SlotOf(i)' = SlotOf(i)
  BY <1>1, <1>2, HandledIds
<1>8. TypeOK'
  <2>1. live' \subseteq Ids
    BY <1>1, <1>3 DEF TypeOK
  <2>2. /\ lastReport' \in
            [type : ReportType, id : {0} \cup Ids, order : {0} \cup Ids,
             side : Side, qty : Nat, price : Nat, cum : Nat, full : BOOLEAN]
        /\ currentOrderID' \in 1 .. MaxOrders /\ parent' \in [Ids -> Ids]
    BY <1>1 DEF TypeOK, Justified, ProperReport
  <2>3. freeEntryPtr' \in 0 .. OrderSlots
    BY <1>3 DEF SlotsSound
  <2>4. QED
    BY <1>3, <1>4, <2>1, <2>2, <2>3 DEF TypeOK, HandledWell, AnsweredWell
<1>9. Fresh'
  <2>1. live' \subseteq Used
    BY <1>1, <1>3 DEF Fresh
  <2>2. \A s \in Slots : orderEntries'[s].orderId \in Older
    BY <1>1, <1>3 DEF Fresh, SameIds
  <2>3. \A o \in Ids : book'[o].clid \in Older
    BY <1>1, <1>2 DEF Fresh, AnsweredWell
  <2>4. \A o \in Ids : book'[o].state # "none" => o \in Used
    BY <1>1 DEF Fresh, AnsweredWell
  <2>5. \A n \in Places' : requests'[n].id \in Used /\ requests'[n].order \in Used
    BY <1>1, <1>6 DEF Fresh
  <2>6. m.id \in Older /\ m.order \in Older
    BY <1>2
  <2>7. QED
    BY <1>2, <2>1, <2>2, <2>3, <2>4, <2>5, <2>6 DEF Fresh
<1>10. Parents'
  <2>1. \A o \in Ids : book'[o].state # "none" =>
          parent[o] = o /\ book'[o].clid \in Used /\ parent[book'[o].clid] = o
    BY <1>1, <1>2 DEF Parents, AnsweredWell
  <2>2. \A n \in Places' : parent[requests'[n].id] = requests'[n].order
    BY <1>1, <1>6 DEF Parents
  <2>3. QED
    BY <1>1, <1>2, <2>1, <2>2 DEF Parents
<1>11. Links'
  <2>1. SUFFICES ASSUME NEW i \in Used, HasEntry(i)', parent[i] \in live'
                 PROVE  Holds(SlotOf(i), parent[i])'
    BY <1>2 DEF Links
  <2>2. HasEntry(i) /\ SlotOf(i)' = SlotOf(i) /\ SlotOf(i) \in Slots
    BY <1>1, <1>2, <1>7, <2>1, EntryFound DEF TypeOK, EntryTypes
  <2>3. Holds(SlotOf(i), parent[i])
    BY <1>1, <1>3, <2>1, <2>2 DEF Links
  <2>4. QED
    BY <1>3, <2>2, <2>3 DEF Holds, SameIds
<1>12. Queue'
  <2>1. \A n \in Places' : requests'[n].kind = "new" =>
          /\ requests'[n].id = requests'[n].order
          /\ book'[requests'[n].order].state = "sent"
    <3>1. \A n \in Places' : requests'[n].order \in Ids
      BY <1>1, <1>2, <1>6 DEF Fresh
    <3>2. QED
      BY <1>1, <1>6, <3>1 DEF Queue, AnsweredWell
  <2>2. \A n \in Places' : requests'[n].kind # "new" =>
          /\ requests'[n].id # requests'[n].order
          /\ \A o \in Ids : book'[o].clid # requests'[n].id
    BY <1>1, <1>2, <1>6 DEF Queue, AnsweredWell
  <2>3. \A k, n \in Places' : k # n => requests'[k].id # requests'[n].id
    <3>1. SUFFICES ASSUME NEW k \in Places', NEW n \in Places', k # n
                   PROVE  requests'[k].id # requests'[n].id
      OBVIOUS
    <3>2. k + d # n + d
      BY <3>1 DEF Places
    <3>3. QED
      BY <1>1, <1>5, <3>1, <3>2 DEF Queue
  <2>4. QED
    BY <2>1, <2>2, <2>3 DEF Queue
<1>13. \A o \in Ids : book'[o].state \in {"sent", "open"} => o \in live'
  <2>1. SUFFICES ASSUME NEW o \in Ids, book'[o].state \in {"sent", "open"}
                 PROVE  o \in live'
    OBVIOUS
  <2>2. o \in live
    BY <1>1, <2>1 DEF BookLive, AnsweredWell
  <2>3. live' = live \/ (live' = live \ {m.order} /\ Terminal(m))
    BY DEF HandledWell, Keeps, Releases
  <2>4. o = m.order => ~Terminal(m)
    BY <2>1 DEF AnsweredWell
  <2>5. QED
    BY <2>2, <2>3, <2>4
<1>14. BookLive'
  <2>1. \A o \in live' : book'[o].state # "none"
    BY <1>1, <1>2, <1>3 DEF BookLive, AnsweredWell, Fresh
  <2>2. QED
    BY <1>13, <2>1 DEF BookLive
<1>15. ReportSafe'
  <2>1. Terminal(m) => book'[m.order].state \notin {"sent", "open"}
    BY DEF AnsweredWell
  <2>2. Terminal(m) /\ HasEntry(m.id)' => m.order \in live'
    <3>1. CASE Keeps(m)
      BY <3>1 DEF Keeps, Justified, HasEntry
    <3>2. CASE Releases(m)
      <4>1. EntryTypes /\ m.id \in Ids
        BY <1>1, <1>2 DEF TypeOK, EntryTypes
      <4>2. CASE Forget({m.id})
        BY <4>1, <4>2, ForgetTypes
      <4>3. CASE Forget({m.order, m.id})
        BY <4>1, <4>3, ForgetTypes
      <4>4. QED
        BY <3>2, <4>2, <4>3 DEF Releases
    <3>3. QED
      BY <3>1, <3>2 DEF HandledWell
  <2>3. Refusal(m) => \A o \in Ids : book'[o].clid # m.id
    BY DEF AnsweredWell, Refusal
  <2>4. QED
    BY <2>1, <2>2, <2>3
       DEF ReportSafe, Justified, AnsweredWell, Terminal, Refusal
<1>16. ReportsFindOrder'
  <2> DEFINE Leads(i, s) == HasEntry(i) /\ SlotOf(i) = s
             LeadsNow(i, s) == /\ orderIDVsEntryMap'[i] # orderEntryEnd
                               /\ orderIDVsEntryMap'[i] = s
  <2>1. SUFFICES ASSUME NEW o \in live', NEW s \in Slots, Holds(s, o)'
                 PROVE  /\ LeadsNow(book'[o].clid, s)
                        /\ \A n \in Places' : requests'[n].order = o =>
                             LeadsNow(requests'[n].id, s)
    BY DEF ReportsFindOrder, Places, HasEntry, SlotOf
  <2>2. o \in live /\ Holds(s, o) /\ o \in Ids /\ book[o].state # "none"
    BY <1>1, <1>2, <1>3, <2>1 DEF Holds, SameIds, BookLive, Fresh
  <2>3. ASSUME NEW i \in Used, Leads(i, s), parent[i] = o,
               Refusal(m) => i # m.id,
               m.type = "REPLACED" => i # m.order
        PROVE  LeadsNow(i, s)
    BY <1>7, <2>1, <2>3 DEF HasEntry, SlotOf
  <2>4. /\ book[o].clid \in Used /\ parent[book[o].clid] = o
        /\ Leads(book[o].clid, s)
    BY <1>1, <2>2 DEF Parents, ReportsFindOrder
  <2>5. LeadsNow(book'[o].clid, s)
    <3>1. CASE m.type = "REPLACED" /\ o = m.order
      <4>1. book'[o].clid = m.id /\ m.id # m.order /\ Leads(m.id, s)
        BY <2>2, <3>1 DEF AnsweredWell
      <4>2. LeadsNow(m.id, s)
        BY <1>2, <2>3, <3>1, <4>1 DEF Refusal
      <4>3. QED
        BY <4>1, <4>2
    <3>2. CASE ~(m.type = "REPLACED" /\ o = m.order)
      <4>1. book'[o].clid = book[o].clid
        BY <2>2, <3>2 DEF AnsweredWell
      <4>2. Refusal(m) => book[o].clid # m.id
        BY <2>2 DEF AnsweredWell
      <4>3. m.type = "REPLACED" => book[o].clid # m.order
        BY <1>2, <2>4, <3>2
      <4>4. QED
        BY <2>3, <2>4, <4>1, <4>2, <4>3
    <3>3. QED
      BY <3>1, <3>2
  <2>6. ASSUME NEW n \in Places', requests'[n].order = o
        PROVE  LeadsNow(requests'[n].id, s)
    <3> DEFINE id == requests'[n].id
    <3>1. PICK k \in Places : requests'[n] = requests[k]
      BY <1>6
    <3>2. id \in Used /\ parent[id] = o
      BY <1>1, <2>6, <3>1 DEF Fresh, Parents
    <3>3. Leads(id, s)
      BY <1>1, <2>2, <2>6, <3>1 DEF ReportsFindOrder, Places
    <3>4. Refusal(m) => id # m.id
      BY DEF AnsweredWell
    <3>5. m.type = "REPLACED" => id # m.order
      <4>1. SUFFICES ASSUME m.type = "REPLACED", id = m.order PROVE FALSE
        OBVIOUS
      <4>2. o = m.order /\ book[m.order].state = "open"
        BY <1>2, <3>2, <4>1 DEF AnsweredWell
      <4>3. requests[k].id = requests[k].order /\ requests[k].order = m.order
        BY <2>6, <3>1, <4>1, <4>2
      <4>4. requests[k].kind = "new"
        BY <1>1, <4>3 DEF Queue
      <4>5. QED
        BY <1>1, <4>2, <4>3, <4>4 DEF Queue
    <3> HIDE DEF id
    <3>6. LeadsNow(id, s)
      BY <2>3, <3>2, <3>3, <3>4, <3>5
    <3>7. QED
      BY <3>6 DEF id
  <2>7. QED
    BY <2>5, <2>6
<1>17. QED
  BY <1>3, <1>8, <1>9, <1>10, <1>11, <1>12, <1>14, <1>15, <1>16 DEF IInv

-----------------------------------------------------------------------------
(* The steps of the broker, one by one.                                    *)

(* A report about an id issued for its order is one the handlers expect.   *)
LEMMA FreshReport ==
  ASSUME IInv, NEW m \in ProperReport, m.id \in Used, parent[m.id] = m.order,
         Terminal(m) \/ m.type = "REPLACED" =>
           book[m.order].state \in {"sent", "open"},
         m.type = "REJECTED" => m.id = m.order
  PROVE  Justified(m)
<1>1. m.order \in Ids
  BY DEF ProperReport
<1>2. book[m.order].state \in {"sent", "open"} => m.order \in live
  BY <1>1 DEF IInv, BookLive
<1>3. m.order \in live /\ HasEntry(m.id) => Holds(SlotOf(m.id), m.order)
  BY DEF IInv, Links
<1>4. QED
  BY <1>2, <1>3 DEF Justified

(* The oldest request, and the requests behind it.                         *)
Oldest == Head(requests)

LEMMA OldestRequest ==
  ASSUME IInv, requests # << >>, requests' = Tail(requests)
  PROVE  /\ Oldest \in Request /\ Oldest.id \in Used /\ parent[Oldest.id] = Oldest.order
         /\ Oldest.id \in Ids /\ Oldest.order \in Ids
         /\ Oldest.kind = "new" =>
              Oldest.id = Oldest.order /\ book[Oldest.order].state = "sent"
         /\ Oldest.kind # "new" =>
              Oldest.id # Oldest.order /\ \A o \in Ids : book[o].clid # Oldest.id
         /\ \A s \in Slots : Holds(s, Oldest.order) /\ Oldest.order \in live =>
              HasEntry(Oldest.id) /\ SlotOf(Oldest.id) = s
         /\ Advance
         /\ \A n \in Places' : requests'[n].id # Oldest.id
         /\ \A n \in Places' : requests'[n].kind = "new" =>
              /\ requests'[n].id = requests'[n].order
              /\ book[requests'[n].order].state = "sent"
<1>1. /\ requests \in Seq(Request) /\ Fresh /\ Parents /\ Queue
      /\ ReportsFindOrder
  BY DEF IInv, TypeOK
<1>2. 1 \in Places /\ Oldest = requests[1] /\ Oldest \in Request
  BY <1>1 DEF Places, Oldest
<1>3. \A n \in Places' :
        n + 1 \in Places /\ n + 1 # 1 /\ requests'[n] = requests[n + 1]
  BY <1>1 DEF Places
<1>4. Oldest.id \in Used /\ parent[Oldest.id] = Oldest.order
  BY <1>1, <1>2 DEF Fresh, Parents
<1>5. Oldest.id \in Ids /\ Oldest.order \in Ids
  BY <1>2 DEF Request
<1>6. \A n \in Places' : requests'[n].id # Oldest.id
  BY <1>1, <1>2, <1>3 DEF Queue
<1>7. \A s \in Slots : Holds(s, Oldest.order) /\ Oldest.order \in live =>
        HasEntry(Oldest.id) /\ SlotOf(Oldest.id) = s
  BY <1>1, <1>2 DEF ReportsFindOrder, Places
<1>8. Advance
  BY DEF Advance
<1>9. QED
  BY <1>1, <1>2, <1>3, <1>4, <1>5, <1>6, <1>7, <1>8 DEF Queue

LEMMA AcceptNewStep ==
  ASSUME IInv, AcceptNew
  PROVE  IInv'
<1> DEFINE o == Oldest.order
           m == Report("NEW", o, o)
<1>1. /\ requests # << >> /\ Oldest.kind = "new" /\ requests' = Tail(requests)
      /\ book' = [book EXCEPT ![o].state = "open"] /\ Emit(m)
  BY DEF AcceptNew, Answer, Oldest
<1>2. book \in [Ids -> BookEntry]
  BY DEF IInv, TypeOK
<1>3. /\ o \in Ids /\ Oldest.id = o /\ o \in Used /\ parent[o] = o
      /\ book[o].state = "sent" /\ Advance
      /\ \A n \in Places' : requests'[n].id # o
      /\ \A n \in Places' : requests'[n].kind = "new" =>
           requests'[n].id = requests'[n].order
  BY <1>1, OldestRequest
<1>4. /\ m \in ProperReport /\ m.type = "NEW" /\ m.id = o /\ m.order = o
      /\ m.full = FALSE
  <2>1. book[o].side \in Side
    BY <1>2, <1>3 DEF BookEntry
  <2> HIDE DEF o
  <2>2. QED
    BY <1>3, <2>1 DEF Report, ProperReport, ReportType
<1> HIDE DEF m
<1>5. ~Terminal(m) /\ ~Refusal(m)
  BY <1>4 DEF Terminal, Refusal
<1>6. Justified(m)
  BY <1>3, <1>4, <1>5, FreshReport
<1>7. HandledWell(m)
  BY <1>1, <1>6, HandleEffect DEF Emit, IInv
<1>8. /\ book' \in [Ids -> BookEntry] /\ book'[o].state = "open"
      /\ book'[o].clid = book[o].clid
      /\ \A p \in Ids : p # o => book'[p] = book[p]
  BY <1>1, <1>2, <1>3 DEF BookEntry
<1>9. AnsweredWell(m)
  BY <1>3, <1>4, <1>5, <1>8 DEF AnsweredWell
<1>10. QED
  BY <1>1, <1>6, <1>7, <1>9, AnswerStep DEF Emit

LEMMA RejectNewStep ==
  ASSUME IInv, RejectNew
  PROVE  IInv'
<1> DEFINE o == Oldest.order
           m == Report("REJECTED", o, o)
<1>1. /\ requests # << >> /\ Oldest.kind = "new" /\ requests' = Tail(requests)
      /\ book' = [book EXCEPT ![o].state = "rejected"] /\ Emit(m)
  BY DEF RejectNew, Answer, Oldest
<1>2. book \in [Ids -> BookEntry]
  BY DEF IInv, TypeOK
<1>3. /\ o \in Ids /\ Oldest.id = o /\ o \in Used /\ parent[o] = o
      /\ book[o].state = "sent" /\ Advance
      /\ \A n \in Places' : requests'[n].id # o
      /\ \A n \in Places' : requests'[n].kind = "new" =>
           requests'[n].id = requests'[n].order
  BY <1>1, OldestRequest
<1>4. /\ m \in ProperReport /\ m.type = "REJECTED" /\ m.id = o /\ m.order = o
  <2>1. book[o].side \in Side
    BY <1>2, <1>3 DEF BookEntry
  <2> HIDE DEF o
  <2>2. QED
    BY <1>3, <2>1 DEF Report, ProperReport, ReportType
<1> HIDE DEF m
<1>5. ~Refusal(m)
  BY <1>4 DEF Refusal
<1>6. Justified(m)
  BY <1>3, <1>4, FreshReport
<1>7. HandledWell(m)
  BY <1>1, <1>6, HandleEffect DEF Emit, IInv
<1>8. /\ book' \in [Ids -> BookEntry] /\ book'[o].state = "rejected"
      /\ book'[o].clid = book[o].clid
      /\ \A p \in Ids : p # o => book'[p] = book[p]
  BY <1>1, <1>2, <1>3 DEF BookEntry
<1>9. AnsweredWell(m)
  BY <1>3, <1>4, <1>5, <1>8 DEF AnsweredWell
<1>10. QED
  BY <1>1, <1>6, <1>7, <1>9, AnswerStep DEF Emit

LEMMA FillStep ==
  ASSUME IInv, NEW o \in Ids, NEW price \in Prices,
         NEW qty \in 1 .. book[o].volume, Fill(o, qty, price)
  PROVE  IInv'
<1> DEFINE m == Trade(o, qty, price)
           full == book[o].cum + qty = book[o].volume
<1>1. /\ book[o].state = "open" /\ requests' = requests
      /\ book' = [book EXCEPT
                    ![o].cum = book[o].cum + qty,
                    ![o].state = IF full THEN "filled" ELSE @]
      /\ Emit(m)
  BY DEF Fill
<1>2. /\ book \in [Ids -> BookEntry] /\ Parents /\ Queue
      /\ currentOrderID \in 1 .. MaxOrders
  BY DEF IInv, TypeOK
<1>3. /\ book[o].side \in Side /\ book[o].volume \in Nat /\ book[o].cum \in Nat
      /\ price \in Nat /\ qty \in Nat
  BY <1>2, PricesAssumption DEF BookEntry
<1>4. /\ book[o].clid \in Used /\ parent[book[o].clid] = o
      /\ book[o].clid \in Ids
  BY <1>1, <1>2, IdsUsed DEF IInv, Parents
<1>5. /\ m \in ProperReport /\ m.type = "TRADE" /\ m.id = book[o].clid
      /\ m.order = o /\ m.full = full
  BY <1>3, <1>4 DEF Trade, ProperReport, ReportType
<1> HIDE DEF m
<1>6. ~Refusal(m) /\ (Terminal(m) <=> full)
  BY <1>5 DEF Refusal, Terminal
<1>7. Justified(m)
  BY <1>1, <1>4, <1>5, FreshReport
<1>8. HandledWell(m)
  BY <1>1, <1>7, HandleEffect DEF Emit, IInv
<1>9. /\ book' \in [Ids -> BookEntry]
      /\ book'[o].state = IF full THEN "filled" ELSE "open"
      /\ book'[o].clid = book[o].clid
      /\ \A p \in Ids : p # o => book'[p] = book[p]
  <2> DEFINE state == IF full THEN "filled" ELSE "open"
             b == [book[o] EXCEPT !.cum = book[o].cum + qty, !.state = state]
  <2>1. /\ book[o] \in BookEntry /\ book[o].cum + qty \in Nat
        /\ state \in {"filled", "open"}
    BY <1>2, <1>3
  <2>2. book' = [book EXCEPT ![o] = b]
    BY <1>1, <1>2
  <2> HIDE DEF state, full
  <2>3. b \in BookEntry /\ b.clid = book[o].clid /\ b.state = state
    BY <2>1 DEF BookEntry
  <2> HIDE DEF b
  <2>4. /\ book' \in [Ids -> BookEntry] /\ book'[o].state = state
        /\ book'[o].clid = book[o].clid
        /\ \A p \in Ids : p # o => book'[p] = book[p]
    BY <1>2, <2>2, <2>3
  <2>5. QED
    BY <2>4 DEF state
<1>10. \A n \in Places' : ~(requests'[n].kind = "new" /\ requests'[n].order = o)
  BY <1>1, <1>2 DEF Queue, Places
<1>11. Advance
  BY <1>1 DEF Advance
<1>12. AnsweredWell(m)
  BY <1>1, <1>4, <1>5, <1>6, <1>9, <1>10, <1>11 DEF AnsweredWell
<1>13. QED
  BY <1>1, <1>5, <1>7, <1>8, <1>12, AnswerStep DEF Emit

LEMMA AcceptCancelStep ==
  ASSUME IInv, AcceptCancel
  PROVE  IInv'
<1> DEFINE o == Oldest.order
           m == Report("CANCELED", Oldest.id, o)
<1>1. /\ requests # << >> /\ Oldest.kind # "new" /\ requests' = Tail(requests)
      /\ book[o].state = "open"
      /\ book' = [book EXCEPT ![o].state = "canceled"] /\ Emit(m)
  BY DEF AcceptCancel, Answer, Oldest
<1>2. book \in [Ids -> BookEntry]
  BY DEF IInv, TypeOK
<1>3. /\ o \in Ids /\ Oldest.id \in Ids
      /\ Oldest.id \in Used /\ parent[Oldest.id] = o /\ Advance
      /\ \A n \in Places' : requests'[n].kind = "new" =>
           book[requests'[n].order].state = "sent"
  BY <1>1, OldestRequest
<1>4. /\ m \in ProperReport /\ m.type = "CANCELED" /\ m.id = Oldest.id
      /\ m.order = o
  <2>1. book[o].side \in Side
    BY <1>2, <1>3 DEF BookEntry
  <2> HIDE DEF o
  <2>2. QED
    BY <1>3, <2>1 DEF Report, ProperReport, ReportType
<1> HIDE DEF m
<1>5. ~Refusal(m)
  BY <1>4 DEF Refusal
<1>6. Justified(m)
  BY <1>1, <1>3, <1>4, FreshReport
<1>7. HandledWell(m)
  BY <1>1, <1>6, HandleEffect DEF Emit, IInv
<1>8. /\ book' \in [Ids -> BookEntry] /\ book'[o].state = "canceled"
      /\ book'[o].clid = book[o].clid
      /\ \A p \in Ids : p # o => book'[p] = book[p]
  BY <1>1, <1>2, <1>3 DEF BookEntry
<1>9. \A n \in Places' : ~(requests'[n].kind = "new" /\ requests'[n].order = o)
  BY <1>1, <1>3
<1> HIDE DEF o
<1>10. AnsweredWell(m)
  BY <1>1, <1>3, <1>4, <1>5, <1>8, <1>9 DEF AnsweredWell
<1>11. QED
  BY <1>1, <1>6, <1>7, <1>10, AnswerStep DEF Emit

(* A rejected cancel and a rejected edit differ in the type of the report. *)
LEMMA RefusalStep ==
  ASSUME IInv, NEW type \in {"CANCEL_REJECT", "REPLACE_REJECT"},
         requests # << >>, Oldest.kind # "new", requests' = Tail(requests),
         UNCHANGED book, Emit(Report(type, Oldest.id, Oldest.order))
  PROVE  IInv'
<1> DEFINE o == Oldest.order
           m == Report(type, Oldest.id, o)
<1>1. book \in [Ids -> BookEntry]
  BY DEF IInv, TypeOK
<1>2. /\ o \in Ids /\ Oldest.id \in Ids
      /\ Oldest.id \in Used /\ parent[Oldest.id] = o /\ Advance
      /\ \A p \in Ids : book[p].clid # Oldest.id
      /\ \A n \in Places' : requests'[n].id # Oldest.id
      /\ \A n \in Places' : requests'[n].kind = "new" =>
           book[requests'[n].order].state = "sent"
  BY OldestRequest
<1>3. /\ m \in ProperReport /\ m.id = Oldest.id /\ m.order = o
      /\ m.type \in {"CANCEL_REJECT", "REPLACE_REJECT"}
  <2>1. book[o].side \in Side
    BY <1>1, <1>2 DEF BookEntry
  <2> HIDE DEF o
  <2>2. CASE type = "CANCEL_REJECT"
    BY <1>2, <2>1, <2>2 DEF Report, ProperReport, ReportType
  <2>3. CASE type = "REPLACE_REJECT"
    BY <1>2, <2>1, <2>3 DEF Report, ProperReport, ReportType
  <2>4. QED
    BY <2>2, <2>3
<1>4. Emit(m)
  OBVIOUS
<1> HIDE DEF m
<1>5. /\ ~Terminal(m) /\ Refusal(m)
      /\ m.type # "REPLACED" /\ m.type # "REJECTED"
  BY <1>3 DEF Refusal, Terminal
<1>6. Justified(m)
  BY <1>2, <1>3, <1>5, FreshReport
<1>7. HandledWell(m)
  BY <1>4, <1>6, HandleEffect DEF Emit, IInv
<1>8. AnsweredWell(m)
  BY <1>1, <1>2, <1>3, <1>5 DEF AnsweredWell
<1>9. QED
  BY <1>4, <1>6, <1>7, <1>8, AnswerStep DEF Emit

LEMMA RejectCancelStep ==
  ASSUME IInv, RejectCancel
  PROVE  IInv'
BY RefusalStep DEF RejectCancel, Answer, Oldest

LEMMA RejectEditStep ==
  ASSUME IInv, RejectEdit
  PROVE  IInv'
BY RefusalStep DEF RejectEdit, Answer, Oldest

LEMMA AcceptEditStep ==
  ASSUME IInv, AcceptEdit
  PROVE  IInv'
<1> DEFINE o == Oldest.order
           m == Report("REPLACED", Oldest.id, o)
<1>1. /\ requests # << >> /\ Oldest.kind # "new" /\ requests' = Tail(requests)
      /\ book[o].state = "open"
      /\ book' = [book EXCEPT ![o].price = Oldest.price,
                              ![o].volume = Oldest.volume,
                              ![o].clid = Oldest.id]
      /\ Emit(m)
  BY DEF AcceptEdit, Answer, Oldest
<1>2. book \in [Ids -> BookEntry]
  BY DEF IInv, TypeOK
<1>3. /\ o \in Ids /\ Oldest.id \in Ids /\ Oldest.id # o
      /\ Oldest.price \in Nat /\ Oldest.volume \in Nat
      /\ Oldest.id \in Used /\ parent[Oldest.id] = o /\ Advance
      /\ \A n \in Places' : requests'[n].id # Oldest.id
      /\ \A n \in Places' : requests'[n].kind = "new" =>
           book[requests'[n].order].state = "sent"
      /\ \A s \in Slots : Holds(s, o) /\ o \in live =>
           HasEntry(Oldest.id) /\ SlotOf(Oldest.id) = s
  BY <1>1, OldestRequest DEF Request
<1>4. o \in live
  BY <1>1, <1>3 DEF IInv, BookLive
<1>5. /\ m \in ProperReport /\ m.type = "REPLACED" /\ m.id = Oldest.id
      /\ m.order = o
  <2>1. book[o].side \in Side
    BY <1>2, <1>3 DEF BookEntry
  <2> HIDE DEF o
  <2>2. QED
    BY <1>3, <2>1 DEF Report, ProperReport, ReportType
<1> HIDE DEF m
<1>6. ~Refusal(m) /\ ~Terminal(m)
  BY <1>5 DEF Refusal, Terminal
<1>7. Justified(m)
  BY <1>1, <1>3, <1>5, FreshReport
<1>8. HandledWell(m)
  BY <1>1, <1>7, HandleEffect DEF Emit, IInv
<1>9. /\ book' \in [Ids -> BookEntry] /\ book'[o].state = "open"
      /\ book'[o].clid = Oldest.id
      /\ \A p \in Ids : p # o => book'[p] = book[p]
  <2> DEFINE b == [book[o] EXCEPT !.price = Oldest.price,
                                  !.volume = Oldest.volume,
                                  !.clid = Oldest.id]
  <2>1. b \in BookEntry /\ b.state = "open" /\ b.clid = Oldest.id
    BY <1>1, <1>2, <1>3 DEF BookEntry
  <2>2. book' = [book EXCEPT ![o] = b]
    BY <1>1, <1>2, <1>3
  <2> HIDE DEF b
  <2>3. QED
    BY <1>2, <1>3, <2>1, <2>2
<1>10. \A n \in Places' : ~(requests'[n].kind = "new" /\ requests'[n].order = o)
  BY <1>1, <1>3
<1>11. \A s \in Slots : Holds(s, o) => HasEntry(Oldest.id) /\ SlotOf(Oldest.id) = s
  BY <1>3, <1>4
<1> HIDE DEF o
<1>12. /\ m.id # m.order
       /\ book[m.order].state = "open" /\ book'[m.order].state = "open"
       /\ \A n \in Places' : requests'[n].id # m.id
       /\ \A s \in Slots : Holds(s, m.order) =>
            HasEntry(m.id) /\ SlotOf(m.id) = s
  <2>1. m.id = Oldest.id /\ m.order = o
    BY <1>5
  <2>2. \A n \in Places' : requests'[n].id # m.id
    BY <1>3, <2>1
  <2>3. \A s \in Slots : Holds(s, m.order) =>
          HasEntry(m.id) /\ SlotOf(m.id) = s
    BY <1>11, <2>1
  <2>4. /\ m.id # m.order /\ book[m.order].state = "open"
        /\ book'[m.order].state = "open"
    BY <1>1, <1>3, <1>9, <2>1
  <2>5. QED
    BY <2>2, <2>3, <2>4
<1>13. AnsweredWell(m)
  BY <1>3, <1>5, <1>6, <1>9, <1>10, <1>12 DEF AnsweredWell
<1>14. QED
  BY <1>1, <1>7, <1>8, <1>13, AnswerStep DEF Emit

LEMMA ResendStep ==
  ASSUME IInv, Resend
  PROVE  IInv'
<1> DEFINE m == lastReport
<1>1. /\ m.type # "NONE" /\ Handle(m)
      /\ UNCHANGED <<currentOrderID, parent, requests, book, lastReport>>
  BY DEF Resend, brokerVars
<1>2. /\ TypeOK /\ Fresh /\ Parents /\ Links /\ Queue /\ BookLive
      /\ ReportSafe /\ ReportsFindOrder
  BY DEF IInv
<1>3. /\ m.id \in Used /\ parent[m.id] = m.order /\ m.order \in Used
      /\ m.id \in Ids /\ m.order \in Ids
  BY <1>1, <1>2, IdsUsed DEF Parents
<1>4. m \in ProperReport
  BY <1>1, <1>2, <1>3 DEF TypeOK, ProperReport
<1>5. Justified(m)
  BY <1>2, <1>3, <1>4 DEF ReportSafe, Justified, BookLive, Links
<1>6. HandledWell(m)
  BY <1>1, <1>2, <1>5, HandleEffect
<1>7. Advance /\ book' \in [Ids -> BookEntry]
  BY <1>1, <1>2 DEF Advance, TypeOK
<1>8. \A n \in Places' : requests'[n].kind = "new" =>
        /\ requests'[n].id = requests'[n].order
        /\ book'[requests'[n].order].state = "sent"
  BY <1>1, <1>2 DEF Queue, Places
<1>9. m.type = "REPLACED" =>
        /\ m.id # m.order /\ book[m.order].state = "open"
        /\ book[m.order].clid = m.id /\ m.order \in live
  BY <1>2, <1>3 DEF ReportSafe, BookLive
<1>10. m.type = "REPLACED" => \A n \in Places' : requests'[n].id # m.id
  <2>1. SUFFICES ASSUME m.type = "REPLACED",
                        NEW n \in Places, requests[n].id = m.id
                 PROVE  FALSE
    BY <1>1 DEF Places
  <2>2. requests[n].order = m.order
    BY <1>2, <1>3, <2>1 DEF Parents
  <2>3. requests[n].kind = "new"
    BY <1>2, <1>3, <1>9, <2>1 DEF Queue
  <2>4. QED
    BY <1>2, <1>9, <2>1, <2>2, <2>3 DEF Queue
<1>11. m.type = "REPLACED" => \A s \in Slots : Holds(s, m.order) =>
         HasEntry(m.id) /\ SlotOf(m.id) = s
  BY <1>2, <1>9 DEF ReportsFindOrder
<1>12. Refusal(m) => /\ \A n \in Places' : requests'[n].id # m.id
                    /\ \A o \in Ids : book[o].clid # m.id
  BY <1>1, <1>2 DEF ReportSafe, Places
<1>13. Terminal(m) => book[m.order].state \notin {"sent", "open"}
  BY <1>2 DEF ReportSafe
<1> HIDE DEF m
<1>14. book' = book
  BY <1>1
<1>15. AnsweredWell(m)
  BY <1>3, <1>4, <1>7, <1>8, <1>9, <1>10, <1>11, <1>12, <1>13, <1>14
     DEF AnsweredWell
<1>16. lastReport' = m
  BY <1>1 DEF m
<1>17. QED
  BY <1>1, <1>5, <1>6, <1>15, <1>16, AnswerStep

-----------------------------------------------------------------------------
(* The requests of the strategy.                                           *)

(* A request for an order that exists: a new id for its slot.              *)
Asks(orderId, q) ==
  /\ HasEntry(orderId)
  /\ currentOrderID < MaxOrders
  /\ q \in Request /\ q.kind # "new"
  /\ q.id = currentOrderID /\ q.order = parent[orderId]
  /\ requests' = Append(requests, q)
  /\ orderIDVsEntryMap' =
       [orderIDVsEntryMap EXCEPT ![currentOrderID] = SlotOf(orderId)]
  /\ Issue(currentOrderID, parent[orderId])
  /\ orderEntries' \in [Slots -> OrderEntry] /\ SameIds
  /\ totals' \in Totals /\ symbol' \in Totals /\ currentBalance' \in Int
  /\ misEdited' \in BOOLEAN
  /\ UNCHANGED <<freeEntries, freeEntryPtr, fault, book, lastReport, live, traded>>

(* A new place in the queue.                                               *)
LEMMA Queued ==
  ASSUME requests \in Seq(Request), NEW q \in Request,
         requests' = Append(requests, q)
  PROVE  /\ requests' \in Seq(Request)
         /\ Len(requests) \in Nat /\ Places' = Places \cup {Len(requests) + 1}
         /\ Len(requests) + 1 \notin Places
         /\ requests'[Len(requests) + 1] = q
         /\ \A n \in Places : requests'[n] = requests[n]
BY DEF Places

(* Issuing an id makes it the newest.                                      *)
LEMMA NewId ==
  ASSUME TypeOK, currentOrderID < MaxOrders,
         currentOrderID' = currentOrderID + 1
  PROVE  /\ currentOrderID \in Ids /\ currentOrderID \notin Used
         /\ currentOrderID \notin Older
         /\ Older \subseteq 0 .. MaxOrders - 1
         /\ currentOrderID \in 0 .. MaxOrders - 1
         /\ Used' = Used \cup {currentOrderID}
         /\ currentOrderID' \in 1 .. MaxOrders
         /\ Used \subseteq Ids /\ Used \subseteq Older
         /\ Older' = Older \cup {currentOrderID}
<1>1. currentOrderID \in 1 .. MaxOrders /\ MaxOrders \in Nat
  BY MaxOrdersAssumption DEF TypeOK
<1>2. QED
  BY <1>1 DEF Ids, Used, Older

LEMMA AskStep ==
  ASSUME IInv, NEW orderId \in Used, NEW q, Asks(orderId, q)
  PROVE  IInv'
<1> PICK id : id = currentOrderID
  OBVIOUS
<1> PICK last : last = Len(requests) + 1
  OBVIOUS
<1> DEFINE slot == SlotOf(orderId)
           o == parent[orderId]
<1>1. /\ TypeOK /\ Fresh /\ Parents /\ Links /\ Queue /\ BookLive
      /\ ReportSafe /\ SlotsSound /\ ReportsFindOrder /\ EntryTypes
  BY DEF IInv, TypeOK, EntryTypes
<1>2. /\ id \in Ids /\ id \notin Used /\ Used' = Used \cup {id}
      /\ id \notin Older /\ id \in 0 .. MaxOrders - 1
      /\ Older \subseteq 0 .. MaxOrders - 1
      /\ currentOrderID' \in 1 .. MaxOrders /\ Older' = Older \cup {id}
      /\ Used \subseteq Ids /\ Used \subseteq Older
  BY <1>1, NewId DEF Asks, Issue
<1>3. /\ o \in Used /\ parent[o] = o
      /\ slot \in Slots /\ slot # orderEntryEnd
      /\ SlotOf(orderId) \in Slots
  BY <1>1, <1>2, EntryFound DEF Parents, Asks, HasEntry, SlotOf
<1>4. /\ parent' \in [Ids -> Ids] /\ parent'[id] = o
      /\ \A i \in Used : parent'[i] = parent[i]
  BY <1>1, <1>2, <1>3 DEF TypeOK, Asks, Issue
<1>5. /\ orderIDVsEntryMap' \in [0 .. MaxOrders - 1 -> Slots \cup {orderEntryEnd}]
      /\ HasEntry(id)' /\ SlotOf(id)' = slot
      /\ \A i \in Older :
           (HasEntry(i)' <=> HasEntry(i)) /\ SlotOf(i)' = SlotOf(i)
  <2>1. orderIDVsEntryMap \in [0 .. MaxOrders - 1 -> Slots \cup {orderEntryEnd}]
    BY <1>1 DEF EntryTypes
  <2>2. orderIDVsEntryMap' = [orderIDVsEntryMap EXCEPT ![id] = slot]
    BY DEF Asks
  <2> HIDE DEF slot
  <2>3. QED
    BY <1>2, <1>3, <2>1, <2>2 DEF HasEntry, SlotOf
<1>6. \A i \in Used : (HasEntry(i)' <=> HasEntry(i)) /\ SlotOf(i)' = SlotOf(i)
  BY <1>2, <1>5
<1>7. /\ requests' \in Seq(Request) /\ last \notin Places
      /\ Places' = Places \cup {last} /\ requests'[last] = q
      /\ \A n \in Places : requests'[n] = requests[n]
      /\ q.id = id /\ q.order = o /\ q.kind # "new"
  BY <1>1, Queued DEF TypeOK, Asks
<1>8. /\ SameIds /\ UNCHANGED <<freeEntries, freeEntryPtr, book, lastReport, live>>
  BY DEF Asks
<1>9. /\ \A s \in Slots : orderEntries[s].orderId \in Older
      /\ \A p \in Ids : book[p].clid \in Older
      /\ lastReport.id \in Older /\ lastReport.order \in Older
  BY <1>1 DEF Fresh
<1>10. lastReport.type # "NONE" => lastReport.id \in Used
  BY <1>1 DEF Parents
<1> HIDE DEF slot, o
<1>11. SlotsSound'
  BY <1>1, <1>8, SlotsKept
<1>12. TypeOK'
  BY <1>1, <1>2, <1>4, <1>5, <1>7 DEF TypeOK, Asks
<1>13. Fresh'
  <2>1. live' \subseteq Used'
    BY <1>1, <1>2, <1>8 DEF Fresh
  <2>2. \A s \in Slots : orderEntries'[s].orderId \in Older'
    BY <1>2, <1>8, <1>9 DEF SameIds
  <2>3. \A p \in Ids : book'[p].clid \in Older'
    BY <1>2, <1>8, <1>9
  <2>4. \A p \in Ids : book'[p].state # "none" => p \in Used'
    BY <1>1, <1>2, <1>8 DEF Fresh
  <2>5. \A n \in Places' : requests'[n].id \in Used' /\ requests'[n].order \in Used'
    BY <1>1, <1>2, <1>3, <1>7 DEF Fresh
  <2>6. /\ lastReport'.id \in Older' /\ lastReport'.order \in Older'
    BY <1>2, <1>8, <1>9
  <2>7. QED
    BY <2>1, <2>2, <2>3, <2>4, <2>5, <2>6 DEF Fresh
<1>14. Parents'
  <2>1. \A i \in Used' : parent'[i] \in Used' /\ parent'[parent'[i]] = parent'[i]
    <3>1. \A i \in Used : parent'[i] \in Used /\ parent'[parent'[i]] = parent'[i]
      BY <1>1, <1>4 DEF Parents
    <3>2. parent'[id] \in Used /\ parent'[parent'[id]] = parent'[id]
      BY <1>3, <1>4
    <3>3. QED
      BY <1>2, <3>1, <3>2
  <2>2. \A p \in Ids : book'[p].state # "none" =>
          parent'[p] = p /\ book'[p].clid \in Used' /\ parent'[book'[p].clid] = p
    BY <1>1, <1>2, <1>4, <1>8 DEF Parents, Fresh
  <2>3. \A n \in Places' : parent'[requests'[n].id] = requests'[n].order
    <3>1. \A n \in Places : parent'[requests'[n].id] = requests'[n].order
      BY <1>1, <1>4, <1>7 DEF Parents, Fresh
    <3>2. parent'[requests'[last].id] = requests'[last].order
      BY <1>4, <1>7
    <3>3. QED
      BY <1>7, <3>1, <3>2
  <2>4. lastReport'.type # "NONE" =>
          /\ lastReport'.id \in Used' /\ parent'[lastReport'.id] = lastReport'.order
    BY <1>1, <1>2, <1>4, <1>8 DEF Parents
  <2>5. QED
    BY <2>1, <2>2, <2>3, <2>4 DEF Parents
<1>15. Links'
  <2>1. SUFFICES ASSUME NEW i \in Used', HasEntry(i)', parent'[i] \in live
                 PROVE  orderEntries'[SlotOf(i)'].orderId = parent'[i]
    BY <1>8 DEF Links, Holds
  <2>2. CASE i \in Used
    <3>1. HasEntry(i) /\ SlotOf(i)' = SlotOf(i) /\ SlotOf(i) \in Slots
      BY <1>1, <1>2, <1>6, <2>1, <2>2, EntryFound
    <3>2. parent'[i] = parent[i]
      BY <1>4, <2>2
    <3>3. Holds(SlotOf(i), parent[i])
      BY <1>1, <2>1, <2>2, <3>1, <3>2 DEF Links
    <3>4. QED
      BY <1>8, <3>1, <3>2, <3>3 DEF Holds, SameIds
  <2>3. CASE i = id
    <3>1. Holds(slot, o)
      BY <1>1, <1>4, <2>1, <2>3 DEF Links, Asks, slot, o
    <3>2. QED
      BY <1>3, <1>4, <1>5, <1>8, <2>3, <3>1 DEF Holds, SameIds
  <2>4. QED
    BY <1>2, <2>1, <2>2, <2>3
<1>16. Queue'
  <2>1. \A n \in Places' : requests'[n].kind = "new" =>
          /\ requests'[n].id = requests'[n].order
          /\ book'[requests'[n].order].state = "sent"
    BY <1>1, <1>7, <1>8 DEF Queue
  <2>2. \A p \in Ids : book[p].clid # id
    BY <1>2, <1>9
  <2>3. \A n \in Places' : requests'[n].kind # "new" =>
          /\ requests'[n].id # requests'[n].order
          /\ \A p \in Ids : book'[p].clid # requests'[n].id
    BY <1>1, <1>2, <1>3, <1>7, <1>8, <2>2 DEF Queue
  <2>4. \A k, n \in Places' : k # n => requests'[k].id # requests'[n].id
    BY <1>1, <1>2, <1>7 DEF Queue, Fresh
  <2>5. QED
    BY <2>1, <2>3, <2>4 DEF Queue
<1>17. BookLive'
  BY <1>1, <1>8 DEF BookLive
<1>18. ReportSafe'
  <2>1. Refusal(lastReport) =>
          /\ \A n \in Places' : requests'[n].id # lastReport.id
          /\ \A p \in Ids : book[p].clid # lastReport.id
    <3>1. Refusal(lastReport) => lastReport.id # id
      BY <1>2, <1>10 DEF Refusal
    <3>2. QED
      BY <1>1, <1>7, <3>1 DEF ReportSafe
  <2>2. Terminal(lastReport)
          /\ orderIDVsEntryMap'[lastReport.id] # orderEntryEnd =>
          lastReport.order \in live
    <3>1. Terminal(lastReport) => lastReport.id \in Used
      BY <1>10 DEF Terminal
    <3>2. Terminal(lastReport) /\ HasEntry(lastReport.id) =>
            lastReport.order \in live
      BY <1>1 DEF ReportSafe
    <3>3. QED
      BY <1>6, <3>1, <3>2 DEF HasEntry
  <2>3. QED
    BY <1>1, <1>8, <2>1, <2>2 DEF ReportSafe, Terminal, Refusal, HasEntry, Places
<1>19. ReportsFindOrder'
  <2>1. SUFFICES ASSUME NEW p \in live, NEW s \in Slots, Holds(s, p)
                 PROVE  /\ HasEntry(book[p].clid)' /\ SlotOf(book[p].clid)' = s
                        /\ \A n \in Places' : requests'[n].order = p =>
                             /\ HasEntry(requests[n].id)'
                             /\ SlotOf(requests[n].id)' = s
    BY <1>8 DEF ReportsFindOrder, Holds, SameIds, Places
  <2>2. book[p].clid \in Used /\ HasEntry(book[p].clid) /\ SlotOf(book[p].clid) = s
    BY <1>1, <1>2, <2>1 DEF ReportsFindOrder, BookLive, Fresh, Parents
  <2>3. HasEntry(book[p].clid)' /\ SlotOf(book[p].clid)' = s
    BY <1>6, <1>8, <2>2 DEF HasEntry, SlotOf
  <2>4. ASSUME NEW n \in Places, requests'[n].order = p
        PROVE  HasEntry(requests[n].id)' /\ SlotOf(requests[n].id)' = s
    <3>1. /\ requests'[n] = requests[n] /\ requests[n].id \in Used
          /\ HasEntry(requests[n].id) /\ SlotOf(requests[n].id) = s
      BY <1>1, <1>7, <2>1, <2>4 DEF Fresh, ReportsFindOrder, Places
    <3>2. QED
      BY <1>6, <3>1 DEF HasEntry, SlotOf
  <2>5. ASSUME requests'[last].order = p
        PROVE  HasEntry(requests[last].id)' /\ SlotOf(requests[last].id)' = s
    <3>1. Holds(slot, o) /\ o = p /\ requests'[last].id = id
      BY <1>1, <1>7, <2>1, <2>5 DEF Links, Asks, slot, o
    <3>2. s = slot
      BY <1>1, <1>3, <2>1, <3>1 DEF SlotsSound, Holds
    <3>3. QED
      BY <1>5, <3>1, <3>2 DEF HasEntry, SlotOf
  <2>6. QED
    BY <1>7, <2>3, <2>4, <2>5
<1>20. QED
  BY <1>11, <1>12, <1>13, <1>14, <1>15, <1>16, <1>17, <1>18, <1>19 DEF IInv

(* The invariant is about nothing that a process changes by aborting.      *)
LEMMA Unchanged ==
  ASSUME IInv, fault' \in {"none", "order id", "free entry", "division"},
         UNCHANGED <<orderIDVsEntryMap, orderEntries, freeEntries, freeEntryPtr,
                     currentOrderID, totals, symbol, currentBalance>>,
         UNCHANGED <<requests, book, lastReport, parent, live, traded, misEdited>>
  PROVE  IInv'
<1>1. UNCHANGED <<orderIDVsEntryMap, orderEntries, freeEntries, freeEntryPtr,
                  currentOrderID, totals, symbol, currentBalance,
                  requests, book, lastReport, parent, live, traded, misEdited>>
  OBVIOUS
<1>2. TypeOK'
  BY <1>1 DEF IInv, TypeOK
<1>3. Fresh' /\ Parents' /\ Links' /\ Queue' /\ BookLive'
  <2>1. Used' = Used /\ Older' = Older /\ Places' = Places
    BY <1>1 DEF Used, Older, Places
  <2>2. Fresh' /\ Parents'
    BY <1>1, <2>1 DEF IInv, Fresh, Parents
  <2>3. Links'
    BY <1>1, <2>1 DEF IInv, Links, HasEntry, SlotOf, Holds
  <2>4. Queue' /\ BookLive'
    <3>1. Queue /\ requests' = requests /\ book' = book
      BY <1>1 DEF IInv
    <3>2. Queue'
      <4>1. \A n \in Places' : requests'[n].kind = "new" =>
              /\ requests'[n].id = requests'[n].order
              /\ book'[requests'[n].order].state = "sent"
        BY <2>1, <3>1 DEF Queue
      <4>2. \A n \in Places' : requests'[n].kind # "new" =>
              /\ requests'[n].id # requests'[n].order
              /\ \A o \in Ids : book'[o].clid # requests'[n].id
        BY <2>1, <3>1 DEF Queue
      <4>3. ASSUME NEW k \in Places', NEW n \in Places', k # n
            PROVE  requests'[k].id # requests'[n].id
        <5>1. k \in Places /\ n \in Places
          BY <2>1
        <5>2. requests[k].id # requests[n].id
          BY <3>1, <4>3, <5>1 DEF Queue
        <5>3. QED
          BY <3>1, <5>2
      <4>4. QED
        BY <4>1, <4>2, <4>3 DEF Queue
    <3>3. BookLive'
      BY <1>1 DEF IInv, BookLive
    <3>4. QED
      BY <3>2, <3>3
  <2>5. QED
    BY <2>2, <2>3, <2>4
<1>4. ReportSafe'
  BY <1>1 DEF IInv, ReportSafe, Terminal, Refusal, Places, HasEntry
<1>5. SlotsSound'
  BY <1>1, SlotsKept DEF IInv, SameIds
<1>6. ReportsFindOrder'
  <2>1. SUFFICES ASSUME NEW o \in live, NEW s \in Slots, Holds(s, o)
                 PROVE  /\ HasEntry(book[o].clid)' /\ SlotOf(book[o].clid)' = s
                        /\ \A n \in Places : requests[n].order = o =>
                             /\ HasEntry(requests[n].id)'
                             /\ SlotOf(requests[n].id)' = s
    BY <1>1 DEF ReportsFindOrder, Holds, Places
  <2>2. /\ HasEntry(book[o].clid) /\ SlotOf(book[o].clid) = s
        /\ \A n \in Places : requests[n].order = o =>
             HasEntry(requests[n].id) /\ SlotOf(requests[n].id) = s
    BY <2>1 DEF IInv, ReportsFindOrder, Places
  <2>3. QED
    BY <1>1, <2>2 DEF HasEntry, SlotOf
<1>7. QED
  BY <1>2, <1>3, <1>4, <1>5, <1>6 DEF IInv

LEMMA AbortStep ==
  ASSUME IInv, NEW reason \in {"order id", "free entry", "division"},
         Abort(reason), UNCHANGED <<brokerVars, historyVars>>
  PROVE  IInv'
BY Unchanged DEF Abort, brokerVars, historyVars

LEMMA CancelOrderStep ==
  ASSUME IInv, NEW orderId \in Used, CancelOrder(orderId)
  PROVE  IInv'
<1> DEFINE id == currentOrderID
           slot == SlotOf(orderId)
           e == EntryOf(orderId)
           q == [kind |-> "cancel", id |-> id, order |-> parent[orderId],
                 price |-> 0, volume |-> 0, change |-> 0]
           status == e.status \cup {"PENDING_CANCEL"}
<1>1. TypeOK /\ Fresh /\ Parents /\ EntryTypes /\ HasEntry(orderId)
  BY DEF IInv, TypeOK, EntryTypes, CancelOrder
<1>2. CASE Abort("order id") /\ UNCHANGED <<brokerVars, historyVars>>
  BY <1>2, AbortStep
<1>3. CASE
      /\ id < MaxOrders
      /\ orderIDVsEntryMap' = [orderIDVsEntryMap EXCEPT ![id] = slot]
      /\ orderEntries' = [orderEntries EXCEPT
                            ![slot].status = @ \cup {"PENDING_CANCEL"}]
      /\ totals' = onSingleOrderCancel(totals, e.side, Unfilled(e))
      /\ symbol' = onSingleOrderCancel(symbol, e.side, Unfilled(e))
      /\ Issue(id, parent[orderId])
      /\ Send("cancel", id, parent[orderId], 0, 0, 0)
      /\ UNCHANGED <<freeEntries, freeEntryPtr, currentBalance, fault,
                     book, lastReport, live, traded, misEdited>>
  <2>1. id \in Ids /\ Used \subseteq Ids /\ parent[orderId] \in Ids
    BY <1>1, <1>3, IdsUsed, NewId DEF Issue
  <2>2. slot \in Slots /\ e \in OrderEntry
    BY <1>1, <2>1, EntryFound
  <2>3. q \in Request /\ requests' = Append(requests, q)
    BY <1>3, <2>1 DEF Request, Send
  <2>4. status \in SUBSET OrderStatus
    BY <2>2 DEF OrderEntry, OrderStatus
  <2>5. orderEntries' = [orderEntries EXCEPT ![slot].status = status]
    BY <1>3 DEF EntryOf
  <2>6. orderEntries' \in [Slots -> OrderEntry] /\ SameIds
    <3> HIDE DEF status, slot
    <3>1. QED
      BY <1>1, <2>2, <2>4, <2>5, StatusUpdate
  <2>7. totals' \in Totals /\ symbol' \in Totals
    <3>1. Unfilled(e) \in Int
      BY <2>2 DEF OrderEntry, Unfilled
    <3>2. totals \in Totals /\ symbol \in Totals
      BY <1>1 DEF TypeOK
    <3> HIDE DEF e
    <3>3. QED
      BY <1>3, <3>1, <3>2, AddCancellingType DEF onSingleOrderCancel
  <2>8. /\ currentBalance' \in Int /\ misEdited' \in BOOLEAN
    BY <1>1, <1>3 DEF TypeOK
  <2>9. q.kind # "new" /\ q.id = currentOrderID /\ q.order = parent[orderId]
    OBVIOUS
  <2> HIDE DEF q
  <2>10. Asks(orderId, q)
    BY <1>1, <1>3, <2>3, <2>6, <2>7, <2>8, <2>9 DEF Asks
  <2>11. QED
    BY <2>10, AskStep
<1>4. QED
  BY <1>2, <1>3 DEF CancelOrder

LEMMA EditOrderStep ==
  ASSUME IInv, NEW orderId \in Used, NEW price \in Prices,
         NEW volume \in EditVolumes, EditOrder(orderId, price, volume)
  PROVE  IInv'
<1> DEFINE id == currentOrderID
           slot == SlotOf(orderId)
           e == EntryOf(orderId)
           cost == EditCost(e, price, volume)
           change == volume - e.volume
           value == volume * price - e.volume * e.price
           q == [kind |-> "edit", id |-> id, order |-> parent[orderId],
                 price |-> price, volume |-> volume, change |-> change]
           status == e.status \cup {"PENDING_REPLACE"}
<1>1. TypeOK /\ Fresh /\ Parents /\ EntryTypes /\ HasEntry(orderId)
  BY DEF IInv, TypeOK, EntryTypes, EditOrder
<1>2. CASE \E reason \in {"free entry", "order id"} :
             Abort(reason) /\ UNCHANGED <<brokerVars, historyVars>>
  BY <1>2, AbortStep
<1>3. CASE
      /\ id < MaxOrders
      /\ currentBalance' = IF cost > 0 THEN currentBalance - cost
                           ELSE currentBalance
      /\ orderIDVsEntryMap' = [orderIDVsEntryMap EXCEPT ![id] = slot]
      /\ orderEntries' = [orderEntries EXCEPT
                            ![slot].status = @ \cup {"PENDING_REPLACE"},
                            ![slot].newPrice = price,
                            ![slot].newVolume = volume]
      /\ totals' = AddPending(totals, e.side, change, 0)
      /\ symbol' = onSingleOrderEdit(symbol, e.side, e.price, price,
                                     e.volume, volume)
      /\ Issue(id, parent[orderId])
      /\ Send("edit", id, parent[orderId], price, volume, change)
      /\ misEdited' = (misEdited \/ parent[orderId] \notin live
                                 \/ EditPending(parent[orderId]))
      /\ UNCHANGED <<freeEntries, freeEntryPtr, fault,
                     book, lastReport, live, traded>>
  <2>1. id \in Ids /\ Used \subseteq Ids /\ parent[orderId] \in Ids
    BY <1>1, <1>3, IdsUsed, NewId DEF Issue
  <2>2. slot \in Slots /\ e \in OrderEntry
    BY <1>1, <2>1, EntryFound
  <2>3. /\ price \in Nat /\ volume \in Nat /\ change \in Int /\ value \in Int
        /\ e.volume \in Nat /\ e.price \in Nat
    BY <2>2, PricesAssumption, VolumesAssumption DEF OrderEntry
  <2>4. q \in Request /\ requests' = Append(requests, q)
    BY <1>3, <2>1, <2>3 DEF Request, Send
  <2>5. status \in SUBSET OrderStatus
    BY <2>2 DEF OrderEntry, OrderStatus
  <2>6. orderEntries' = [orderEntries EXCEPT ![slot].status = status,
                                            ![slot].newPrice = price,
                                            ![slot].newVolume = volume]
    BY <1>3 DEF EntryOf
  <2>7. orderEntries' \in [Slots -> OrderEntry] /\ SameIds
    <3> HIDE DEF status, slot
    <3>1. QED
      BY <1>1, <2>2, <2>3, <2>5, <2>6, PendingTermsUpdate
  <2>8. totals' \in Totals /\ symbol' \in Totals
    <3>1. totals \in Totals /\ symbol \in Totals
      BY <1>1 DEF TypeOK
    <3>2. symbol' = AddPending(symbol, e.side, change, value)
      BY <1>3 DEF onSingleOrderEdit
    <3> HIDE DEF e, change, value
    <3>3. QED
      BY <1>3, <2>3, <3>1, <3>2, AddPendingType
  <2>9. currentBalance' \in Int
    <3>1. cost \in Int /\ currentBalance \in Int
      BY <1>1, <2>2, <2>3, EditCostType DEF TypeOK
    <3> HIDE DEF cost
    <3>2. QED
      BY <1>3, <3>1
  <2>10. misEdited' \in BOOLEAN
    BY <1>3
  <2>11. q.kind # "new" /\ q.id = currentOrderID /\ q.order = parent[orderId]
    OBVIOUS
  <2> HIDE DEF q
  <2>12. Asks(orderId, q)
    BY <1>1, <1>3, <2>4, <2>7, <2>8, <2>9, <2>10, <2>11 DEF Asks
  <2>13. QED
    BY <2>12, AskStep
<1>4. QED
  BY <1>2, <1>3 DEF EditOrder

(* Taking the first slot of the free list for an order that is new.        *)
LEMMA SlotTaken ==
  ASSUME TypeOK, SlotsSound, freeEntryPtr < OrderSlots,
         NEW o, o \notin live, live' = live \cup {o},
         \A s \in Slots : orderEntries[s].orderId # o,
         NEW slot, slot = freeEntries[freeEntryPtr],
         orderEntries'[slot].orderId = o,
         \A s \in Slots : s # slot => orderEntries'[s] = orderEntries[s],
         freeEntries' = freeEntries, freeEntryPtr' = freeEntryPtr + 1
  PROVE  SlotsSound'
<1>1. /\ OrderSlots \in Nat \ {0} /\ freeEntryPtr \in Slots
      /\ freeEntries \in [Slots -> Slots] /\ slot \in Slots
  <2>1. OrderSlots \in Nat \ {0} /\ freeEntryPtr \in 0 .. OrderSlots
    BY OrderSlotsAssumption DEF TypeOK
  <2>2. freeEntryPtr \in Slots
    BY <2>1 DEF Slots
  <2>3. freeEntries \in [Slots -> Slots]
    BY DEF TypeOK
  <2>4. QED
    BY <2>1, <2>2, <2>3
<1> DEFINE old == freeEntryPtr .. OrderSlots - 1
           new == freeEntryPtr' .. OrderSlots - 1
<1>2. old = new \cup {freeEntryPtr} /\ freeEntryPtr \notin new
  BY <1>1 DEF Slots
<1>3. /\ FreeSlots = {freeEntries[i] : i \in old}
      /\ FreeSlots' = {freeEntries[i] : i \in new}
      /\ \A i, j \in old : i # j => freeEntries[i] # freeEntries[j]
  BY DEF FreeSlots, SlotsSound
<1> HIDE DEF old, new
<1>4. FreeSlots' = FreeSlots \ {slot} /\ slot \in FreeSlots
  BY <1>2, <1>3
<1>5. freeEntryPtr' \in 0 .. OrderSlots
  <2>1. freeEntryPtr \in 0 .. OrderSlots - 1 /\ freeEntryPtr' = freeEntryPtr + 1
    BY <1>1 DEF Slots
  <2>2. QED
    BY <1>1, <2>1
<1>6. \A i, j \in new : i # j => freeEntries'[i] # freeEntries'[j]
  BY <1>2, <1>3
<1>7. \A s \in Slots : s \in FreeSlots' <=> orderEntries'[s].orderId \notin live'
  BY <1>4 DEF SlotsSound
<1>8. \A p \in live' : \E s \in Slots : orderEntries'[s].orderId = p
  <2>1. ASSUME NEW p \in live
        PROVE  \E s \in Slots : orderEntries'[s].orderId = p
    <3>1. PICK s \in Slots : orderEntries[s].orderId = p
      BY DEF SlotsSound, Holds
    <3>2. s # slot
      BY <1>4, <3>1 DEF SlotsSound
    <3>3. QED
      BY <3>1, <3>2
  <2>2. QED
    BY <1>1, <2>1
<1>9. \A s, t \in Slots :
        s # t /\ orderEntries'[s].orderId = orderEntries'[t].orderId
          => orderEntries'[s].orderId \notin live'
  BY DEF SlotsSound
<1>10. QED
  BY <1>5, <1>6, <1>7, <1>8, <1>9 DEF SlotsSound, Holds, new

LEMMA NewOrderStep ==
  ASSUME IInv, NEW side \in Side, NEW price \in Prices, NEW volume \in Volumes,
         NewOrder(side, price, volume)
  PROVE  IInv'
<1> PICK id : id = currentOrderID
  OBVIOUS
<1> PICK last : last = Len(requests) + 1
  OBVIOUS
<1> PICK slot : slot = freeEntries[freeEntryPtr]
  OBVIOUS
<1> DEFINE cost == calculateCost(price, volume, side)
           r == NewEntry(id, side, price, volume)
           b == [state |-> "sent", side |-> side, price |-> price,
                 volume |-> volume, cum |-> 0, clid |-> id]
           q == [kind |-> "new", id |-> id, order |-> id, price |-> price,
                 volume |-> volume, change |-> 0]
<1>1. /\ TypeOK /\ Fresh /\ Parents /\ Links /\ Queue /\ BookLive
      /\ ReportSafe /\ SlotsSound /\ ReportsFindOrder /\ EntryTypes
  BY DEF IInv, TypeOK, EntryTypes
<1>2. CASE Abort("order id") /\ UNCHANGED <<brokerVars, historyVars>>
  BY <1>2, AbortStep
<1>3. CASE
      /\ id < MaxOrders /\ freeEntryPtr < OrderSlots
      /\ currentBalance' = currentBalance - cost
      /\ orderIDVsEntryMap' = [orderIDVsEntryMap EXCEPT ![id] = slot]
      /\ orderEntries' = [orderEntries EXCEPT ![slot] = r]
      /\ totals' = onSingleOrder(totals, side, price, volume)
      /\ symbol' = onSingleOrder(symbol, side, price, volume)
      /\ freeEntryPtr' = freeEntryPtr + 1
      /\ Issue(id, id)
      /\ requests' = Append(requests, q)
      /\ book' = [book EXCEPT ![id] = b]
      /\ live' = live \cup {id}
      /\ UNCHANGED <<freeEntries, fault, lastReport, traded, misEdited>>
  <2>1. /\ id \in Ids /\ id \notin Used /\ Used' = Used \cup {id}
        /\ id \notin Older /\ id \in 0 .. MaxOrders - 1
        /\ Older \subseteq 0 .. MaxOrders - 1
        /\ currentOrderID' \in 1 .. MaxOrders /\ Older' = Older \cup {id}
        /\ Used \subseteq Ids /\ Used \subseteq Older
    BY <1>1, <1>3, NewId DEF Issue
  <2>2. /\ \A s \in Slots : orderEntries[s].orderId \in Older
        /\ \A o \in Ids : book[o].clid \in Older
        /\ lastReport.id \in Older /\ lastReport.order \in Older
        /\ live \subseteq Used
    BY <1>1 DEF Fresh
  <2>3. /\ freeEntryPtr \in Slots /\ slot \in Slots /\ slot # orderEntryEnd
        /\ freeEntryPtr' \in 0 .. OrderSlots
    <3>1. OrderSlots \in Nat \ {0} /\ freeEntryPtr \in 0 .. OrderSlots
      BY <1>1, OrderSlotsAssumption DEF TypeOK
    <3>2. freeEntryPtr \in Slots /\ freeEntryPtr' \in 0 .. OrderSlots
      BY <1>3, <3>1 DEF Slots
    <3>3. freeEntries \in [Slots -> Slots]
      BY <1>1 DEF TypeOK
    <3>4. slot \in Slots
      BY <3>2, <3>3
    <3>5. QED
      BY <3>1, <3>2, <3>4 DEF Slots, orderEntryEnd
  <2>4. price \in Nat /\ volume \in Nat
    BY PricesAssumption, VolumesAssumption
  <2>5. r \in OrderEntry /\ r.orderId = id
    BY <2>1, <2>4 DEF NewEntry, DefaultEntry, OrderEntry, OrderStatus
  <2>6. b \in BookEntry /\ b.state = "sent" /\ b.clid = id
    BY <2>1, <2>4 DEF BookEntry
  <2>7. q \in Request /\ q.kind = "new" /\ q.id = id /\ q.order = id
    BY <2>1, <2>4 DEF Request
  <2> HIDE DEF r, b, q
  <2>8. /\ orderEntries' \in [Slots -> OrderEntry] /\ orderEntries'[slot].orderId = id
        /\ \A s \in Slots : s # slot => orderEntries'[s] = orderEntries[s]
    BY <1>1, <1>3, <2>3, <2>5 DEF EntryTypes
  <2>9. /\ book' \in [Ids -> BookEntry]
        /\ book'[id].state = "sent" /\ book'[id].clid = id
        /\ \A o \in Ids : o # id => book'[o] = book[o]
    BY <1>1, <1>3, <2>1, <2>6 DEF TypeOK
  <2>10. /\ requests' \in Seq(Request) /\ last \notin Places
         /\ Places' = Places \cup {last} /\ requests'[last] = q
         /\ \A n \in Places : requests'[n] = requests[n]
    BY <1>1, <1>3, <2>7, Queued DEF TypeOK
  <2>11. /\ parent' \in [Ids -> Ids] /\ parent'[id] = id
         /\ \A i \in Used : parent'[i] = parent[i]
    BY <1>1, <1>3, <2>1 DEF TypeOK, Issue
  <2>12. /\ orderIDVsEntryMap' \in
              [0 .. MaxOrders - 1 -> Slots \cup {orderEntryEnd}]
         /\ orderIDVsEntryMap'[id] = slot
         /\ \A i \in Older : orderIDVsEntryMap'[i] = orderIDVsEntryMap[i]
    BY <1>1, <1>3, <2>1, <2>3 DEF EntryTypes
  <2>13. SlotsSound'
    <3>1. id \notin live /\ \A s \in Slots : orderEntries[s].orderId # id
      BY <2>1, <2>2
    <3>2. QED
      BY <1>1, <1>3, <2>8, <3>1, SlotTaken
  <2>14. \A s \in Slots : s = slot => orderEntries[s].orderId \notin live
    <3>1. slot \in FreeSlots
      <4>1. OrderSlots \in Nat /\ freeEntryPtr \in freeEntryPtr .. OrderSlots - 1
        BY <1>3, <2>3, OrderSlotsAssumption DEF Slots
      <4>2. QED
        BY <4>1 DEF FreeSlots
    <3>2. QED
      BY <1>1, <3>1 DEF SlotsSound
  <2>15. TypeOK'
    <3>1. currentBalance' \in Int
      <4>1. price \in Int /\ volume \in Int
        BY <2>4
      <4>2. cost \in Int
        BY <4>1, CostType
      <4>3. currentBalance \in Int
        BY <1>1 DEF TypeOK
      <4> HIDE DEF cost
      <4>4. QED
        BY <1>3, <4>2, <4>3
    <3>2. totals' \in Totals /\ symbol' \in Totals
      <4>1. volume \in Int /\ volume * price \in Int
        BY <2>4
      <4>2. totals \in Totals /\ symbol \in Totals
        BY <1>1 DEF TypeOK
      <4>3. QED
        BY <1>3, <4>1, <4>2, AddPendingType DEF onSingleOrder
    <3>3. live' \subseteq Ids
      BY <1>3, <2>1, <2>2
    <3>4. /\ freeEntries' \in [Slots -> Slots] /\ traded' \in Trades
          /\ fault' \in {"none", "order id", "free entry", "division"}
          /\ misEdited' \in BOOLEAN
      BY <1>1, <1>3 DEF TypeOK
    <3>5. lastReport' \in
            [type : ReportType, id : {0} \cup Ids, order : {0} \cup Ids,
             side : Side, qty : Nat, price : Nat, cum : Nat, full : BOOLEAN]
      BY <1>1, <1>3 DEF TypeOK
    <3>6. QED
      BY <2>1, <2>3, <2>8, <2>9, <2>10, <2>11, <2>12,
         <3>1, <3>2, <3>3, <3>4, <3>5 DEF TypeOK
  <2>16. Fresh'
    <3>1. live' \subseteq Used'
      BY <1>3, <2>1, <2>2
    <3>2. \A s \in Slots : orderEntries'[s].orderId \in Older'
      BY <2>1, <2>2, <2>8
    <3>3. \A o \in Ids : book'[o].clid \in Older'
      BY <2>1, <2>2, <2>9
    <3>4. \A o \in Ids : book'[o].state # "none" => o \in Used'
      BY <1>1, <2>1, <2>9 DEF Fresh
    <3>5. \A n \in Places' :
            requests'[n].id \in Used' /\ requests'[n].order \in Used'
      BY <1>1, <2>1, <2>7, <2>10 DEF Fresh
    <3>6. lastReport'.id \in Older' /\ lastReport'.order \in Older'
      BY <1>3, <2>1, <2>2
    <3>7. QED
      BY <3>1, <3>2, <3>3, <3>4, <3>5, <3>6 DEF Fresh
  <2>17. Parents'
    <3>1. \A i \in Used' : parent'[i] \in Used' /\ parent'[parent'[i]] = parent'[i]
      <4>1. \A i \in Used : parent'[i] \in Used /\ parent'[parent'[i]] = parent'[i]
        BY <1>1, <2>11 DEF Parents
      <4>2. parent'[id] = id /\ parent'[parent'[id]] = id
        BY <2>11
      <4>3. QED
        BY <2>1, <4>1, <4>2
    <3>2. ASSUME NEW o \in Ids, book'[o].state # "none"
          PROVE  /\ parent'[o] = o /\ book'[o].clid \in Used'
                 /\ parent'[book'[o].clid] = o
      <4>1. CASE o = id
        BY <2>1, <2>9, <2>11, <4>1
      <4>2. CASE o # id
        <5>1. /\ book'[o] = book[o] /\ o \in Used /\ parent[o] = o
              /\ book[o].clid \in Used /\ parent[book[o].clid] = o
          BY <1>1, <2>9, <3>2, <4>2 DEF Fresh, Parents
        <5>2. QED
          BY <2>1, <2>11, <5>1
      <4>3. QED
        BY <4>1, <4>2
    <3>3. \A n \in Places' : parent'[requests'[n].id] = requests'[n].order
      <4>1. \A n \in Places : parent'[requests'[n].id] = requests'[n].order
        BY <1>1, <2>10, <2>11 DEF Parents, Fresh
      <4>2. parent'[requests'[last].id] = requests'[last].order
        BY <2>7, <2>10, <2>11
      <4>3. QED
        BY <2>10, <4>1, <4>2
    <3>4. lastReport'.type # "NONE" =>
            /\ lastReport'.id \in Used'
            /\ parent'[lastReport'.id] = lastReport'.order
      BY <1>1, <1>3, <2>1, <2>11 DEF Parents
    <3>5. QED
      BY <3>1, <3>2, <3>3, <3>4 DEF Parents
  <2>18. Links'
    <3>1. SUFFICES ASSUME NEW i \in Used',
                          orderIDVsEntryMap'[i] # orderEntryEnd,
                          parent'[i] \in live'
                   PROVE  orderEntries'[orderIDVsEntryMap'[i]].orderId = parent'[i]
      BY DEF Links, HasEntry, SlotOf, Holds
    <3>2. CASE i = id
      BY <2>8, <2>11, <2>12, <3>2
    <3>3. CASE i \in Used
      <4>1. /\ orderIDVsEntryMap'[i] = orderIDVsEntryMap[i]
            /\ parent'[i] = parent[i] /\ parent[i] \in Used
        BY <1>1, <2>1, <2>11, <2>12, <3>3 DEF Parents
      <4>2. parent[i] \in live
        BY <1>3, <2>1, <3>1, <4>1
      <4>3. /\ HasEntry(i) /\ Holds(SlotOf(i), parent[i])
            /\ SlotOf(i) \in Slots /\ SlotOf(i) = orderIDVsEntryMap[i]
        BY <1>1, <2>1, <3>1, <3>3, <4>1, <4>2, EntryFound
           DEF Links, HasEntry, SlotOf
      <4>4. SlotOf(i) # slot
        BY <2>14, <4>2, <4>3 DEF Holds
      <4>5. QED
        BY <2>8, <4>1, <4>3, <4>4 DEF Holds
    <3>4. QED
      BY <2>1, <3>2, <3>3
  <2>19. Queue'
    <3>1. \A n \in Places : requests[n].id \in Used /\ requests[n].order \in Used
      BY <1>1 DEF Fresh
    <3>2. \A n \in Places' : requests'[n].kind = "new" =>
            /\ requests'[n].id = requests'[n].order
            /\ book'[requests'[n].order].state = "sent"
      <4>1. \A n \in Places : requests[n].kind = "new" =>
              /\ requests[n].id = requests[n].order
              /\ book'[requests[n].order].state = "sent"
        BY <1>1, <2>1, <2>9, <3>1 DEF Queue
      <4>2. QED
        BY <2>7, <2>9, <2>10, <4>1
    <3>3. \A n \in Places' : requests'[n].kind # "new" =>
            /\ requests'[n].id # requests'[n].order
            /\ \A o \in Ids : book'[o].clid # requests'[n].id
      <4>1. \A n \in Places : requests[n].kind # "new" =>
              /\ requests[n].id # requests[n].order
              /\ \A o \in Ids : book'[o].clid # requests[n].id
        BY <1>1, <2>1, <2>9, <3>1 DEF Queue
      <4>2. QED
        BY <2>7, <2>10, <4>1
    <3>4. \A k, n \in Places' : k # n => requests'[k].id # requests'[n].id
      BY <1>1, <2>1, <2>7, <2>10, <3>1 DEF Queue
    <3>5. QED
      BY <3>2, <3>3, <3>4 DEF Queue
  <2>20. BookLive'
    BY <1>1, <1>3, <2>1, <2>2, <2>9 DEF BookLive
  <2>21. ReportSafe'
    <3>1. lastReport' = lastReport /\ lastReport.order # id /\ lastReport.id # id
      BY <1>3, <2>1, <2>2
    <3>2. lastReport.type # "NONE" =>
            /\ lastReport.id \in Used /\ lastReport.order \in Ids
            /\ orderIDVsEntryMap'[lastReport.id] = orderIDVsEntryMap[lastReport.id]
            /\ book'[lastReport.order] = book[lastReport.order]
      BY <1>1, <2>1, <2>9, <2>12, <3>1, IdsUsed DEF Parents
    <3>3. Terminal(lastReport) =>
            /\ book'[lastReport.order].state \notin {"sent", "open"}
            /\ orderIDVsEntryMap'[lastReport.id] # orderEntryEnd =>
                 lastReport.order \in live'
      BY <1>1, <1>3, <3>2 DEF ReportSafe, Terminal, HasEntry
    <3>4. lastReport.type = "REPLACED" =>
            /\ lastReport.id # lastReport.order
            /\ book'[lastReport.order].state = "open"
            /\ book'[lastReport.order].clid = lastReport.id
      BY <1>1, <3>2 DEF ReportSafe
    <3>5. Refusal(lastReport) =>
            /\ \A n \in Places' : requests'[n].id # lastReport.id
            /\ \A o \in Ids : book'[o].clid # lastReport.id
      BY <1>1, <2>7, <2>9, <2>10, <3>1 DEF ReportSafe
    <3>6. QED
      BY <1>1, <3>1, <3>3, <3>4, <3>5
         DEF ReportSafe, Terminal, Refusal, HasEntry, Places
  <2>22. ReportsFindOrder'
    <3> DEFINE Leads(i, s) == /\ orderIDVsEntryMap'[i] # orderEntryEnd
                              /\ orderIDVsEntryMap'[i] = s
    <3>1. SUFFICES ASSUME NEW o \in live', NEW s \in Slots,
                          orderEntries'[s].orderId = o
                   PROVE  /\ Leads(book'[o].clid, s)
                          /\ \A n \in Places' : requests'[n].order = o =>
                               Leads(requests'[n].id, s)
      BY DEF ReportsFindOrder, Holds, HasEntry, SlotOf, Places
    <3>2. \A n \in Places : requests[n].id \in Used /\ requests[n].order \in Used
      BY <1>1 DEF Fresh
    <3>3. CASE o = id
      <4>1. s = slot
        BY <2>1, <2>2, <2>8, <3>1, <3>3
      <4>2. Leads(id, s)
        BY <2>3, <2>12, <4>1
      <4>3. \A n \in Places' : requests'[n].order = o => requests'[n].id = id
        BY <2>1, <2>7, <2>10, <3>2, <3>3
      <4>4. QED
        BY <2>9, <3>3, <4>2, <4>3
    <3>4. CASE o \in live
      <4>1. o # id /\ s # slot /\ o \in Ids /\ book'[o] = book[o]
        BY <2>1, <2>2, <2>8, <2>9, <3>1, <3>4
      <4>2. Holds(s, o)
        BY <2>8, <3>1, <4>1 DEF Holds
      <4>3. book[o].clid \in Older /\ Leads(book[o].clid, s)
        BY <1>1, <2>2, <2>12, <3>4, <4>1, <4>2 DEF ReportsFindOrder, HasEntry, SlotOf
      <4>4. ASSUME NEW n \in Places', requests'[n].order = o
            PROVE  Leads(requests'[n].id, s)
        <5>1. n \in Places /\ requests'[n] = requests[n]
          BY <2>7, <2>10, <4>1, <4>4
        <5>2. requests[n].id \in Older
          BY <2>1, <3>2, <5>1
        <5>3. HasEntry(requests[n].id) /\ SlotOf(requests[n].id) = s
          BY <1>1, <3>4, <4>2, <4>4, <5>1 DEF ReportsFindOrder, Places
        <5>4. QED
          BY <2>12, <5>1, <5>2, <5>3 DEF HasEntry, SlotOf
      <4>5. QED
        BY <4>1, <4>3, <4>4
    <3>5. QED
      BY <1>3, <3>3, <3>4
  <2>23. QED
    BY <2>13, <2>15, <2>16, <2>17, <2>18, <2>19, <2>20, <2>21, <2>22 DEF IInv
<1>4. QED
  <2>1. id < MaxOrders /\ Send("new", id, id, price, volume, 0)
          => requests' = Append(requests, q)
    BY DEF Send
  <2>2. QED
    BY <1>2, <1>3, <2>1 DEF NewOrder

-----------------------------------------------------------------------------
(* The invariant.                                                          *)

LEMMA Initially ==
  ASSUME Init
  PROVE  IInv
<1>1. TypeOK
  <2>1. /\ OrderSlots \in Nat \ {0} /\ MaxOrders \in Nat \ {0} /\ Deposit \in Nat
    BY OrderSlotsAssumption, MaxOrdersAssumption, DepositAssumption
  <2>2. DefaultEntry \in OrderEntry
    BY DEF DefaultEntry, OrderEntry, OrderStatus
  <2>3. NoTotals \in Totals
    BY DEF NoTotals, Totals
  <2>4. NotSent \in BookEntry
    BY DEF NotSent, BookEntry, Side
  <2>5. NoReport \in
          [type : ReportType, id : {0} \cup Ids, order : {0} \cup Ids,
           side : Side, qty : Nat, price : Nat, cum : Nat, full : BOOLEAN]
    BY DEF NoReport, ReportType, Side
  <2>6. requests \in Seq(Request)
    BY DEF Init
  <2>7. /\ freeEntryPtr \in 0 .. OrderSlots /\ currentOrderID \in 1 .. MaxOrders
        /\ currentBalance \in Int /\ traded \in Trades /\ live \subseteq Ids
        /\ misEdited \in BOOLEAN /\ parent \in [Ids -> Ids]
        /\ freeEntries \in [Slots -> Slots]
        /\ fault \in {"none", "order id", "free entry", "division"}
    <3>1. freeEntryPtr \in 0 .. OrderSlots /\ currentOrderID \in 1 .. MaxOrders
      BY <2>1 DEF Init
    <3>2. currentBalance \in Int /\ traded \in Trades /\ live \subseteq Ids
      BY <2>1 DEF Init, Trades, NoTrades
    <3>3. parent \in [Ids -> Ids] /\ freeEntries \in [Slots -> Slots]
      BY DEF Init
    <3>4. /\ misEdited \in BOOLEAN
          /\ fault \in {"none", "order id", "free entry", "division"}
      BY DEF Init
    <3>5. QED
      BY <3>1, <3>2, <3>3, <3>4
  <2>8. QED
    BY <2>2, <2>3, <2>4, <2>5, <2>6, <2>7 DEF Init, TypeOK
<1>2. Used = {} /\ Places = {} /\ Older = {0}
  BY DEF Init, Used, Places, Older
<1>3. Fresh /\ Parents /\ Links /\ Queue /\ BookLive /\ ReportSafe
  BY <1>2 DEF Init, Fresh, Parents, Links, Queue, BookLive, ReportSafe,
              DefaultEntry, NotSent, NoReport, Terminal, Refusal
<1>4. SlotsSound
  <2>1. OrderSlots \in Nat \ {0}
    BY OrderSlotsAssumption
  <2>2. FreeSlots = Slots
    BY <2>1 DEF Init, FreeSlots, Slots
  <2>3. QED
    BY <2>1, <2>2 DEF Init, SlotsSound, Slots
<1>5. ReportsFindOrder
  BY DEF Init, ReportsFindOrder
<1>6. QED
  BY <1>1, <1>3, <1>4, <1>5 DEF IInv

LEMMA Preserved ==
  ASSUME IInv, [Next]_vars
  PROVE  IInv'
<1>1. CASE UNCHANGED vars
  <2>1. /\ UNCHANGED <<orderIDVsEntryMap, orderEntries, freeEntries, freeEntryPtr,
                       currentOrderID, totals, symbol, currentBalance, fault>>
        /\ UNCHANGED <<requests, book, lastReport, parent, live, traded, misEdited>>
    BY <1>1 DEF vars, managerVars, brokerVars, historyVars
  <2>2. QED
    BY <2>1, Unchanged DEF IInv, TypeOK
<1>2. CASE Strategy
  <2>1. ASSUME NEW side \in Side, NEW price \in Prices, NEW volume \in Volumes,
               NewOrder(side, price, volume)
        PROVE  IInv'
    BY <2>1, NewOrderStep
  <2>2. ASSUME NEW id \in Used, CancelOrder(id)
        PROVE  IInv'
    BY <2>2, CancelOrderStep
  <2>3. ASSUME NEW id \in Used, NEW price \in Prices, NEW volume \in EditVolumes,
               EditOrder(id, price, volume)
        PROVE  IInv'
    BY <2>3, EditOrderStep
  <2>4. QED
    BY <1>2, <2>1, <2>2, <2>3 DEF Strategy, Used
<1>3. CASE Broker
  <2>1. ASSUME NEW o \in Ids, NEW price \in Prices, NEW qty \in 1 .. book[o].volume,
               Fill(o, qty, price)
        PROVE  IInv'
    BY <2>1, FillStep
  <2>2. QED
    BY <1>3, <2>1, AcceptNewStep, RejectNewStep, AcceptCancelStep,
       RejectCancelStep, AcceptEditStep, RejectEditStep, ResendStep DEF Broker
<1>4. QED
  BY <1>1, <1>2, <1>3 DEF Next

(* Every variable keeps its type, whatever the volumes and the prices, for *)
(* any number of slots and ids.                                            *)
THEOREM Typing == Spec => []TypeOK
<1>1. Init => IInv
  BY Initially
<1>2. IInv /\ [Next]_vars => IInv'
  BY Preserved
<1>3. IInv => TypeOK
  BY DEF IInv
<1>4. QED
  BY <1>1, <1>2, <1>3, PTL DEF Spec

(* The free list of OrderManager never holds a slot twice and never one of *)
(* an order that is not over, and no order that is not over lacks its      *)
(* slot, even when reports are dropped or come twice.                      *)
THEOREM Soundness == Spec => []SlotsSound
<1>1. Init => IInv
  BY Initially
<1>2. IInv /\ [Next]_vars => IInv'
  BY Preserved
<1>3. IInv => SlotsSound
  BY DEF IInv
<1>4. QED
  BY <1>1, <1>2, <1>3, PTL DEF Spec

(* The ids the broker answers with lead to the entry of their own order as *)
(* long as it is not over, even after edits have replaced its id.          *)
THEOREM Finding == Spec => []ReportsFindOrder
<1>1. Init => IInv
  BY Initially
<1>2. IInv /\ [Next]_vars => IInv'
  BY Preserved
<1>3. IInv => ReportsFindOrder
  BY DEF IInv
<1>4. QED
  BY <1>1, <1>2, <1>3, PTL DEF Spec

=============================================================================
