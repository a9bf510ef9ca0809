---------------------------- MODULE OrderManager ----------------------------
(***************************************************************************)
(* The order book-keeping of execution/OrderManager.cpp with the balance   *)
(* of its BrokerProfile and the totals of one symbol.                      *)
(*                                                                         *)
(* The manager runs in one thread: each of its handlers is one action.     *)
(* What races is the broker at the other end of the session, which this    *)
(* module models from the messages the handlers accept: a strategy may     *)
(* cancel or edit an order while the broker fills it.  Requests wait in a  *)
(* queue, in the order they were sent, and the broker answers the oldest   *)
(* one at any time; a report is handled in the step that emits it, because *)
(* its delay is covered by the delay of the requests behind it.            *)
(*                                                                         *)
(* The names are those of the code.  A message that a full queue drops     *)
(* (ExecutionEngine::notify) and one the broker sends again are modelled   *)
(* when MayLose and MayResend say so.                                      *)
(***************************************************************************)
EXTENDS SymbolState, Sequences, FiniteSets

CONSTANTS
  OrderSlots,   \* orderEntrySlots_
  MaxOrders,    \* maxOrders_, the size of orderIDVsEntryMap_
  Volumes,      \* volumes a strategy asks for (bounded for TLC)
  Prices,       \* prices a strategy asks for, or a fill is made at
  EditVolumes,  \* volumes of an edit; {} when the strategy edits nothing
  Deposit,      \* the balance set at the start (BrokerProfile::setBalance)
  MayLose,      \* a report may be dropped on its way to the manager
  MayResend     \* the broker may send its last report again

ASSUME OrderSlotsAssumption == OrderSlots \in Nat \ {0}
ASSUME MaxOrdersAssumption == MaxOrders \in Nat \ {0}
ASSUME VolumesAssumption ==
  /\ Volumes \subseteq Nat \ {0}
  /\ EditVolumes \subseteq Nat \ {0}
ASSUME PricesAssumption == Prices \subseteq Nat \ {0}
ASSUME DepositAssumption == Deposit \in Nat
ASSUME ChannelAssumption == MayLose \in BOOLEAN /\ MayResend \in BOOLEAN

VARIABLES
  orderIDVsEntryMap,  \* order id -> slot or orderEntryEnd
  orderEntries,       \* slot -> OrderEntry
  freeEntries,        \* the slots from freeEntryPtr on are free
  freeEntryPtr,
  currentOrderID,     \* the next id
  totals,             \* the manager's own pending and owned shares
  symbol,             \* the same totals kept by the SymbolState
  currentBalance,     \* of the BrokerProfile
  fault               \* why the process has aborted, if it has

managerVars == <<orderIDVsEntryMap, orderEntries, freeEntries, freeEntryPtr,
                 currentOrderID, totals, symbol, currentBalance, fault>>

VARIABLES
  requests,           \* sent to the broker and not yet answered
  book,               \* the orders as the broker sees them
  lastReport          \* what the broker sent last

brokerVars == <<requests, book, lastReport>>

VARIABLES             \* history, which no step depends on
  parent,             \* order id -> the order it was issued for
  live,               \* orders whose end the manager has not been told
  traded,             \* value of all fills, at the limit and as paid
  misEdited           \* an edit went to an order that was over, overtook
                      \* another, or its reject reached another order

historyVars == <<parent, live, traded, misEdited>>

vars == <<managerVars, brokerVars, historyVars>>

Slots == 0 .. OrderSlots - 1
Ids == 1 .. MaxOrders - 1
orderEntryEnd == OrderSlots + 1

OrderStatus == {"UNKNOWN", "PENDING_NEW", "NEW", "PARTIALLY_FILLED", "FILLED",
                "REJECTED", "PENDING_CANCEL", "PENDING_REPLACE"}

(* An OrderEntry: status_ is a mask of OrderStatus bits.                   *)
OrderEntry ==
  [orderId : {0} \cup Ids, side : Side \cup {"UNKNOWN"},
   price : Nat, volume : Nat, filled : Nat,
   newPrice : Nat, newVolume : Nat, status : SUBSET OrderStatus]

DefaultEntry ==
  [orderId |-> 0, side |-> "UNKNOWN", price |-> 0, volume |-> 0, filled |-> 0,
   newPrice |-> 0, newVolume |-> 0, status |-> {"UNKNOWN"}]

NewEntry(id, side, price, volume) ==
  [DefaultEntry EXCEPT !.orderId = id, !.side = side, !.price = price,
                       !.volume = volume, !.status = {"PENDING_NEW"}]

(* A mistake: the shares already filled count as unfilled.                 *)
UnfilledAll(e) == e.volume

Unfilled(e) == e.volume - e.filled

(* getEditableOrderEntry finds an entry, and which slot it is in.          *)
HasEntry(id) == orderIDVsEntryMap[id] # orderEntryEnd
SlotOf(id) == orderIDVsEntryMap[id]
EntryOf(id) == orderEntries[SlotOf(id)]

-----------------------------------------------------------------------------
(* BrokerProfile.  The commission rate is Decimal<long long, 3>(1), which  *)
(* is 10 once converted to the four decimals of a Price; Decimal's *=      *)
(* divides the factor by 10^4 first, in integers.                          *)
CommissionRate == 10
PriceScale == 10000

calculateCommission(price, volume) ==
  (price * volume) * (CommissionRate \div PriceScale)

calculateCost(price, volume, side) ==
  IF side = "BUY"
  THEN price * volume + calculateCommission(price, volume)
  ELSE calculateCommission(price, volume)

(* A mistake: the new volume is paid for again in full.                    *)
EditCostInFull(e, price, volume) ==
  calculateCost(price, volume, e.side)
    - calculateCost(e.price, Unfilled(e), e.side)

(* What an edit costs beyond what the order has already been debited.      *)
EditCost(e, price, volume) ==
  calculateCost(price, volume - e.filled, e.side)
    - calculateCost(e.price, Unfilled(e), e.side)

-----------------------------------------------------------------------------
Trades == [limit : [Side -> Int], paid : [Side -> Int]]

NoTrades == [limit |-> [d \in Side |-> 0], paid |-> [d \in Side |-> 0]]

AddTrade(t, side, limit, paid) ==
  [t EXCEPT !.limit[side] = @ + limit, !.paid[side] = @ + paid]

NoReport ==
  [type |-> "NONE", id |-> 0, order |-> 0, side |-> "BUY",
   qty |-> 0, price |-> 0, cum |-> 0, full |-> FALSE]

NotSent ==
  [state |-> "none", side |-> "BUY", price |-> 0, volume |-> 0, cum |-> 0,
   clid |-> 0]

Init ==
  /\ orderIDVsEntryMap = [i \in 0 .. MaxOrders - 1 |-> orderEntryEnd]
  /\ orderEntries = [s \in Slots |-> DefaultEntry]
  /\ freeEntries = [i \in Slots |-> i]
  /\ freeEntryPtr = 0
  /\ currentOrderID = 1
  /\ totals = NoTotals
  /\ symbol = NoTotals
  /\ currentBalance = Deposit
  /\ fault = "none"
  /\ requests = << >>
  /\ book = [o \in Ids |-> NotSent]
  /\ lastReport = NoReport
  /\ parent = [i \in Ids |-> i]
  /\ live = {}
  /\ traded = NoTrades
  /\ misEdited = FALSE

(* The Debug build, the default one, checks every vector subscript; an     *)
(* integer division by zero traps in every build.  Either ends the         *)
(* process, so what the handler had changed by then does not matter.       *)
Abort(reason) ==
  /\ fault' = reason
  /\ UNCHANGED <<orderIDVsEntryMap, orderEntries, freeEntries, freeEntryPtr,
                 currentOrderID, totals, symbol, currentBalance>>

Send(kind, id, order, price, volume, change) ==
  requests' = Append(requests,
    [kind |-> kind, id |-> id, order |-> order, price |-> price,
     volume |-> volume, change |-> change])

-----------------------------------------------------------------------------
(* Requests of a strategy: BrokerProfile and OrderManager::handleEvent of  *)
(* a SingleOrderEvent, CancelOrderEvent or EditOrderEvent.  A request that *)
(* is refused (no id, no slot, no funds, no such order) changes nothing.   *)

Issue(id, order) ==
  /\ currentOrderID' = id + 1
  /\ parent' = [parent EXCEPT ![id] = order]

NewOrder(side, price, volume) ==
  LET id == currentOrderID
      slot == freeEntries[freeEntryPtr]
      cost == calculateCost(price, volume, side)
  IN
  /\ id <= MaxOrders
  /\ freeEntryPtr < OrderSlots
  /\ currentBalance >= cost
  /\ \/ /\ id = MaxOrders
        /\ Abort("order id")
        /\ UNCHANGED <<brokerVars, historyVars>>
     \/ /\ id < MaxOrders
        /\ currentBalance' = currentBalance - cost
        /\ orderIDVsEntryMap' = [orderIDVsEntryMap EXCEPT ![id] = slot]
        /\ orderEntries' = [orderEntries EXCEPT
                              ![slot] = NewEntry(id, side, price, volume)]
        /\ totals' = onSingleOrder(totals, side, price, volume)
        /\ symbol' = onSingleOrder(symbol, side, price, volume)
        /\ freeEntryPtr' = freeEntryPtr + 1
        /\ Issue(id, id)
        /\ Send("new", id, id, price, volume, 0)
        /\ book' = [book EXCEPT ![id] =
                     [state |-> "sent", side |-> side, price |-> price,
                      volume |-> volume, cum |-> 0, clid |-> id]]
        /\ live' = live \cup {id}
        /\ UNCHANGED <<freeEntries, fault, lastReport, traded, misEdited>>

CancelOrder(orderId) ==
  LET id == currentOrderID
      slot == SlotOf(orderId)
      e == EntryOf(orderId)
  IN
  /\ HasEntry(orderId)
  /\ id <= MaxOrders
  /\ \/ /\ id = MaxOrders
        /\ Abort("order id")
        /\ UNCHANGED <<brokerVars, historyVars>>
     \/ /\ id < MaxOrders
        /\ orderIDVsEntryMap' = [orderIDVsEntryMap EXCEPT ![id] = slot]
        /\ orderEntries' = [orderEntries EXCEPT
                              ![slot].status = @ \cup {"PENDING_CANCEL"}]
        /\ totals' = onSingleOrderCancel(totals, e.side, Unfilled(e))
        /\ symbol' = onSingleOrderCancel(symbol, e.side, Unfilled(e))
        /\ Issue(id, parent[orderId])
        /\ Send("cancel", id, parent[orderId], 0, 0, 0)
        /\ UNCHANGED <<freeEntries, freeEntryPtr, currentBalance, fault,
                       book, lastReport, live, traded, misEdited>>

EditPending(order) ==
  \E n \in 1 .. Len(requests) :
    requests[n].kind = "edit" /\ requests[n].order = order

(* The slot of freeEntries_[freeEntryPtr_] is read, though never used, and *)
(* there is no such element when no slot is free.                          *)
EditOrder(orderId, price, volume) ==
  LET id == currentOrderID
      slot == SlotOf(orderId)
      e == EntryOf(orderId)
      additionalCost == EditCost(e, price, volume)
  IN
  /\ HasEntry(orderId)
  /\ id <= MaxOrders
  /\ volume >= e.filled
  /\ additionalCost > 0 => currentBalance >= additionalCost
  /\ \/ /\ freeEntryPtr >= OrderSlots
        /\ Abort("free entry")
        /\ UNCHANGED <<brokerVars, historyVars>>
     \/ /\ freeEntryPtr < OrderSlots /\ id = MaxOrders
        /\ Abort("order id")
        /\ UNCHANGED <<brokerVars, historyVars>>
     \/ /\ freeEntryPtr < OrderSlots /\ id < MaxOrders
        /\ currentBalance' = IF additionalCost > 0
                             THEN currentBalance - additionalCost
                             ELSE currentBalance
        /\ orderIDVsEntryMap' = [orderIDVsEntryMap EXCEPT ![id] = slot]
        /\ orderEntries' = [orderEntries EXCEPT
                              ![slot].status = @ \cup {"PENDING_REPLACE"},
                              ![slot].newPrice = price,
                              ![slot].newVolume = volume]
        /\ totals' = AddPending(totals, e.side, volume - e.volume, 0)
        /\ symbol' = onSingleOrderEdit(symbol, e.side, e.price, price,
                                       e.volume, volume)
        /\ Issue(id, parent[orderId])
        /\ Send("edit", id, parent[orderId], price, volume, volume - e.volume)
        /\ misEdited' = (misEdited \/ parent[orderId] \notin live
                                   \/ EditPending(parent[orderId]))
        /\ UNCHANGED <<freeEntries, freeEntryPtr, fault,
                       book, lastReport, live, traded>>

-----------------------------------------------------------------------------
(* Reports of the broker: OrderManager::handleEvent of an                  *)
(* ExecutionReportEvent or OrderCancelRejectEvent, by type.  Each changes  *)
(* the variables of the manager, live, traded and misEdited.                *)

handled == <<orderIDVsEntryMap, orderEntries, freeEntries, freeEntryPtr,
             totals, symbol, currentBalance, fault, live, traded, misEdited>>

(* A mistake: the slot is not put back into the list.                      *)
ReleaseSlotUnsaved(slot) ==
  /\ freeEntryPtr' = freeEntryPtr - 1
  /\ freeEntries' = freeEntries

(* A mistake: the pointer moves the wrong way.                             *)
ReleaseSlotForward(slot) ==
  /\ freeEntryPtr' = freeEntryPtr + 1
  /\ freeEntries' = [freeEntries EXCEPT ![freeEntryPtr - 1] = slot]

ReleaseSlot(slot) ==
  /\ freeEntryPtr' = freeEntryPtr - 1
  /\ freeEntries' = [freeEntries EXCEPT ![freeEntryPtr - 1] = slot]

(* A mistake: every other id of the same slot goes as well.                *)
ForgetSlot(ids) ==
  orderIDVsEntryMap' =
    [i \in DOMAIN orderIDVsEntryMap |->
       IF \E j \in ids : SlotOf(i) = SlotOf(j)
       THEN orderEntryEnd ELSE SlotOf(i)]

(* The assignments of orderEntryEnd_ to entries of the map.                *)
Forget(ids) ==
  orderIDVsEntryMap' =
    [i \in DOMAIN orderIDVsEntryMap |->
       IF i \in ids THEN orderEntryEnd ELSE SlotOf(i)]

handleSingleOrderAck(m) ==
  /\ orderEntries' = [orderEntries EXCEPT ![SlotOf(m.id)].status = {"NEW"}]
  /\ UNCHANGED <<orderIDVsEntryMap, freeEntries, freeEntryPtr, totals,
                 symbol, currentBalance, fault, live, traded, misEdited>>

handleSingleOrderReject(m) ==
  LET e == EntryOf(m.id)
      volume == Unfilled(e)
  IN
  /\ orderEntries' = [orderEntries EXCEPT
                        ![SlotOf(m.id)].status = {"REJECTED"}]
  /\ totals' = onSingleOrderReject(totals, e.side, e.price, volume)
  /\ symbol' = onSingleOrderReject(symbol, e.side, e.price, volume)
  /\ ReleaseSlot(SlotOf(e.orderId))
  /\ Forget({e.orderId})
  /\ currentBalance' = currentBalance + calculateCost(e.price, volume, e.side)
  /\ live' = live \ {m.order}
  /\ UNCHANGED <<fault, traded, misEdited>>

(* A mistake: every fill counts.                                           *)
CountsAlways(m, e) == TRUE

(* A fill counts only if it continues the cumulative volume of the entry.  *)
Counts(m, e) == m.cum = e.filled + m.qty

handleOrderFill(m) ==
  LET slot == SlotOf(m.id)
      e == EntryOf(m.id)
  IN
  \/ /\ ~Counts(m, e)
     /\ UNCHANGED handled
  \/ /\ Counts(m, e)
     /\ DividesByZero(symbol, m.side, m.qty)
     /\ Abort("division")
     /\ UNCHANGED <<live, traded, misEdited>>
  \/ /\ Counts(m, e)
     /\ ~DividesByZero(symbol, m.side, m.qty)
     /\ orderEntries' = [orderEntries EXCEPT
          ![slot].filled = e.filled + m.qty,
          ![slot].status = {IF m.full THEN "FILLED" ELSE "PARTIALLY_FILLED"}]
     /\ totals' = onOrderFill(totals, m.side, m.price, m.qty)
     /\ symbol' = onOrderFill(symbol, m.side, m.price, m.qty)
     /\ IF m.full
        THEN /\ ReleaseSlot(slot)
             /\ Forget({m.id})
             /\ live' = live \ {m.order}
        ELSE UNCHANGED <<freeEntries, freeEntryPtr, orderIDVsEntryMap, live>>
     /\ traded' = AddTrade(traded, m.side, m.qty * e.price, m.qty * m.price)
     /\ UNCHANGED <<currentBalance, fault, misEdited>>

handleCanceledOrder(m) ==
  LET slot == SlotOf(m.id)
      e == EntryOf(m.id)
      volume == Unfilled(e)
  IN
  /\ totals' = AddPending(AddCancelling(totals, e.side, -volume),
                          e.side, -volume, 0)
  /\ symbol' = onCancelOrderAck(symbol, e.side, e.price, volume)
  /\ ReleaseSlot(slot)
  /\ Forget({e.orderId, m.id})
  /\ currentBalance' = currentBalance + calculateCost(e.price, volume, e.side)
  /\ live' = live \ {m.order}
  /\ UNCHANGED <<orderEntries, fault, traded, misEdited>>

handleCancelOrderReject(m) ==
  LET e == EntryOf(m.id)
  IN
  /\ orderEntries' = [orderEntries EXCEPT
                        ![SlotOf(m.id)].status = @ \ {"PENDING_CANCEL"}]
  /\ totals' = onCancelOrderReject(totals, e.side, Unfilled(e))
  /\ symbol' = onCancelOrderReject(symbol, e.side, Unfilled(e))
  /\ Forget({m.id})
  /\ UNCHANGED <<freeEntries, freeEntryPtr, currentBalance, fault, live,
                 traded, misEdited>>

handleEditOrderAck(m) ==
  LET slot == SlotOf(m.id)
      e == EntryOf(m.id)
  IN
  /\ orderEntries' = [orderEntries EXCEPT
                        ![slot].volume = e.newVolume,
                        ![slot].price = e.newPrice,
                        ![slot].status = @ \ {"PENDING_REPLACE"}]
  /\ Forget({e.orderId})
  /\ UNCHANGED <<freeEntries, freeEntryPtr, totals, symbol, currentBalance,
                 fault, live, traded, misEdited>>

handleEditOrderReject(m) ==
  LET e == EntryOf(m.id)
      additionalCost == EditCost(e, e.newPrice, e.newVolume)
  IN
  /\ totals' = AddPending(totals, e.side, e.volume - e.newVolume, 0)
  /\ symbol' = onEditOrderReject(symbol, e.side, e.price, e.newPrice,
                                 e.volume, e.newVolume)
  /\ orderEntries' = [orderEntries EXCEPT
                        ![SlotOf(m.id)].status = @ \ {"PENDING_REPLACE"}]
  /\ Forget({m.id})
  /\ currentBalance' = IF additionalCost > 0
                       THEN currentBalance + additionalCost
                       ELSE currentBalance
  /\ misEdited' = (misEdited \/ e.orderId # m.order)
  /\ UNCHANGED <<freeEntries, freeEntryPtr, fault, live, traded>>

Handle(m) ==
  \/ ~HasEntry(m.id) /\ UNCHANGED handled
  \/ /\ HasEntry(m.id)
     /\ \/ m.type = "NEW" /\ handleSingleOrderAck(m)
        \/ m.type = "REJECTED" /\ handleSingleOrderReject(m)
        \/ m.type = "TRADE" /\ handleOrderFill(m)
        \/ m.type = "CANCELED" /\ handleCanceledOrder(m)
        \/ m.type = "REPLACED" /\ handleEditOrderAck(m)
        \/ m.type = "CANCEL_REJECT" /\ handleCancelOrderReject(m)
        \/ m.type = "REPLACE_REJECT" /\ handleEditOrderReject(m)

-----------------------------------------------------------------------------
(* The broker.  It answers every request once, may reject any of them,     *)
(* fills an open order up to its volume at the limit price or better, and  *)
(* rejects a cancel or edit of an order that is no longer open.            *)

Report(type, id, order) ==
  [type |-> type, id |-> id, order |-> order, side |-> book[order].side,
   qty |-> 0, price |-> 0, cum |-> 0, full |-> FALSE]

Trade(order, qty, price) ==
  [type |-> "TRADE", id |-> book[order].clid, order |-> order,
   side |-> book[order].side, qty |-> qty, price |-> price,
   cum |-> book[order].cum + qty,
   full |-> book[order].cum + qty = book[order].volume]

(* The report reaches the manager, or is dropped on the way.               *)
Emit(m) ==
  /\ lastReport' = m
  /\ Handle(m) \/ (MayLose /\ UNCHANGED handled)
  /\ UNCHANGED <<currentOrderID, parent>>

Answer(kind) == requests # << >> /\ Head(requests).kind = kind

AcceptNew ==
  LET o == Head(requests).order IN
  /\ Answer("new")
  /\ requests' = Tail(requests)
  /\ book' = [book EXCEPT ![o].state = "open"]
  /\ Emit(Report("NEW", o, o))

RejectNew ==
  LET o == Head(requests).order IN
  /\ Answer("new")
  /\ requests' = Tail(requests)
  /\ book' = [book EXCEPT ![o].state = "rejected"]
  /\ Emit(Report("REJECTED", o, o))

AtLeastAsGood(side, price, limit) ==
  IF side = "BUY" THEN price <= limit ELSE price >= limit

Fill(o, qty, price) ==
  LET b == book[o] IN
  /\ b.state = "open"
  /\ b.cum + qty <= b.volume
  /\ AtLeastAsGood(b.side, price, b.price)
  /\ book' = [book EXCEPT
                ![o].cum = b.cum + qty,
                ![o].state = IF b.cum + qty = b.volume THEN "filled" ELSE @]
  /\ Emit(Trade(o, qty, price))
  /\ UNCHANGED requests

AcceptCancel ==
  LET q == Head(requests) IN
  /\ Answer("cancel")
  /\ book[q.order].state = "open"
  /\ requests' = Tail(requests)
  /\ book' = [book EXCEPT ![q.order].state = "canceled"]
  /\ Emit(Report("CANCELED", q.id, q.order))

RejectCancel ==
  LET q == Head(requests) IN
  /\ Answer("cancel")
  /\ requests' = Tail(requests)
  /\ Emit(Report("CANCEL_REJECT", q.id, q.order))
  /\ UNCHANGED book

AcceptEdit ==
  LET q == Head(requests) IN
  /\ Answer("edit")
  /\ book[q.order].state = "open"
  /\ q.volume > book[q.order].cum
  /\ requests' = Tail(requests)
  /\ book' = [book EXCEPT ![q.order].price = q.price,
                          ![q.order].volume = q.volume,
                          ![q.order].clid = q.id]
  /\ Emit(Report("REPLACED", q.id, q.order))

RejectEdit ==
  LET q == Head(requests) IN
  /\ Answer("edit")
  /\ requests' = Tail(requests)
  /\ Emit(Report("REPLACE_REJECT", q.id, q.order))
  /\ UNCHANGED book

(* A report sent again (with a new sequence number, so that the session    *)
(* lets it through).                                                       *)
Resend ==
  /\ MayResend
  /\ lastReport.type # "NONE"
  /\ Handle(lastReport)
  /\ UNCHANGED <<currentOrderID, parent, brokerVars>>

-----------------------------------------------------------------------------
Strategy ==
  \/ \E side \in Side, price \in Prices, volume \in Volumes :
       NewOrder(side, price, volume)
  \/ \E id \in 1 .. currentOrderID - 1 :
       \/ CancelOrder(id)
       \/ \E price \in Prices, volume \in EditVolumes :
            EditOrder(id, price, volume)

Broker ==
  \/ AcceptNew \/ RejectNew
  \/ \E o \in Ids, price \in Prices : \E qty \in 1 .. book[o].volume :
       Fill(o, qty, price)
  \/ AcceptCancel \/ RejectCancel
  \/ AcceptEdit \/ RejectEdit
  \/ Resend

Next == fault = "none" /\ (Strategy \/ Broker)

Spec == Init /\ [][Next]_vars

-----------------------------------------------------------------------------
Request ==
  [kind : {"new", "cancel", "edit"}, id : Ids, order : Ids,
   price : Nat, volume : Nat, change : Int]

BookEntry ==
  [state : {"none", "sent", "open", "filled", "canceled", "rejected"},
   side : Side, price : Nat, volume : Nat, cum : Nat, clid : {0} \cup Ids]

ReportType ==
  {"NONE", "NEW", "REJECTED", "TRADE", "CANCELED", "REPLACED",
   "CANCEL_REJECT", "REPLACE_REJECT"}

TypeOK ==
  /\ orderIDVsEntryMap \in [0 .. MaxOrders - 1 -> Slots \cup {orderEntryEnd}]
  /\ orderEntries \in [Slots -> OrderEntry]
  /\ freeEntries \in [Slots -> Slots]
  /\ freeEntryPtr \in 0 .. OrderSlots
  /\ currentOrderID \in 1 .. MaxOrders
  /\ totals \in Totals /\ symbol \in Totals
  /\ currentBalance \in Int
  /\ fault \in {"none", "order id", "free entry", "division"}
  /\ requests \in Seq(Request)
  /\ book \in [Ids -> BookEntry]
  /\ lastReport \in
       [type : ReportType, id : {0} \cup Ids, order : {0} \cup Ids,
        side : Side, qty : Nat, price : Nat, cum : Nat, full : BOOLEAN]
  /\ parent \in [Ids -> Ids]
  /\ live \subseteq Ids
  /\ traded \in Trades
  /\ misEdited \in BOOLEAN

FreeSlots == {freeEntries[i] : i \in freeEntryPtr .. OrderSlots - 1}
Holds(slot, order) == orderEntries[slot].orderId = order

(* The free list is right whatever is cancelled, edited, filled, lost or   *)
(* sent again in whatever order: every slot is either free, once, or       *)
(* belongs to one order whose end has not been reported, and every such    *)
(* order still has its slot.                                               *)
SlotsSound ==
  /\ freeEntryPtr \in 0 .. OrderSlots
  /\ \A i, j \in freeEntryPtr .. OrderSlots - 1 :
       i # j => freeEntries[i] # freeEntries[j]
  /\ \A s \in Slots : s \in FreeSlots <=> orderEntries[s].orderId \notin live
  /\ \A o \in live : \E s \in Slots : Holds(s, o)
  /\ \A s, t \in Slots :
       s # t /\ orderEntries[s].orderId = orderEntries[t].orderId
         => orderEntries[s].orderId \notin live

(* The id the broker uses for an order that is not over, and the id of     *)
(* every request still to be answered about it, lead to its own entry.     *)
ReportsFindOrder ==
  \A o \in live : \A s \in Slots : Holds(s, o) =>
    /\ HasEntry(book[o].clid) /\ SlotOf(book[o].clid) = s
    /\ \A n \in 1 .. Len(requests) : requests[n].order = o =>
         HasEntry(requests[n].id) /\ SlotOf(requests[n].id) = s

LiveSlots == {s \in Slots : orderEntries[s].orderId \in live}

(* The manager never believes an order more filled than it is, even when   *)
(* reports are lost or come twice.                                         *)
FilledNeverAhead ==
  \A s \in LiveSlots :
    orderEntries[s].filled <= book[orderEntries[s].orderId].cum

=============================================================================
