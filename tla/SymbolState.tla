---------------------------- MODULE SymbolState -----------------------------
(***************************************************************************)
(* The running totals of execution/SymbolState.cpp, kept per symbol; the   *)
(* OrderManager keeps the same totals over all symbols and changes most of *)
(* them in the same way, so both use these operators.                      *)
(*                                                                         *)
(* The averages, the best bid and the update counter (which nothing        *)
(* reads) are left out; the division of onOrderFill, which can trap, is    *)
(* the predicate DividesByZero.                                            *)
(***************************************************************************)
EXTENDS Integers

Side == {"BUY", "SELL"}

Totals ==
  [pendingShares        : [Side -> Int],
   pendingCancellations : [Side -> Int],
   pendingShareValues   : [Side -> Int],
   ownShares            : Int]

NoTotals ==
  [pendingShares        |-> [d \in Side |-> 0],
   pendingCancellations |-> [d \in Side |-> 0],
   pendingShareValues   |-> [d \in Side |-> 0],
   ownShares            |-> 0]

(* Shares in orders that are open, and their value.                        *)
AddPending(t, side, volume, value) ==
  [t EXCEPT !.pendingShares[side] = @ + volume,
            !.pendingShareValues[side] = @ + value]

(* Shares of open orders whose cancellation was asked for.                 *)
AddCancelling(t, side, volume) ==
  [t EXCEPT !.pendingCancellations[side] = @ + volume]

onSingleOrder(t, side, price, volume) ==
  AddPending(t, side, volume, volume * price)

onSingleOrderReject(t, side, price, volume) ==
  AddPending(t, side, -volume, -(volume * price))

onOrderFill(t, side, price, volume) ==
  [AddPending(t, side, -volume, -(volume * price)) EXCEPT
     !.ownShares = IF side = "BUY" THEN @ + volume ELSE @ - volume]

(* avgBuyPrice_ is divided by the shares owned after the purchase.         *)
DividesByZero(t, side, volume) == side = "BUY" /\ t.ownShares + volume = 0

onSingleOrderCancel(t, side, volume) == AddCancelling(t, side, volume)

onCancelOrderReject(t, side, volume) == AddCancelling(t, side, -volume)

(* A mistake: the value of the cancelled shares stays.                     *)
onCancelOrderAckValued(t, side, price, volume) ==
  AddPending(AddCancelling(t, side, -volume), side, -volume, 0)

onCancelOrderAck(t, side, price, volume) ==
  AddPending(AddCancelling(t, side, -volume),
             side, -volume, -(volume * price))

onSingleOrderEdit(t, side, oldPrice, newPrice, oldVolume, newVolume) ==
  AddPending(t, side, newVolume - oldVolume,
             newVolume * newPrice - oldVolume * oldPrice)

(* A mistake: a rejected edit leaves the new volume pending.               *)
onEditOrderRejectKeeping(t, side, oldPrice, newPrice, oldVolume, newVolume) ==
  AddPending(t, side, 0, oldVolume * oldPrice - newVolume * newPrice)

onEditOrderReject(t, side, oldPrice, newPrice, oldVolume, newVolume) ==
  AddPending(t, side, oldVolume - newVolume,
             oldVolume * oldPrice - newVolume * newPrice)

=============================================================================
