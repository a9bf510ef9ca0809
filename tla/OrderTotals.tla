----------------------------- MODULE OrderTotals -----------------------------
(***************************************************************************)
(* What OrderManager promises of its totals: the properties that add up    *)
(* over the orders that are not over and over the requests under way.      *)
(***************************************************************************)
EXTENDS OrderManager, Functions

Outstanding == [s \in Slots |-> Unfilled(orderEntries[s])]
Reserved == [s \in Slots |-> orderEntries[s].price * Outstanding[s]]

LiveOf(side) == {s \in LiveSlots : orderEntries[s].side = side}

(* The edits not answered yet, by their place in the queue.                *)
EditsOf(side) ==
  {n \in 1 .. Len(requests) :
     requests[n].kind = "edit" /\ book[requests[n].order].side = side}

Changes == [n \in 1 .. Len(requests) |-> requests[n].change]

(* The pending shares of the manager are exactly the unfilled shares of    *)
(* the orders that are not over, plus what the edits under way would       *)
(* change, however fills, cancels and edits cross (as long as no edit went *)
(* astray).                                                                *)
PendingSharesExact ==
  ~misEdited /\ fault = "none" =>
    \A side \in Side :
      totals.pendingShares[side] =
        SumFunctionOnSet(Outstanding, LiveOf(side))
          + SumFunctionOnSet(Changes, EditsOf(side))

(* What buying orders have bound: their unfilled shares, the increases     *)
(* asked for, and what has been bought, all at the limit of the order.     *)
IncreasesOf(side) == {n \in EditsOf(side) : requests[n].change > 0}
Increases == [n \in 1 .. Len(requests) |-> requests[n].price * requests[n].change]

Bound ==
  SumFunctionOnSet(Reserved, LiveOf("BUY"))
    + SumFunctionOnSet(Increases, IncreasesOf("BUY"))
    + traded.limit["BUY"]

(* No money appears: the balance and what is bound never exceed the        *)
(* deposit, in particular after a cancel or an edit that lost the race     *)
(* against a fill (edits that keep the price, none astray).                *)
MoneyNeverCreated == ~misEdited => currentBalance + Bound <= Deposit

(* Without edits the balance is the deposit less what open orders reserve, *)
(* what bought shares were paid, and what fills came cheaper than their    *)
(* limit: that difference is reserved with the order and never given back. *)
(* Rejects and cancels give back exactly the unfilled part of an order,    *)
(* and selling changes nothing.                                            *)
Improvement == traded.limit["BUY"] - traded.paid["BUY"]

BalanceExact ==
  fault = "none" =>
    currentBalance = Deposit - SumFunctionOnSet(Reserved, LiveOf("BUY"))
                             - traded.paid["BUY"] - Improvement

(* The value the SymbolState keeps for open orders is the value of their   *)
(* unfilled shares, plus exactly what fills differed from the limit price: *)
(* a fill takes off what was paid, not what was reserved (without edits).  *)
SymbolValueExact ==
  fault = "none" =>
    \A side \in Side :
      symbol.pendingShareValues[side] =
        SumFunctionOnSet(Reserved, LiveOf(side))
          + traded.limit[side] - traded.paid[side]

(* Manager and SymbolState agree on shares pending, being cancelled and    *)
(* owned.                                                                  *)
SymbolAgrees ==
  /\ symbol.pendingShares = totals.pendingShares
  /\ symbol.pendingCancellations = totals.pendingCancellations
  /\ symbol.ownShares = totals.ownShares

=============================================================================
