------------------------------ MODULE Liquidity ------------------------------
(***************************************************************************)
(* BidLiquidity and AskLiquidity of market/Liquidity.{h,cpp}, as operators *)
(* on one side of a book: a circular window of volumes, one for each tick, *)
(* that slides with the prices it is given.                                *)
(*                                                                         *)
(* A price is its raw value, a number of 1/PriceScale.  The offset of a    *)
(* price is computed from raw values, while the arithmetic of Decimal with *)
(* integers moves a price by whole units: a tick is TickSize in the first  *)
(* and TickSize * PriceScale in the second.  The price that stands for     *)
(* none is made from an integer, which is taken for a raw value.           *)
(***************************************************************************)
EXTENDS Integers, FiniteSetsExt

CONSTANTS
  Size,       \* size_, a power of two
  TickSize,   \* tickSize_, a power of ten
  PriceScale  \* inpow10(PriceNumDecimals)

ASSUME LiquidityAssumption ==
  Size \in Nat \ {0} /\ TickSize \in Nat \ {0} /\ PriceScale \in Nat \ {0}

NoPrice == -1
NoVolume == -1
Indices == 0 .. Size - 1
NoLevels == [i \in Indices |-> 0]
midOffset == Size \div 2
Tick == TickSize * PriceScale

NoLiquidity ==
  [volumes |-> NoLevels, startPrice |-> NoPrice, startIndex |-> 0, endIndex |-> Size - 1,
   bestPrice |-> NoPrice, bestVolume |-> NoVolume]

(* C++ divides towards zero.                                               *)
getOffsetFromStartIndex(side, price) ==
  LET distance == price - side.startPrice
  IN IF distance >= 0 THEN distance \div TickSize ELSE -((-distance) \div TickSize)

getIndexFromPrice(side, price) ==
  (getOffsetFromStartIndex(side, price) + side.startIndex) % Size

getPriceFromIndex(side, index) ==
  side.startPrice + ((index - side.startIndex) % Size) * Tick

-----------------------------------------------------------------------------
(* What shifting does.                                                     *)
Centered(price) == price - midOffset * Tick

Put(side, index, volume) == [side EXCEPT !.volumes[index] = volume]

Without(side, indices) ==
  [side EXCEPT !.volumes = [i \in Indices |-> IF i \in indices THEN 0 ELSE @[i]]]

Moved(side, ticks) ==
  [side EXCEPT !.startIndex = (@ + ticks) % Size,
               !.endIndex = (@ + ticks) % Size,
               !.startPrice = @ + ticks * Tick]

CenteredAt(side, price, volume) ==
  [Put(side, (side.startIndex + midOffset) % Size, volume) EXCEPT !.startPrice = Centered(price)]

Emptied(side) ==
  [side EXCEPT !.volumes = NoLevels, !.bestPrice = NoPrice, !.bestVolume = NoVolume]

(* Towards the better prices: what falls out of the window is lost.        *)
BidShiftTowardsHigherPrices(side, distance, price, volume) ==
  LET ticks == distance - Size + 1
      moved == Moved(Without(side, {(side.endIndex + n) % Size : n \in 1 .. ticks}), ticks)
  IN IF ticks < Size THEN Put(moved, moved.endIndex, volume)
     ELSE CenteredAt(Emptied(side), price, volume)

AskShiftTowardsLowerPrices(side, distance, price, volume) ==
  LET ticks == -distance
      moved == Moved(Without(side, {(side.startIndex - n) % Size : n \in 1 .. ticks}), -ticks)
  IN IF ticks < Size THEN Put(moved, moved.startIndex, volume)
     ELSE CenteredAt(Emptied(side), price, volume)

(* Towards the worse prices, when the window may move: asks, when it would *)
(* lose no level; bids, when it loses nothing but levels.                  *)
Lost(distance) ==
  LET ticks == IF distance < 0 THEN -distance ELSE distance - Size + 1
  IN IF ticks < Size THEN ticks ELSE Size

BidMayShift(side, distance) ==
  \A n \in 0 .. Lost(distance) - 1 : side.volumes[(side.endIndex - n) % Size] > 0

AskMayShift(side, distance) ==
  \A n \in 0 .. Lost(distance) - 1 : side.volumes[(side.startIndex + n) % Size] = 0

BidShiftTowardsLowerPrices(side, distance, price, volume) ==
  LET moved == Moved(side, -Lost(distance))
  IN IF Lost(distance) < Size THEN Put(moved, moved.startIndex, volume)
     ELSE CenteredAt(side, price, volume)

AskShiftTowardsHigherPrices(side, distance, price, volume) ==
  LET moved == Moved(side, Lost(distance))
  IN IF Lost(distance) < Size THEN Put(moved, moved.endIndex, volume)
     ELSE CenteredAt(side, price, volume)

-----------------------------------------------------------------------------
(* The best level, after a volume was put at a price.  When the best one   *)
(* was deleted the search goes to the worse prices, from its index to the  *)
(* end it must not reach: endIndex_ for bids, startIndex_ for asks.        *)
BestOf(side, price, step, stop, none) ==
  LET index(n) == (getIndexFromPrice(side, price) + n * step) % Size
      found == {n \in Indices : /\ side.volumes[index(n)] > 0
                                /\ \A m \in 0 .. n : index(m) # stop}
  IN IF found = {} THEN [side EXCEPT !.bestPrice = NoPrice, !.bestVolume = none]
     ELSE [side EXCEPT !.bestPrice = getPriceFromIndex(side, index(Min(found))),
                       !.bestVolume = side.volumes[index(Min(found))]]

WithBest(side, price, volume, better, step, stop, none) ==
  IF volume > 0
  THEN IF side.bestPrice = NoPrice \/ better
       THEN [side EXCEPT !.bestPrice = price, !.bestVolume = volume] ELSE side
  ELSE IF price = side.bestPrice THEN BestOf(side, price, step, stop, none) ELSE side

(* update(): the side and the status it returns.                           *)
Located(side, price) ==
  IF side.startPrice = NoPrice THEN [side EXCEPT !.startPrice = Centered(price)] ELSE side

Done(side) == [side |-> side, status |-> "SUCCESSFULL"]
OutOfRange(side) == [side |-> side, status |-> "PRICE_OUT_OF_RANGE"]

BidUpdate(before, price, volume) ==
  LET side == Located(before, price)
      distance == getOffsetFromStartIndex(side, price)
      best(s) == Done(WithBest(s, price, volume, s.bestPrice <= price, -1, s.endIndex, 0))
  IN IF distance \in Indices
     THEN best(Put(side, (distance + side.startIndex) % Size, volume))
     ELSE IF distance >= Size
     THEN best(BidShiftTowardsHigherPrices(side, distance, price, volume))
     ELSE IF BidMayShift(side, distance)
     THEN best(BidShiftTowardsLowerPrices(side, distance, price, volume))
     ELSE OutOfRange(side)

AskUpdate(before, price, volume) ==
  LET side == Located(before, price)
      distance == getOffsetFromStartIndex(side, price)
      best(s) == Done(WithBest(s, price, volume, s.bestPrice >= price, 1, s.startIndex, NoVolume))
  IN IF distance \in Indices
     THEN best(Put(side, (distance + side.startIndex) % Size, volume))
     ELSE IF distance < 0
     THEN best(AskShiftTowardsLowerPrices(side, distance, price, volume))
     ELSE IF AskMayShift(side, distance)
     THEN best(AskShiftTowardsHigherPrices(side, distance, price, volume))
     ELSE OutOfRange(side)

-----------------------------------------------------------------------------
(* copyTo(): the best level and, from its index to the end of the window,  *)
(* as many volumes as the copy has room for, the best first.               *)
TopLevels(side, room, step, last) ==
  LET top == getIndexFromPrice(side, side.bestPrice)
      reached(n) == \E m \in 0 .. n - 1 : (top + m * step) % Size = last
  IN [bestPrice |-> side.bestPrice, bestVolume |-> side.bestVolume,
      levels |-> [n \in 0 .. room - 1 |->
                    IF side.bestPrice = NoPrice \/ reached(n) THEN 0
                    ELSE side.volumes[(top + n * step) % Size]]]

BidCopy(side, room) == TopLevels(side, room, -1, side.startIndex)
AskCopy(side, room) == TopLevels(side, room, 1, side.endIndex)

=============================================================================
