\* Orders and cancels of both sides, fills at the limit or better, reports
\* that arrive once and in order.
SPECIFICATION Spec
CONSTANTS
  OrderSlots = 2
  MaxOrders = 5
  Volumes = {2}
  Prices = {1, 2}
  EditVolumes = {}
  Deposit = 6
  MayLose = FALSE
  MayResend = FALSE
INVARIANTS TypeOK BalanceExact SymbolValueExact
CHECK_DEADLOCK FALSE
