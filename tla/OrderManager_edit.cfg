\* Edits of the volume, crossing fills and cancels.
SPECIFICATION Spec
CONSTANTS
  OrderSlots = 2
  MaxOrders = 5
  Volumes = {2}
  Prices = {1}
  EditVolumes = {1, 3}
  Deposit = 8
  MayLose = FALSE
  MayResend = FALSE
INVARIANTS PendingSharesExact MoneyNeverCreated SymbolAgrees
CHECK_DEADLOCK FALSE
