\* Reports that are lost or come twice.
SPECIFICATION Spec
CONSTANTS
  OrderSlots = 2
  MaxOrders = 5
  Volumes = {2}
  Prices = {1}
  EditVolumes = {3}
  Deposit = 8
  MayLose = TRUE
  MayResend = TRUE
INVARIANTS SlotsSound ReportsFindOrder FilledNeverAhead
CHECK_DEADLOCK FALSE
