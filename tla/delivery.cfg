SPECIFICATION Spec
CONSTANTS
  Txn = {t1}
  Call = {c1, c2}
  Amount = 2
  MaxSession = 2
  MaxKeyless = 1
  MaxRefund = 2
  Fault = {"crash", "rpc", "timeout"}
  NullHash = TRUE
  None = None
SYMMETRY Calls
INVARIANTS
  TypeOK
  PostedOnlyWhenCompleted
  SucceededRefIsCharge
  RefundsBacked
  GivenOnce
  ProcessedMeansSettled
CHECK_DEADLOCK FALSE
