SPECIFICATION FairSpec
CONSTANTS
  Txn = {t1}
  Call = {c1, c2}
  Amount = 1
  MaxSession = 1
  MaxKeyless = 1
  MaxRefund = 1
  Fault = {"crash", "rpc", "timeout"}
  NullHash = FALSE
  None = None
PROPERTIES
  CompletedIsSettled
  StripeRefundRecorded
CHECK_DEADLOCK FALSE
