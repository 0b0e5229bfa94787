SPECIFICATION FairSpec
CONSTANTS
  Invoice = {i1, i2}
  Payment = {p1}
  Txn = {}
  Key = {}
  Credential = {c1, c2}
  Session = {s1, s2}
  Price = {2}
  Amount = {1, 2}
  None = None
  MaxVoid = 0
  m1 = m1
  a1 = a1
  Policy = "first_payment"
  Kind <- Bookings
  Op <- OpsLive
PROPERTIES
  StaleHoldReleased
  EveryCallEnds
CHECK_DEADLOCK FALSE
