SPECIFICATION Spec
CONSTANTS
  Invoice = {i1}
  Payment = {p1}
  Txn = {}
  Key = {}
  Credential = {c1}
  Session = {s1, s2}
  Price = {2}
  Amount = {1, 2}
  None = None
  MaxVoid = 1
  m1 = m1
  a1 = a1
  Policy = "first_payment"
  Kind <- Bookings
  Op <- OpsVoid
SYMMETRY Ids
INVARIANTS
  VoidMeansUnpaid
CHECK_DEADLOCK FALSE
