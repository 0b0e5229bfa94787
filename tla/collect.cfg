SPECIFICATION Spec
CONSTANTS
  Invoice = {i1}
  Payment = {p1, p2}
  Txn = {t1, t2}
  Key = {k1}
  Credential = {c1}
  Session = {s1, s2}
  Price = {2}
  Amount = {1, 2}
  None = None
  MaxVoid = 0
  m1 = m1
  a1 = a1
  Policy = "first_payment"
  Kind <- Bookings
  Op <- OpsCollect
SYMMETRY Ids
INVARIANTS
  TypeOK
  NoOverCollection
  RefundsCovered
  VoidMeansUnpaid
  GatewayPostsOnce
PROPERTIES
  ConfirmedWhenCovered
  ImplementsAccount
  ImplementsContract
  SettledTxnIsFinal
CHECK_DEADLOCK FALSE
