SPECIFICATION Spec
CONSTANTS
  Invoice = {m1, a1, i1}
  Payment = {p1, p2}
  Txn = {t1}
  Key = {}
  Credential = {c1}
  Session = {s1, s2}
  Price = {0, 2}
  Amount = {1, 2}
  None = None
  MaxVoid = 1
  m1 = m1
  a1 = a1
  Policy = "full_payment"
  Kind <- Sold
  Op <- OpsSold
SYMMETRY Ids
INVARIANTS
  FullRefundEndsMembership
  PlanFollowsMoney
  NoOverCollection
PROPERTIES
  ImplementsAccount
CHECK_DEADLOCK FALSE
