SPECIFICATION Spec
CONSTANTS
  Invoice = {i1, i2}
  Payment = {p1, p2}
  Txn = {}
  Key = {}
  Credential = {c1, c2}
  Session = {s1, s2}
  Price = {1, 2}
  Amount = {1, 2}
  None = None
  MaxVoid = 0
  m1 = m1
  a1 = a1
  Policy = "first_payment"
  Kind <- Bookings
  Op <- OpsLife
SYMMETRY Ids
INVARIANTS
  OneCheckInPerBooking
PROPERTIES
  CheckedInWhenPaid
  ConfirmedOutlivesExpiry
  EndedBookingStaysEnded
CHECK_DEADLOCK FALSE
