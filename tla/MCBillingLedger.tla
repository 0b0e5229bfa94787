--------------------------- MODULE MCBillingLedger ---------------------------
(***************************************************************************)
(* Small instances of BillingLedger for TLC: what the invoices bill, which *)
(* RPCs are in use, and the symmetry of ids nothing distinguishes.         *)
(***************************************************************************)
EXTENDS BillingLedger, TLC

CONSTANTS
    m1, a1      \* the invoices of a membership and of an academy subscription

Bookings == [i \in Invoice |-> "booking"]

\* One invoice of each kind that is no booking.
Sold == [i \in Invoice |-> CASE i = m1 -> "membership"
                             [] i = a1 -> "academy"
                             [] OTHER -> "shop"]

StaffOps   == {"record_payment", "create_refund"}
GatewayOps == {"start_gateway_checkout", "record_gateway_payment_service",
               "mark_gateway_transaction_failed_service",
               "create_gateway_refund_service"}
BookingOps == {"create_booking", "cancel_booking", "reschedule_booking",
               "mark_booking_no_show", "mark_booking_completed",
               "auto_complete_past_bookings", "ensure_booking_qr",
               "qr_confirm_checkin"}
ExpiryOps  == {"expire_stale_booking_holds"}
ShopOps    == {"create_shop_sale", "return_shop_sale"}

\* Staff and gateway money on a booking, which may be cancelled meanwhile.
OpsCollect == StaffOps \cup GatewayOps \cup {"create_booking", "cancel_booking"}
\* All that happens to bookings, with payments in cash only.
OpsLife    == BookingOps \cup ExpiryOps \cup {"record_payment", "disconnect"}
\* What is sold without a booking.
OpsSold    == StaffOps \cup ShopOps
                   \cup {"sell_plan", "activate_subscription_if_due",
                         "void_invoice", "start_gateway_checkout",
                         "record_gateway_payment_service"}
\* Calls that lock the same rows in different orders.
OpsLive    == ExpiryOps \cup {"create_booking", "record_payment",
                              "cancel_booking", "qr_confirm_checkin"}
OpsVoid    == {"create_booking", "record_payment", "void_invoice"}
OpsReprice == {"create_booking", "record_payment", "reschedule_booking"}

Ids == Permutations(Payment) \cup Permutations(Session)
           \cup Permutations(Credential)
=============================================================================
