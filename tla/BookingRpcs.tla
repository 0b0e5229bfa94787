----------------------------- MODULE BookingRpcs -----------------------------
(***************************************************************************)
(* The RPCs that issue invoices, void them, and move a booking through its *)
(* life, as far as money and row locks are concerned: when a booking is    *)
(* and whether its field is free belong to the schedule, not to this       *)
(* module, so the checks of times are nondeterministic here.               *)
(***************************************************************************)
EXTENDS ClubRows

-----------------------------------------------------------------------------
(* Issuing.  The new rows are invisible to every other session until they  *)
(* commit, so each of these RPCs is one step.                              *)

Issue(i, price) ==
    /\ invoiceStatus[i] = "none"
    /\ invoiceStatus' = [invoiceStatus EXCEPT ![i] = "issued"]
    /\ total' = [total EXCEPT ![i] = price]

\* _create_booking_internal, nothing collected: the booking holds its slot
\* until the payment hold expires.
CreateBookingUnpaid(i, price, c) ==
    /\ "create_booking" \in Op
    /\ Kind[i] = "booking"
    /\ RoomForCredential
    /\ Issue(i, price)
    /\ booking' = [booking EXCEPT ![i] = "pending_payment"]
    /\ MintQr(i, c)
    /\ UNCHANGED <<allocated, refunded, returned, holdExpired, plan, payments,
                   gateway, sess>>

\* _create_booking_internal with a payment: any positive part of the price
\* confirms the booking.  The payment carries no idempotency key.
CreateBookingPaid(i, price, p, amt, c) ==
    /\ "create_booking" \in Op
    /\ Kind[i] = "booking"
    /\ RoomForCredential
    /\ RoomForPayment
    /\ amt <= price
    /\ Issue(i, price)
    /\ InsertPayment(p, i, amt, None)
    /\ booking' = [booking EXCEPT ![i] = "confirmed"]
    /\ MintQr(i, c)
    /\ UNCHANGED <<refunded, returned, holdExpired, plan, gateway, sess>>

\* sell_club_membership, create_enrollment_with_subscription.  The plan waits
\* for a payment even when its price is nothing.
SellPlan(i, price) ==
    /\ "sell_plan" \in Op
    /\ Kind[i] \in {"membership", "academy"}
    /\ Issue(i, price)
    /\ plan' = [plan EXCEPT ![i] = "pending"]
    /\ UNCHANGED <<allocated, refunded, returned, booking, holdExpired, qr,
                   payments, gateway, sess>>

\* activate_subscription_if_due: staff start an academy subscription under the
\* 'manual' policy, or one that its policy's payments have reached.  A
\* membership has no such call.
ActivateSubscription(i) ==
    /\ "activate_subscription_if_due" \in Op
    /\ Kind[i] = "academy"
    /\ plan[i] = "pending"
    /\ Policy = "manual" \/ PlanDue(i, allocated[i])
    /\ plan' = [plan EXCEPT ![i] = "active"]
    /\ UNCHANGED <<invoiceStatus, money, booking, holdExpired, qr, payments,
                   gateway, sess>>

\* create_shop_sale: a sale may be left unpaid, or paid in full or in part.
CreateShopSaleUnpaid(i, price) ==
    /\ "create_shop_sale" \in Op
    /\ Kind[i] = "shop"
    /\ Issue(i, price)
    /\ UNCHANGED <<allocated, refunded, returned, booking, holdExpired, qr,
                   plan, payments, gateway, sess>>

CreateShopSale(i, price, p, amt, key) ==
    /\ "create_shop_sale" \in Op
    /\ Kind[i] = "shop"
    /\ RoomForPayment
    /\ amt <= price
    /\ Issue(i, price)
    /\ InsertPayment(p, i, amt, key)
    /\ UNCHANGED <<refunded, returned, booking, holdExpired, qr, plan, gateway,
                   sess>>

\* Time passes: a payment hold runs out.
HoldExpires(i) ==
    /\ booking[i] = "pending_payment"
    /\ ~holdExpired[i]
    /\ holdExpired' = [holdExpired EXCEPT ![i] = TRUE]
    /\ UNCHANGED <<invoiceStatus, money, booking, qr, plan, payments, gateway,
                   sess>>

-----------------------------------------------------------------------------
(* void_invoice: the payments are summed without a lock, the UPDATE waits  *)
(* for the row and looks only at its status again.                         *)

VoidRead(s, i) ==
    /\ "void_invoice" \in Op
    /\ RoomForVoid
    /\ IsIdle(s)
    /\ invoiceStatus[i] # "none"
    /\ allocated[i] = 0
    /\ Become(s, [Idle EXCEPT
            !.pc = "void.write", !.inv = i])
    /\ UNCHANGED rows

VoidIssued(is) ==
    invoiceStatus' = [i \in Invoice |->
        IF i \in is /\ invoiceStatus[i] = "issued" THEN "void"
        ELSE invoiceStatus[i]]

VoidWrite(s) ==
    /\ sess[s].pc = "void.write"
    /\ Free(s, InvoiceRow(sess[s].inv))
    /\ VoidIssued({sess[s].inv})
    /\ End(s)
    /\ UNCHANGED <<money, booking, holdExpired, qr, plan, payments, gateway>>

-----------------------------------------------------------------------------
(* cancel_booking: booking, then credentials, then invoice.                *)

CancelBook(s, i) ==
    /\ "cancel_booking" \in Op
    /\ IsIdle(s)
    /\ Free(s, BookingRow(i))
    /\ booking[i] \in {"pending_payment", "confirmed"}
    /\ Become(s, [Idle EXCEPT
            !.pc = "cancel.qr", !.inv = i, !.locks = {BookingRow(i)}])
    /\ UNCHANGED rows

\* One UPDATE revokes every credential that is active now.
CancelQr(s) ==
    LET active == Active(sess[s].inv) IN
    /\ sess[s].pc = "cancel.qr"
    /\ \A c \in active : Free(s, QrRow(c))
    /\ Become(s, [sess[s] EXCEPT
            !.pc = "cancel.invoice",
            !.locks = @ \cup {QrRow(c) : c \in active}])
    /\ UNCHANGED rows

Revoked(cs) ==
    [c \in Credential |->
        IF c \in cs /\ qr[c].status = "active"
        THEN [qr[c] EXCEPT !.status = "revoked"] ELSE qr[c]]

\* Mutant: the invoice is voided with the booking, paid or not.
CancelInvoiceAlways(s) ==
    LET i == sess[s].inv IN
    /\ sess[s].pc = "cancel.invoice"
    /\ Free(s, InvoiceRow(i))
    /\ VoidIssued({i})
    /\ booking' = [booking EXCEPT ![i] = "cancelled"]
    /\ qr' = Revoked({c \in Credential : QrRow(c) \in sess[s].locks})
    /\ End(s)
    /\ UNCHANGED <<money, holdExpired, plan, payments, gateway>>

\* Under the invoice's lock the payments are summed; an unpaid invoice is
\* voided with the booking.
CancelInvoice(s) ==
    LET i == sess[s].inv IN
    /\ sess[s].pc = "cancel.invoice"
    /\ Free(s, InvoiceRow(i))
    /\ VoidIssued(IF allocated[i] = 0 THEN {i} ELSE {})
    /\ booking' = [booking EXCEPT ![i] = "cancelled"]
    /\ qr' = Revoked({c \in Credential : QrRow(c) \in sess[s].locks})
    /\ End(s)
    /\ UNCHANGED <<money, holdExpired, plan, payments, gateway>>

-----------------------------------------------------------------------------
(* expire_stale_booking_holds: one transaction cancels a batch of holds,   *)
(* one booking at a time, and keeps every lock to its end.  pg_cron starts *)
(* it again only when its last run has ended.                              *)

ExpireBegin(s) ==
    LET stale == {i \in Invoice : booking[i] = "pending_payment"
                                  /\ holdExpired[i]} IN
    /\ "expire_stale_booking_holds" \in Op
    /\ IsIdle(s)
    /\ \A t \in Session : sess[t].pc \notin {"expire.book", "expire.void"}
    /\ stale # {}
    /\ Become(s, [Idle EXCEPT
            !.pc = "expire.book", !.todo = stale])
    /\ UNCHANGED rows

\* One turn of the loop: booking i is cancelled if it still awaits payment,
\* and rest is left to do.
ExpireTake(s, i, still, rest) ==
    /\ sess[s].pc = "expire.book"
    /\ i \in sess[s].todo
    /\ Free(s, BookingRow(i))
    /\ Become(s, [sess[s] EXCEPT
            !.todo = rest,
            !.inv = i,
            !.pc = IF still /\ allocated[i] = 0 THEN "expire.void" ELSE @,
            !.locks = IF still THEN @ \cup {BookingRow(i)} ELSE @,
            !.cancels = IF still THEN @ \cup {i} ELSE @])
    /\ UNCHANGED rows

\* Mutants: the status is the one the batch was read with; a hold that was
\* paid in part is spared; a booking that changed is tried again.
ExpireStaleRead(s, i) == ExpireTake(s, i, TRUE, sess[s].todo \ {i})

ExpireUnpaidOnly(s, i) ==
    ExpireTake(s, i, booking[i] = "pending_payment" /\ allocated[i] = 0,
               sess[s].todo \ {i})

ExpireAgain(s, i) ==
    LET still == booking[i] = "pending_payment" IN
    ExpireTake(s, i, still,
               IF still THEN sess[s].todo \ {i} ELSE sess[s].todo)

\* The UPDATE waits for the booking and looks at its status again.  The
\* payments are summed without locking the invoice.
ExpireBook(s, i) ==
    ExpireTake(s, i, booking[i] = "pending_payment", sess[s].todo \ {i})

ExpireVoid(s) ==
    LET i == sess[s].inv  issued == invoiceStatus[i] = "issued" IN
    /\ sess[s].pc = "expire.void"
    /\ Free(s, InvoiceRow(i))
    /\ Become(s, [sess[s] EXCEPT
            !.pc = "expire.book",
            !.locks = IF issued THEN @ \cup {InvoiceRow(i)} ELSE @,
            !.voids = IF issued THEN @ \cup {i} ELSE @])
    /\ UNCHANGED rows

ExpireCommit(s) ==
    /\ sess[s].pc = "expire.book"
    /\ sess[s].todo = {}
    /\ booking' = [i \in Invoice |->
            IF i \in sess[s].cancels THEN "cancelled" ELSE booking[i]]
    /\ VoidIssued(sess[s].voids)
    /\ End(s)
    /\ UNCHANGED <<money, holdExpired, qr, plan, payments, gateway>>

-----------------------------------------------------------------------------
(* reschedule_booking: an unpaid booking takes the price of its new time.  *)

\* The payments are summed without locking the invoice.
RescheduleBook(s, i, price) ==
    /\ "reschedule_booking" \in Op
    /\ IsIdle(s)
    /\ Free(s, BookingRow(i))
    /\ booking[i] \in {"pending_payment", "confirmed"}
    /\ RoomForCredential
    /\ Become(s, [Idle EXCEPT
            !.pc = IF allocated[i] = 0 /\ price # total[i] THEN "resch.price"
                   ELSE "resch.qr",
            !.inv = i, !.amt = price, !.locks = {BookingRow(i)}])
    /\ UNCHANGED rows

\* The UPDATE waits for the invoice and looks at nothing again; full marks
\* the invoice as repriced.
ReschedulePrice(s) ==
    /\ sess[s].pc = "resch.price"
    /\ Free(s, InvoiceRow(sess[s].inv))
    /\ Become(s, [sess[s] EXCEPT
            !.pc = "resch.qr", !.full = TRUE,
            !.locks = @ \cup {InvoiceRow(sess[s].inv)}])
    /\ UNCHANGED rows

\* The active credentials are revoked and a new one is minted.
RescheduleQr(s, c) ==
    LET i == sess[s].inv IN
    /\ sess[s].pc = "resch.qr"
    /\ \A d \in Active(i) : Free(s, QrRow(d))
    /\ c \in Unused
    /\ qr' = [Revoked(Active(i)) EXCEPT ![c] = NewCredential(i)]
    /\ total' = IF sess[s].full THEN [total EXCEPT ![i] = sess[s].amt]
                ELSE total
    /\ End(s)
    /\ UNCHANGED <<invoiceStatus, allocated, refunded, returned, booking,
                   holdExpired, plan, payments, gateway>>

-----------------------------------------------------------------------------
(* ensure_booking_qr reads the booking's status without a lock and mints   *)
(* one more credential.                                                    *)

EnsureQr(s, i) ==
    /\ "ensure_booking_qr" \in Op
    /\ IsIdle(s)
    /\ booking[i] \notin {"none", "cancelled", "no_show"}
    /\ RoomForCredential
    /\ Become(s, [Idle EXCEPT !.pc = "mint", !.inv = i])
    /\ UNCHANGED rows

EnsureMint(s, c) ==
    /\ sess[s].pc = "mint"
    /\ MintQr(sess[s].inv, c)
    /\ End(s)
    /\ UNCHANGED <<invoiceStatus, money, booking, holdExpired, plan, payments,
                   gateway>>

-----------------------------------------------------------------------------
(* qr_confirm_checkin: the scanned credential, then its booking.           *)

ScanCredential(s, c) ==
    /\ "qr_confirm_checkin" \in Op
    /\ IsIdle(s)
    /\ Free(s, QrRow(c))
    /\ qr[c].status = "active"
    /\ Become(s, [Idle EXCEPT
            !.pc = "scan.book", !.inv = qr[c].booking, !.cred = c,
            !.locks = {QrRow(c)}])
    /\ UNCHANGED rows

\* Mutants: the booking's status is not looked at; a confirmed booking is
\* admitted whatever it owes.
AdmittedAgain(i) == booking[i] # "cancelled" /\ Outstanding(i) = 0

AdmittedOnTrust(i) ==
    \/ booking[i] = "confirmed"
    \/ booking[i] = "pending_payment" /\ Outstanding(i) = 0

Admitted(i) ==
    booking[i] \in {"pending_payment", "confirmed"} /\ Outstanding(i) = 0

CheckIn(s) ==
    /\ booking' = [booking EXCEPT ![sess[s].inv] = "checked_in"]
    /\ qr' = [qr EXCEPT ![sess[s].cred].status = "consumed"]

ScanBooking(s) ==
    LET i == sess[s].inv IN
    /\ sess[s].pc = "scan.book"
    /\ Free(s, BookingRow(i))
    /\ IF Admitted(i) THEN CheckIn(s) ELSE UNCHANGED <<booking, qr>>
    /\ End(s)
    /\ UNCHANGED <<invoiceStatus, money, holdExpired, plan, payments, gateway>>

-----------------------------------------------------------------------------
(* One UPDATE each, on the status it requires: mark_booking_no_show,       *)
(* mark_booking_completed, auto_complete_past_bookings.                    *)

Mark(s, i, op, from, to) ==
    /\ op \in Op
    /\ IsIdle(s)
    /\ Free(s, BookingRow(i))
    /\ booking[i] \in from
    /\ booking' = [booking EXCEPT ![i] = to]
    /\ UNCHANGED <<invoiceStatus, money, holdExpired, qr, plan, payments,
                   gateway, sess>>

MarkNoShow(s, i) ==
    Mark(s, i, "mark_booking_no_show", {"confirmed", "checked_in"}, "no_show")

MarkCompleted(s, i) ==
    Mark(s, i, "mark_booking_completed", {"confirmed", "checked_in"},
         "completed")

AutoComplete(s, i) ==
    Mark(s, i, "auto_complete_past_bookings", {"checked_in"}, "completed")

-----------------------------------------------------------------------------
BookingBegin(s) ==
    \/ \E i \in Invoice : VoidRead(s, i)
    \/ \E i \in Invoice : CancelBook(s, i)
    \/ ExpireBegin(s)
    \/ \E i \in Invoice, price \in Price : RescheduleBook(s, i, price)
    \/ \E i \in Invoice : EnsureQr(s, i)
    \/ \E c \in Credential : ScanCredential(s, c)
    \/ \E i \in Invoice : MarkNoShow(s, i)
    \/ \E i \in Invoice : MarkCompleted(s, i)
    \/ \E i \in Invoice : AutoComplete(s, i)

BookingStep(s) ==
    \/ VoidWrite(s)
    \/ CancelQr(s)
    \/ CancelInvoice(s)
    \/ \E i \in Invoice : ExpireBook(s, i)
    \/ ExpireVoid(s)
    \/ ExpireCommit(s)
    \/ ReschedulePrice(s)
    \/ \E c \in Credential : RescheduleQr(s, c)
    \/ \E c \in Credential : EnsureMint(s, c)
    \/ ScanBooking(s)

Issuing ==
    \/ \E i \in Invoice, price \in Price, c \in Credential :
            CreateBookingUnpaid(i, price, c)
    \/ \E i \in Invoice, price \in Price, p \in Payment, amt \in Amount,
          c \in Credential : CreateBookingPaid(i, price, p, amt, c)
    \/ \E i \in Invoice, price \in Price : SellPlan(i, price)
    \/ \E i \in Invoice : ActivateSubscription(i)
    \/ \E i \in Invoice, price \in Price : CreateShopSaleUnpaid(i, price)
    \/ \E i \in Invoice, price \in Price, p \in Payment, amt \in Amount,
          key \in Key \cup {None} : CreateShopSale(i, price, p, amt, key)
    \/ \E i \in Invoice : HoldExpires(i)
=============================================================================
