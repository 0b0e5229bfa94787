----------------------------- MODULE PaymentRpcs -----------------------------
(***************************************************************************)
(* The RPCs that move money on an issued invoice: record_payment by staff, *)
(* the gateway's checkout, confirmation and failure, and the refunds by    *)
(* staff, by a gateway and by a shop return.                               *)
(***************************************************************************)
EXTENDS ClubRows

-----------------------------------------------------------------------------
(* record_payment                                                          *)

\* The invoice and the idempotency key are looked up before any lock: a key
\* already used returns its payment and changes nothing.  The price read here
\* is the one the balance is computed with later.
PayBegin(s, i, amt, key) ==
    /\ "record_payment" \in Op
    /\ IsIdle(s)
    /\ RoomForPayment
    /\ invoiceStatus[i] # "none"
    /\ PaidWith(key) = {}
    /\ Become(s, [Idle EXCEPT
            !.pc = "pay.lock", !.inv = i, !.amt = amt, !.key = key,
            !.price = total[i]])
    /\ UNCHANGED rows

PayBalance(s) == OwedAt(sess[s].inv, sess[s].price)

PayRefused(s) ==
    LET i == sess[s].inv IN
    \/ invoiceStatus[i] # "issued"
    \/ booking[i] \in {"cancelled", "no_show"}
    \/ sess[s].amt > PayBalance(s)

\* Mutant: the balance is read without locking the invoice.
PayReadUnlocked(s) ==
    /\ sess[s].pc = "pay.lock"
    /\ ~PayRefused(s)
    /\ Become(s, [sess[s] EXCEPT
            !.pc = "pay.post", !.full = PayBalance(s) <= sess[s].amt])
    /\ UNCHANGED rows

\* With the invoice locked, its status is read again (not its price), then
\* the booking's status (without a lock) and what was paid and refunded.
PayLock(s) ==
    LET i == sess[s].inv IN
    /\ sess[s].pc = "pay.lock"
    /\ Free(s, InvoiceRow(i))
    /\ ~PayRefused(s)
    /\ Become(s, [sess[s] EXCEPT
            !.pc = "pay.post", !.full = PayBalance(s) <= sess[s].amt,
            !.locks = @ \cup {InvoiceRow(i)}])
    /\ UNCHANGED rows

PayRefuse(s) ==
    /\ sess[s].pc = "pay.lock"
    /\ Free(s, InvoiceRow(sess[s].inv))
    /\ PayRefused(s)
    /\ End(s)
    /\ UNCHANGED rows

\* The payment, its allocation, the plan it activates and the booking it
\* confirms become visible together when the transaction commits.
PayPost(s, p) ==
    LET i == sess[s].inv IN
    /\ sess[s].pc = "pay.post"
    /\ InsertPayment(p, i, sess[s].amt, sess[s].key)
    /\ ActivatePlan(i, allocated[i] + sess[s].amt)
    /\ ConfirmBooking(s, i)
    /\ End(s)
    /\ UNCHANGED <<invoiceStatus, total, refunded, returned, holdExpired, qr,
                   gateway>>

\* A key that another session used meanwhile violates the unique index.
PayDuplicate(s) ==
    /\ sess[s].pc = "pay.post"
    /\ PaidWith(sess[s].key) # {}
    /\ End(s)
    /\ UNCHANGED rows

-----------------------------------------------------------------------------
(* start_gateway_checkout, mark_gateway_transaction_failed_service         *)

StartCheckout(i, t, amt, key) ==
    /\ "start_gateway_checkout" \in Op
    /\ gateway[t].status = "none"
    /\ invoiceStatus[i] = "issued"
    /\ key = None \/ \A u \in Txn : gateway[u].key # key
    /\ amt <= Outstanding(i)
    /\ gateway' = [gateway EXCEPT ![t] = [status |-> "pending", invoice |-> i,
            amount |-> amt, key |-> key, payment |-> None]]
    /\ UNCHANGED <<invoiceStatus, money, booking, holdExpired, qr, plan,
                   payments, sess>>

\* Mutant: a late failure report overrides a success.
MarkFailedLate(s, t) ==
    /\ "mark_gateway_transaction_failed_service" \in Op
    /\ IsIdle(s)
    /\ Free(s, GatewayRow(t))
    /\ gateway[t].status \in {"pending", "succeeded"}
    /\ gateway' = [gateway EXCEPT ![t].status = "failed"]
    /\ UNCHANGED <<invoiceStatus, money, booking, holdExpired, qr, plan,
                   payments, sess>>

\* A succeeded transaction is refused, a failed one left alone.
MarkFailed(s, t) ==
    /\ "mark_gateway_transaction_failed_service" \in Op
    /\ IsIdle(s)
    /\ Free(s, GatewayRow(t))
    /\ gateway[t].status = "pending"
    /\ gateway' = [gateway EXCEPT ![t].status = "failed"]
    /\ UNCHANGED <<invoiceStatus, money, booking, holdExpired, qr, plan,
                   payments, sess>>

-----------------------------------------------------------------------------
(* record_gateway_payment_service.  Webhooks are delivered at least once,  *)
(* in any order and concurrently: any idle session may be handed a         *)
(* confirmation of any staged transaction at any time.                     *)

\* Mutant: a status the table allows and no RPC gives a transaction.
CancelTxn(t) == gateway' = [gateway EXCEPT ![t].status = "cancelled"]

FailTxn(t) == gateway' = [gateway EXCEPT ![t].status = "failed"]

GatewayIdempotencyKey(t) == IF gateway[t].key = None THEN t ELSE gateway[t].key

\* A replay of a settled transaction returns or raises without writing.  A
\* confirmed amount or currency that differs from the staged one fails the
\* transaction, and that is committed.
GatewayMismatch(s, t) ==
    /\ "record_gateway_payment_service" \in Op
    /\ IsIdle(s)
    /\ Free(s, GatewayRow(t))
    /\ gateway[t].status = "pending"
    /\ FailTxn(t)
    /\ UNCHANGED <<invoiceStatus, money, booking, holdExpired, qr, plan,
                   payments, sess>>

GatewayLock(s, t) ==
    /\ "record_gateway_payment_service" \in Op
    /\ IsIdle(s)
    /\ RoomForPayment
    /\ Free(s, GatewayRow(t))
    /\ gateway[t].status = "pending"
    /\ Become(s, [Idle EXCEPT
            !.pc = "gw.invoice", !.txn = t, !.inv = gateway[t].invoice,
            !.amt = gateway[t].amount, !.key = GatewayIdempotencyKey(t),
            !.locks = {GatewayRow(t)}])
    /\ UNCHANGED rows

GatewayRefused(i, amt) ==
    invoiceStatus[i] # "issued" \/ amt > Outstanding(i)

GatewayLockInvoice(s) ==
    LET i == sess[s].inv IN
    /\ sess[s].pc = "gw.invoice"
    /\ Free(s, InvoiceRow(i))
    /\ ~GatewayRefused(i, sess[s].amt)
    /\ Become(s, [sess[s] EXCEPT
            !.pc = "gw.post", !.full = Outstanding(i) <= sess[s].amt,
            !.locks = @ \cup {InvoiceRow(i)}])
    /\ UNCHANGED rows

\* The customer has paid the provider, the club has no payment: the
\* transaction is failed and nothing is posted.
GatewayReject(s) ==
    /\ sess[s].pc = "gw.invoice"
    /\ Free(s, InvoiceRow(sess[s].inv))
    /\ GatewayRefused(sess[s].inv, sess[s].amt)
    /\ FailTxn(sess[s].txn)
    /\ End(s)
    /\ UNCHANGED <<invoiceStatus, money, booking, holdExpired, qr, plan,
                   payments>>

Succeed(t, p) ==
    gateway' = [gateway EXCEPT ![t].status = "succeeded", ![t].payment = p]

\* Nothing here looks at the booking's status, unlike record_payment.
GatewayPost(s, p) ==
    LET i == sess[s].inv IN
    /\ sess[s].pc = "gw.post"
    /\ InsertPayment(p, i, sess[s].amt, sess[s].key)
    /\ Succeed(sess[s].txn, p)
    /\ ActivatePlan(i, allocated[i] + sess[s].amt)
    /\ ConfirmBooking(s, i)
    /\ End(s)
    /\ UNCHANGED <<invoiceStatus, total, refunded, returned, holdExpired, qr>>

\* The key already paid: the transaction is linked to that payment.
GatewayLink(s, p) ==
    /\ sess[s].pc = "gw.post"
    /\ p \in PaidWith(sess[s].key)
    /\ Succeed(sess[s].txn, p)
    /\ End(s)
    /\ UNCHANGED <<invoiceStatus, money, booking, holdExpired, qr, plan,
                   payments>>

-----------------------------------------------------------------------------
(* create_refund, create_gateway_refund_service, and create_refund as      *)
(* return_shop_sale calls it.  The payment row is locked first, the key    *)
(* and the refundable balance are read under that lock.                    *)

\* Mutant: the refundable balance is read without locking the payment.
RefundUnlocked(s, p, amt, key, ret, held) ==
    /\ IsIdle(s)
    /\ p \in Recorded
    /\ key \notin payments[p].refundKeys
    /\ amt <= payments[p].amount - payments[p].refunded
    /\ Become(s, [Idle EXCEPT
            !.pc = "refund.post", !.pay = p, !.inv = payments[p].invoice,
            !.amt = amt, !.key = key, !.ret = ret, !.locks = held])
    /\ UNCHANGED rows

RefundLock(s, p, amt, key, ret, held) ==
    /\ IsIdle(s)
    /\ p \in Recorded
    /\ Free(s, PayRow(p))
    /\ key \notin payments[p].refundKeys
    /\ amt <= payments[p].amount - payments[p].refunded
    /\ Become(s, [Idle EXCEPT
            !.pc = "refund.post", !.pay = p, !.inv = payments[p].invoice,
            !.amt = amt, !.key = key, !.ret = ret,
            !.locks = held \cup {PayRow(p)}])
    /\ UNCHANGED rows

CreateRefund(s, p, amt, key) ==
    /\ "create_refund" \in Op
    /\ RefundLock(s, p, amt, key, FALSE, {})

\* The refund goes back through the transaction that produced the payment.
CreateGatewayRefund(s, p, t, amt, key) ==
    /\ "create_gateway_refund_service" \in Op
    /\ gateway[t].status = "succeeded"
    /\ gateway[t].payment = p
    /\ RefundLock(s, p, amt, IF key = None THEN t ELSE key, FALSE, {})

\* The lines of the sale are locked first; the refund is capped by what the
\* goods that come back are worth beyond what earlier returns gave back.
ReturnShopSale(s, p, amt) ==
    LET i == payments[p].invoice IN
    /\ "return_shop_sale" \in Op
    /\ p \in Recorded
    /\ Kind[i] = "shop"
    /\ Free(s, SaleRow(i))
    /\ amt <= total[i] - returned[i]
    /\ RefundLock(s, p, amt, None, TRUE, {SaleRow(i)})

\* Mutant: earlier refunds are forgotten.
RefundsAtOnce(p, amt) == amt >= payments[p].amount

FullyRefunds(p, amt) == payments[p].refunded + amt >= payments[p].amount

\* Refunding a payment in full cancels the club membership it paid for.
CancelMembership(i, p, amt) ==
    plan' = IF Kind[i] = "membership" /\ FullyRefunds(p, amt)
            THEN [plan EXCEPT ![i] = "cancelled"] ELSE plan

RefundPost(s) ==
    LET i == sess[s].inv  p == sess[s].pay  amt == sess[s].amt IN
    /\ sess[s].pc = "refund.post"
    /\ payments' = [payments EXCEPT
            ![p].refunded = @ + amt,
            ![p].refundKeys = @ \cup ({sess[s].key} \ {None})]
    /\ refunded' = [refunded EXCEPT ![i] = @ + amt]
    /\ returned' = [returned EXCEPT ![i] = IF sess[s].ret THEN @ + amt ELSE @]
    /\ CancelMembership(i, p, amt)
    /\ End(s)
    /\ UNCHANGED <<invoiceStatus, total, allocated, booking, holdExpired, qr,
                   gateway>>

-----------------------------------------------------------------------------
PaymentBegin(s) ==
    \/ \E i \in Invoice, amt \in Amount, key \in Key \cup {None} :
            PayBegin(s, i, amt, key)
    \/ \E t \in Txn : MarkFailed(s, t)
    \/ \E t \in Txn : GatewayMismatch(s, t)
    \/ \E t \in Txn : GatewayLock(s, t)
    \/ \E p \in Payment, amt \in Amount, key \in Key \cup {None} :
            CreateRefund(s, p, amt, key)
    \/ \E p \in Payment, t \in Txn, amt \in Amount, key \in Key \cup {None} :
            CreateGatewayRefund(s, p, t, amt, key)
    \/ \E p \in Payment, amt \in Amount : ReturnShopSale(s, p, amt)

PaymentStep(s) ==
    \/ PayLock(s)
    \/ PayRefuse(s)
    \/ \E p \in Payment : PayPost(s, p)
    \/ PayDuplicate(s)
    \/ GatewayLockInvoice(s)
    \/ GatewayReject(s)
    \/ \E p \in Payment : GatewayPost(s, p)
    \/ \E p \in Payment : GatewayLink(s, p)
    \/ RefundPost(s)
=============================================================================
