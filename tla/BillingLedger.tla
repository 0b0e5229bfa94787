---------------------------- MODULE BillingLedger ----------------------------
(***************************************************************************)
(* Payments, refunds, voids and the life of bookings over the same rows:   *)
(* every RPC of PaymentRpcs and BookingRpcs, run by concurrent sessions    *)
(* that wait for each other's row locks and may be rolled back at any      *)
(* statement.                                                              *)
(***************************************************************************)
EXTENDS PaymentRpcs, BookingRpcs

Init ==
    /\ invoiceStatus = [i \in Invoice |-> "none"]
    /\ total = [i \in Invoice |-> 0]
    /\ allocated = [i \in Invoice |-> 0]
    /\ refunded = [i \in Invoice |-> 0]
    /\ returned = [i \in Invoice |-> 0]
    /\ booking = [i \in Invoice |-> "none"]
    /\ holdExpired = [i \in Invoice |-> FALSE]
    /\ qr = [c \in Credential |-> NoCredential]
    /\ plan = [i \in Invoice |-> "none"]
    /\ payments = [p \in Payment |-> NoPayment]
    /\ gateway = [t \in Txn |-> NoTxn]
    /\ sess = [s \in Session |-> Idle]

-----------------------------------------------------------------------------
(* Rollback.                                                               *)

\* The rows a session inside an RPC waits for before its next statement.
Wants(s) ==
    LET i == sess[s].inv IN
    CASE sess[s].pc \in {"pay.lock", "gw.invoice", "void.write",
                         "cancel.invoice", "expire.void", "resch.price"}
            -> {InvoiceRow(i)}
      [] sess[s].pc \in {"pay.post", "gw.post"}
            -> IF Confirms(s, i) THEN {BookingRow(i)} ELSE {}
      [] sess[s].pc = "scan.book" -> {BookingRow(i)}
      [] sess[s].pc = "expire.book" -> {BookingRow(j) : j \in sess[s].todo}
      [] sess[s].pc \in {"cancel.qr", "resch.qr"}
            -> {QrRow(c) : c \in Active(i)}
      [] OTHER -> {}

WaitsFor(s) == {t \in Session \ {s} : Wants(s) \cap sess[t].locks # {}}

\* s is in a cycle of waiting sessions.
Deadlocked(s) ==
    \E cycle \in SUBSET Session :
        /\ s \in cycle
        /\ \A t \in cycle : WaitsFor(t) \cap cycle # {}

Rollback(s) ==
    /\ ~IsIdle(s)
    /\ End(s)
    /\ UNCHANGED rows

\* PostgreSQL's deadlock detector picks one of the sessions of a cycle.
DeadlockVictim(s) == Deadlocked(s) /\ Rollback(s)

\* The statement timeout, or the connection is lost.
Disconnect(s) == "disconnect" \in Op /\ Rollback(s)

-----------------------------------------------------------------------------
Step(s) == PaymentStep(s) \/ BookingStep(s) \/ DeadlockVictim(s)

Next ==
    \/ Issuing
    \/ \E i \in Invoice, t \in Txn, amt \in Amount, key \in Key \cup {None} :
            StartCheckout(i, t, amt, key)
    \/ \E s \in Session :
            PaymentBegin(s) \/ BookingBegin(s) \/ Step(s) \/ Disconnect(s)

Spec == Init /\ [][Next]_vars

\* A statement that waits for a row lock is woken when the lock is released
\* and is not overtaken by later requests, so a lock that is freed again and
\* again is granted: strong fairness of a session's next step, and of the
\* statement that posts a payment.  pg_cron starts the expiry job again every
\* minute.
Fairness ==
    /\ \A s \in Session : /\ SF_vars(Step(s))
                          /\ SF_vars(\E p \in Payment : PayPost(s, p))
    /\ SF_vars(\E s \in Session : ExpireBegin(s))

FairSpec == Spec /\ Fairness

-----------------------------------------------------------------------------
(* Properties.                                                             *)

\* The rows and the sessions have the shapes the code gives them.
TypeOK ==
    /\ invoiceStatus \in [Invoice -> {"none", "issued", "void"}]
    /\ total \in [Invoice -> Nat]
    /\ allocated \in [Invoice -> Nat]
    /\ refunded \in [Invoice -> Nat]
    /\ returned \in [Invoice -> Nat]
    /\ booking \in [Invoice -> BookingStatus]
    /\ holdExpired \in [Invoice -> BOOLEAN]
    /\ qr \in [Credential -> CredentialRow]
    /\ plan \in [Invoice -> {"none", "pending", "active", "cancelled"}]
    /\ payments \in [Payment -> PaymentRow]
    /\ gateway \in [Txn -> TxnRow]
    /\ sess \in [Session -> SessionState]

\* No invoice is collected twice: whatever staff, webhooks and refunds do at
\* the same time, the payments posted on an invoice, less the refunds that
\* reopened its balance, never exceed its total (record_payment:333-361).
NoOverCollection ==
    \A i \in Invoice : allocated[i] <= total[i] + Reopened(i)

\* Seen through its total and what it has collected, every invoice is an
\* account that InvoiceAccount describes: the price is asked once, each posted
\* payment fits what is missing, each refund what is there
\* (record_payment:333-428, create_refund:75-85).
Collected(i) == allocated[i] - Reopened(i)

Account == INSTANCE InvoiceAccount
    WITH price <- total, collected <- [i \in Invoice |-> Collected(i)]

ImplementsAccount == Account!Spec

\* To the edge functions the ledger is what GatewayContract says: whatever
\* staff, other webhooks and cancellations do meanwhile, a transaction is
\* settled once, and the refunds of its payment use a key once and fit what
\* is left of it (record_gateway_payment_service, create_gateway_refund_service,
\* mark_gateway_transaction_failed_service).
PaidBy(t) == gateway[t].payment

Contract == INSTANCE GatewayContract
    WITH Worth <- Amount, RefundKey <- Key \cup Txn, NoKey <- None,
         status <- [t \in Txn |-> gateway[t].status],
         worth <- [t \in Txn |-> IF PaidBy(t) = None THEN 0
                                  ELSE payments[PaidBy(t)].amount],
         given <- [t \in Txn |-> IF PaidBy(t) = None THEN 0
                                  ELSE payments[PaidBy(t)].refunded],
         keys <- [t \in Txn |-> IF PaidBy(t) = None THEN {}
                                 ELSE payments[PaidBy(t)].refundKeys]

ImplementsContract == Contract!Spec

\* Concurrent refunds, by staff, by the gateway's reconciliation and by shop
\* returns, never give back more than the payment brought in
\* (create_refund:75-81).
RefundsCovered ==
    \A p \in Payment : payments[p].refunded <= payments[p].amount

\* A gateway transaction that succeeded is tied to a payment with its own
\* key, no payment stands for two transactions and no two payments for one,
\* however often and however concurrently webhooks are delivered; one that
\* did not succeed has no payment
\* (record_gateway_payment_service:56-80, 193-230).
GatewayPostsOnce ==
    \A t \in Txn :
        /\ gateway[t].status = "succeeded" <=> gateway[t].payment # None
        /\ gateway[t].payment # None =>
            /\ payments[gateway[t].payment].key = GatewayIdempotencyKey(t)
            /\ \A u \in Txn \ {t} : gateway[u].payment # gateway[t].payment
        /\ Cardinality(PaidWith(GatewayIdempotencyKey(t))) <= 1

\* A settled gateway transaction stays as it is: a late failure report, a
\* replayed or an out-of-order webhook changes nothing
\* (mark_gateway_transaction_failed_service:470-495).
SettledTxnIsFinal ==
    [][\A t \in Txn : gateway[t].status \in {"succeeded", "failed"}
            => gateway'[t] = gateway[t]]_vars

\* A booking that waited for its payment is confirmed only when the payments
\* posted on its invoice cover the price (record_payment:406-414).
ConfirmedWhenCovered ==
    [][\A i \in Invoice :
            booking[i] = "pending_payment" /\ booking'[i] = "confirmed"
                => allocated'[i] >= total'[i]]_vars

\* The expiry job never takes a confirmed booking away, even one that was
\* confirmed after the job had read it as stale
\* (expire_stale_booking_holds:175-179).
ConfirmedOutlivesExpiry ==
    [][\A s \in Session, i \in Invoice :
            sess[s].pc = "expire.book" /\ sess'[s] = Idle /\ sess[s].todo = {}
                => (booking[i] = "confirmed" => booking'[i] # "cancelled")]_vars

\* A payment refunded in full leaves no club membership running or waiting on
\* its invoice, whichever refund completed it (create_refund:87-107).
FullRefundEndsMembership ==
    \A p \in Recorded :
        Kind[payments[p].invoice] = "membership"
            /\ payments[p].refunded = payments[p].amount
        => plan[payments[p].invoice] = "cancelled"

\* An invoice with recorded payments is never void (void_invoice:50-56,
\* cancel_booking:461-470).
VoidMeansUnpaid ==
    \A i \in Invoice : invoiceStatus[i] = "void" => allocated[i] = 0

\* A booking that was cancelled, missed or completed stays so: a payment that
\* read it as waiting does not revive it (record_payment:414).
EndedBookingStaysEnded ==
    [][\A i \in Invoice :
            booking[i] \in {"cancelled", "no_show", "completed"}
                => booking'[i] = booking[i]]_vars

\* A customer is checked in only when the payments posted on the booking
\* cover its price, even while payments are posted, the booking is moved to
\* a dearer time or cancelled (qr_confirm_checkin:346-368).  A void invoice
\* and one whose payments all went back owe nothing and admit as well: this is
\* a property of bookings nothing was refunded or voided on.
CheckedInWhenPaid ==
    [][\A i \in Invoice :
            booking[i] # "checked_in" /\ booking'[i] = "checked_in"
                => allocated'[i] >= total'[i]]_vars

\* Of all the active credentials a booking may have, at most one is ever
\* consumed, however many are scanned at once
\* (_mint_booking_qr_token_internal, qr_confirm_checkin:318-368).
OneCheckInPerBooking ==
    \A c, d \in Credential :
        qr[c].status = "consumed" /\ qr[d].status = "consumed" /\ c # d
            => qr[c].booking # qr[d].booking

\* A plan runs as soon as its invoice has received what its policy asks for,
\* and not before, however the payments interleave and wherever they come
\* from (record_payment:416-428, _apply_gateway_payment_side_effects_internal).
\* Two exceptions: a plan that costs nothing is never paid, so it waits for
\* staff although its policy is met, and under 'manual' staff start an academy
\* subscription whatever was paid (_activate_subscription_if_due_internal).
PlanFollowsMoney ==
    \A i \in Invoice :
        /\ plan[i] = "pending" =>
                ~PlanDue(i, allocated[i]) \/ total[i] = 0
        /\ plan[i] = "active" =>
                \/ PlanDue(i, allocated[i])
                \/ Kind[i] = "academy" /\ Policy = "manual"

\* Every RPC that has started ends: no cycle of row locks holds sessions for
\* ever.
EveryCallEnds == \A s \in Session : ~IsIdle(s) ~> IsIdle(s)

\* A hold that ran out does not keep its slot for ever: the expiry job
\* cancels it unless it is paid first (expire_stale_booking_holds:166-179).
StaleHoldReleased ==
    \A i \in Invoice :
        holdExpired[i] /\ booking[i] = "pending_payment"
            ~> booking[i] # "pending_payment"
=============================================================================
