------------------------------ MODULE ClubRows ------------------------------
(***************************************************************************)
(* The rows of one club that money and bookings share, the row locks of    *)
(* PostgreSQL on them, and the database sessions that run the club's RPCs. *)
(*                                                                         *)
(* Every RPC is one PL/pgSQL function, hence one transaction, under READ   *)
(* COMMITTED: each statement sees what was committed when it started, a    *)
(* row lock taken by FOR UPDATE or UPDATE is held to the end, and nothing  *)
(* a transaction writes is visible before it commits.  A session that is   *)
(* inside an RPC therefore carries a program counter, the values it has    *)
(* read so far, the locks it holds and the writes it has not committed.    *)
(*                                                                         *)
(* An invoice stands for itself and for what it bills: a booking, a club   *)
(* membership, an academy subscription or a shop sale (Kind).              *)
(***************************************************************************)
EXTENDS Integers, FiniteSets

CONSTANTS
    Invoice,    \* invoices of the club
    Payment,    \* ids of rows of public.payments
    Txn,        \* ids of rows of public.payment_gateway_transactions
    Credential, \* ids of rows of public.qr_credentials
    Key,        \* idempotency keys made by clients
    Session,    \* database sessions
    Price,      \* prices an invoice may be issued at
    Amount,     \* amounts a payment, a checkout or a refund may have
    Kind,       \* what each invoice bills
    Policy,     \* clubs.subscription_activation_policy
    Op,         \* the RPCs in use
    MaxVoid,    \* invoices that staff void (bound)
    None        \* SQL null

\* A discount may take all of a price: greatest(price - discount, 0).
ASSUME PriceAssumption == Price \subseteq Nat
ASSUME AmountAssumption == Amount \subseteq Nat \ {0}
ASSUME KindAssumption ==
    Kind \in [Invoice -> {"booking", "membership", "academy", "shop"}]
ASSUME PolicyAssumption ==
    Policy \in {"manual", "first_payment", "full_payment"}
ASSUME VoidAssumption == MaxVoid \in Nat
ASSUME NoneAssumption ==
    None \notin Invoice \cup Payment \cup Txn \cup Credential \cup Key
\* A checkout without a client's key uses 'gateway:' and its own id, which no
\* client makes up.
ASSUME KeyAssumption == Key \cap Txn = {}

VARIABLES
    invoiceStatus,  \* invoices.status; "none" before the invoice is issued
    total,          \* invoices.total
    allocated,      \* sum of payment_allocations.amount of the invoice
    refunded,       \* sum of completed refunds of the invoice's payments
    returned,       \* the part of refunded that a shop return made
    booking,        \* bookings.status of the booking the invoice bills
    holdExpired,    \* bookings.hold_expires_at < now()
    qr,             \* rows of qr_credentials that check bookings in
    plan,           \* status of the membership or academy subscription
    payments,       \* rows of payments, with their refunds
    gateway,        \* rows of payment_gateway_transactions
    sess            \* what each database session is doing

money    == <<total, allocated, refunded, returned>>
rows     == <<invoiceStatus, money, booking, holdExpired, qr, plan, payments,
              gateway>>
vars     == <<rows, sess>>

-----------------------------------------------------------------------------
(* Rows.  An unused id holds NoPayment, NoTxn or NoCredential.             *)

NoPayment == [invoice |-> None, amount |-> 0, refunded |-> 0,
              key |-> None, refundKeys |-> {}]
NoTxn     == [status |-> "none", invoice |-> None, amount |-> 0,
              key |-> None, payment |-> None]
NoCredential == [booking |-> None, status |-> "none"]

PaymentRow == [invoice : Invoice \cup {None}, amount : Nat, refunded : Nat,
               key : Key \cup Txn \cup {None},
               refundKeys : SUBSET (Key \cup Txn)]
TxnRow     == [status : {"none", "pending", "succeeded", "failed"},
               invoice : Invoice \cup {None}, amount : Nat,
               key : Key \cup {None}, payment : Payment \cup {None}]
CredentialRow == [booking : Invoice \cup {None},
                  status : {"none", "active", "consumed", "revoked"}]

BookingStatus == {"none", "pending_payment", "confirmed", "checked_in",
                  "completed", "cancelled", "no_show"}

Recorded   == {p \in Payment : payments[p].invoice # None}
PaidWith(key) == {p \in Recorded : key # None /\ payments[p].key = key}

-----------------------------------------------------------------------------
(* Row locks.  A lockable row is <<table, id>>.                            *)

InvoiceRow(i) == <<"invoices", i>>
BookingRow(i) == <<"bookings", i>>
QrRow(c)      == <<"qr_credentials", c>>
SaleRow(i)    == <<"shop_sale_items", i>>
PayRow(p)     == <<"payments", p>>
GatewayRow(t) == <<"payment_gateway_transactions", t>>

Row == ({"invoices", "bookings", "shop_sale_items"} \X Invoice)
         \cup ({"qr_credentials"} \X Credential)
         \cup ({"payments"} \X Payment)
         \cup ({"payment_gateway_transactions"} \X Txn)

\* Session s may lock the row now: no other session holds it.
Free(s, row) == \A t \in Session \ {s} : row \notin sess[t].locks

-----------------------------------------------------------------------------
(* Sessions.                                                               *)

PC == {"idle", "pay.lock", "pay.post", "gw.invoice", "gw.post",
       "refund.post", "void.write", "cancel.qr", "cancel.invoice",
       "expire.book", "expire.void", "resch.price", "resch.qr", "mint",
       "scan.book"}

SessionState ==
    [pc : PC, inv : Invoice \cup {None}, pay : Payment \cup {None},
     txn : Txn \cup {None}, cred : Credential \cup {None},
     key : Key \cup Txn \cup {None}, amt : Nat, price : Nat, full : BOOLEAN,
     ret : BOOLEAN, locks : SUBSET Row, todo : SUBSET Invoice,
     cancels : SUBSET Invoice, voids : SUBSET Invoice]

Idle == [pc |-> "idle", inv |-> None, pay |-> None, txn |-> None,
         cred |-> None, key |-> None, amt |-> 0, price |-> 0, full |-> FALSE,
         ret |-> FALSE, locks |-> {}, todo |-> {}, cancels |-> {},
         voids |-> {}]

IsIdle(s) == sess[s].pc = "idle"

Become(s, state) == sess' = [sess EXCEPT ![s] = state]

\* Commit or rollback: every lock is released, the local values are gone.
End(s) == Become(s, Idle)

\* Bound: an RPC that may post a payment starts only while an unused payment
\* id is left for it.
Posting == {"pay.lock", "pay.post", "gw.invoice", "gw.post"}
RoomForPayment ==
    Cardinality({s \in Session : sess[s].pc \in Posting})
        < Cardinality(Payment \ Recorded)

\* Bound: so does an RPC that mints a booking's credential.
Minting == {"resch.price", "resch.qr", "mint"}
Unused  == {c \in Credential : qr[c].status = "none"}
RoomForCredential ==
    Cardinality({s \in Session : sess[s].pc \in Minting})
        < Cardinality(Unused)

\* Bound: staff void an invoice only while MaxVoid is not reached.
RoomForVoid ==
    Cardinality({i \in Invoice : invoiceStatus[i] = "void"})
        + Cardinality({s \in Session : sess[s].pc = "void.write"}) < MaxVoid

-----------------------------------------------------------------------------
(* Credentials.  A booking may have several that are active: a new one is  *)
(* minted whenever a link or a QR is asked for again.                      *)

Active(i) == {c \in Credential : qr[c].booking = i /\ qr[c].status = "active"}

NewCredential(i) == [booking |-> i, status |-> "active"]

\* _mint_booking_qr_token_internal
MintQr(i, c) ==
    /\ c \in Unused
    /\ qr' = [qr EXCEPT ![c] = NewCredential(i)]

-----------------------------------------------------------------------------
(* get_invoice_payment_summary and the identical expression inside         *)
(* record_payment.  A fully refunded invoice owes nothing; otherwise only  *)
(* refunds that no shop return made reopen the balance.                    *)

Reopened(i) == refunded[i] - returned[i]

\* Mutant: the goods a shop took back are owed again.
OwedForReturns(i, price) ==
    IF allocated[i] > 0 /\ refunded[i] >= allocated[i] THEN 0
    ELSE IF price - allocated[i] + refunded[i] > 0
         THEN price - allocated[i] + refunded[i]
         ELSE 0

OwedAt(i, price) ==
    IF allocated[i] > 0 /\ refunded[i] >= allocated[i] THEN 0
    ELSE IF price - allocated[i] + Reopened(i) > 0
         THEN price - allocated[i] + Reopened(i)
         ELSE 0

Owed(i) == OwedAt(i, total[i])

\* The summary also reports nothing owed on a void invoice.
Outstanding(i) == IF invoiceStatus[i] = "void" THEN 0 ELSE Owed(i)

-----------------------------------------------------------------------------
(* What a posted payment changes.                                          *)

\* Insert a payment of amt on invoice i and allocate all of it to i.  The
\* unique index on (club_id, idempotency_key) refuses a used key.
\* Mutant: no unique index on the idempotency key.
InsertAnyPayment(p, i, amt, key) ==
    /\ p \notin Recorded
    /\ payments' = [payments EXCEPT ![p] =
            [invoice |-> i, amount |-> amt, refunded |-> 0, key |-> key,
             refundKeys |-> {}]]
    /\ allocated' = [allocated EXCEPT ![i] = @ + amt]

InsertPayment(p, i, amt, key) ==
    /\ p \notin Recorded
    /\ PaidWith(key) = {}
    /\ payments' = [payments EXCEPT ![p] =
            [invoice |-> i, amount |-> amt, refunded |-> 0, key |-> key,
             refundKeys |-> {}]]
    /\ allocated' = [allocated EXCEPT ![i] = @ + amt]

\* _activate_club_membership_if_due_internal asks for the whole price,
\* _activate_subscription_if_due_internal for what the club's policy says;
\* both look at what was allocated, refunded or not.  Under 'manual' no payment
\* is enough: staff activate (BookingRpcs.ActivateSubscription).
PlanDue(i, paid) ==
    CASE Kind[i] = "membership" -> paid >= total[i]
      [] Kind[i] = "academy" ->
            \/ Policy = "first_payment" /\ paid > 0
            \/ Policy = "full_payment" /\ paid >= total[i]
      [] OTHER -> FALSE

\* Mutant: the first payment activates any plan.
ActivatePaidPlan(i, paid) ==
    plan' = IF plan[i] = "pending" /\ paid > 0
            THEN [plan EXCEPT ![i] = "active"] ELSE plan

ActivatePlan(i, paid) ==
    plan' = IF plan[i] = "pending" /\ PlanDue(i, paid)
            THEN [plan EXCEPT ![i] = "active"] ELSE plan

\* A payment that clears the balance confirms a booking still waiting for it.
\* Mutant: any payment confirms.
ConfirmsAlways(s, i) == booking[i] = "pending_payment"

\* Mutant: the booking's status is not looked at again.
ConfirmsBlindly(s, i) == sess[s].full /\ booking[i] # "none"

Confirms(s, i) == sess[s].full /\ booking[i] = "pending_payment"

ConfirmBooking(s, i) ==
    IF Confirms(s, i)
    THEN /\ Free(s, BookingRow(i))
         /\ booking' = [booking EXCEPT ![i] = "confirmed"]
    ELSE UNCHANGED booking
=============================================================================
