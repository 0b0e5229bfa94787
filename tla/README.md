# Mal3aby: TLA+ models and proofs

Mal3aby (ملعبي) is a multi-tenant service for sports clubs. Its core logic is a
few hundred PL/pgSQL functions in `src/supabase/migrations/`; a function that a
later migration replaces counts only in its last form. Around them stand Deno
edge functions (payment providers, staff administration), a Node/Baileys WhatsApp
connector, three Cloudflare workers and a React frontend that calls the functions
as RPCs. This directory models the parts where order and failure decide what is
right:

1. **the ledger**: what payments, refunds, gateway confirmations, cancellations,
   expiries, reschedulings and check-ins do to one another when they run at the
   same time on the same rows;
2. **online payments**: five payment providers, their webhooks and refunds, and
   edge functions that may be cut off between any two steps;
3. **messages**: the notification queue of WhatsApp and email, with crashes,
   late reports and recovery;
4. **WhatsApp sessions**: the connector's sockets, reconnects, restarts and the
   status reports that overtake each other;
5. **the audit chain**.

Contents: [inventory](#inventory) · [modules](#modules-and-the-code) ·
[runs](#runs) · [fairness](#fairness) ·
[disagreements with the documentation](#disagreements-found) ·
[known limits of the code](#known-limits-of-the-code) · [proofs](#proofs) ·
[not modelled](#what-is-not-modelled) · [plan](#plan).

Migrations are cited by the timestamp their file name starts with.

## Inventory

Every RPC is one function, hence one transaction, under READ COMMITTED. RPCs
interact only through the rows they share: by row locks (`FOR UPDATE`, `UPDATE`),
by unique indexes, and by plain reads that may be stale when they are used. Edge
functions and workers call RPCs and outside services, and keep nothing between
two calls that a crash would not lose. `PROJECT.json` lists every component with
its files, and every hazard at its line.

| Component | State | Operations | Interacts with | What is hard | What makes it correct |
|---|---|---|---|---|---|
| Payments on invoices | `invoices`, `payments`, `payment_allocations` | `record_payment`, `get_invoice_payment_summary` | bookings, plans, shifts, shop | balance read, then locked, then posted; idempotency key looked up before any lock | nothing collected twice; a booking confirmed only when covered |
| Gateway RPCs | `payment_gateway_transactions` | `start_gateway_checkout`, `record_gateway_payment_service`, `mark_gateway_transaction_failed_service` | payments, bookings, plans | confirmations repeated, late, mismatched, beside cash | one payment per transaction; a settled one is final |
| Refunds | `refunds` | `create_refund`, `create_gateway_refund_service`, `return_shop_sale` | payments, memberships | three channels on one payment | never more than was paid; a full refund ends the membership |
| Booking life cycle | `bookings` | create, hold, `expire_stale_booking_holds`, `cancel_booking`, `reschedule_booking`, no-show, completion | invoices, QR | a batch job over rows others are paying | ended bookings stay ended; no paid hold is expired; stale holds go |
| Voiding | `invoices.status` | `void_invoice` and the voids inside cancel and expire | payments | sum without a lock | no money on a void invoice |
| QR and check-in | `qr_credentials` | `ensure_booking_qr`, mint, `qr_confirm_checkin` | bookings, invoices | several live credentials per booking | one check-in, and only when paid |
| Memberships, academy subscriptions | status of the plan | sale, activation, cancellation by refund; renewal, freeze, expiry | payments | policies, part payments | the plan runs exactly when its policy is met |
| Shop | sales, returns, stock | `create_shop_sale`, `return_shop_sale`, counts | payments, stock | returned goods must not be owed again; lock order of the cart | balances, no lost stock |
| Audit chain | `audit_logs` | trigger `_chain_audit_log_row`, `verify_audit_log_chain` | every RPC | sequence numbers outlive rollbacks, concurrent writers | an untouched log verifies |
| Provider edge functions | `payment_gateway_webhook_events`, `provider_session_ref` | checkout, webhook and refund of Stripe, PayPal, Paymob, Kashier, Fawry | gateway RPCs, the providers | a crash between event log and RPC, redelivery, events out of order, requests repeated after a timeout | every confirmed payment is settled in the end; nothing is posted or refunded that the provider did not do; no request takes effect twice |
| Notification queue | `notification_queue` | enqueue, claim, mark, report, receipt, sweep, cancel, retry | connector, email worker | a slow worker is recovered and its message sent again; late reports | a text is sent again only for a reason; nothing of a cancelled booking is chosen; every message ends |
| WhatsApp connector | provider objects, sockets, timers, local credentials | connect, pair, reconnect, log out, poll, restore, shut down | Baileys, the account's row | an event of a replaced socket, two callers that connect at once | two sockets never live side by side but for an interrupted logout; connected means there is one |
| Session generations | `whatsapp_accounts` | claim, report, ask to pair or to disconnect | connector, operator | reports that overtake each other, two processes | the row ends with the current provider's state; the stored session is not lost |
| Field schedule | bookings, training sessions, blocks | create, move, block | bookings | advisory lock on some paths, constraint on others | no field is double-booked |
| WhatsApp Durable Object | container, alarm | start, poll, idle stop | connector | container life cycle | at most one container of an account |
| Cash shifts | `cash_shifts` | open, close, settle | payments | payment beside close | shift totals equal its payments |
| Rentals, platform subscriptions, portal invites, rate limits, expenses, receipts, sales outreach, roles/RLS, reports, frontend, scripts | own tables | mostly sequential | | little concurrency | see `PROJECT.json` |

## Modules and the code

| Module | What it is |
|---|---|
| `ClubRows` | The rows, row locks and sessions, and what the RPCs share: the balance expression, inserting a payment, activating a plan, confirming a booking, minting a credential. |
| `PaymentRpcs` | `record_payment`, the gateway RPCs, both refunds, the shop return. |
| `BookingRpcs` | What issues invoices, and the life of bookings: void, cancel, expire, reschedule, credentials, scan, no-show, completion. |
| `BillingLedger` | Composes the two: `Init`, `Next`, rollback and deadlock, fairness, and the ledger's properties. |
| `InvoiceAccount` | Abstract specification: an invoice is an account between 0 and its price. `BillingLedger` implements it (`ImplementsAccount`). |
| `GatewayContract` | Abstract specification of the service RPCs, the seam between ledger and edge functions: a staged transaction is settled once, its payment is refunded with distinct keys and never beyond its worth. `BillingLedger` implements it (`ImplementsContract`); `GatewayDelivery` is built on it. |
| `GatewayRows` | Event log, calls in flight, and the providers' books: checkout sessions, refunds, events. |
| `GatewayFunctions` | The edge functions, one action per step between two calls they await. |
| `GatewayDelivery` | Composes contract, functions, providers and customers; fairness and properties. |
| `MessageQueue` | The queue with the connector's send loop and the email worker's runs. |
| `WhatsAppSession` | Operator, row, poller, connection manager, provider objects and sockets of one club. |
| `AuditChain` | The hash chain of `audit_logs`. |
| `MCBillingLedger`, `MCGatewayDelivery` | Instances for TLC: kinds of invoices, sets of RPCs in use, symmetry. |
| `BillingLedgerProofs`, `BillingLedgerSafety`, `BillingLedgerContract`, `BillingLedgerOutcomes`, `GatewayDeliveryProofs`, `MessageQueueProofs`, `WhatsAppSessionProofs`, `AuditChainProofs` | [Proofs](#proofs). |

How they fit together: edge functions see the ledger only through three RPCs, and
those promise `GatewayContract`. So online payments are checked against the
contract's few variables instead of all of the ledger's. Both sides of that seam are
proved: the ledger takes no step on a gateway transaction but the contract's
(`LedgerKeepsContract`), and neither do the functions (`DeliveryKeepsContract`).
Messages, sessions and the audit chain share no row whose order matters with them.

### The ledger

**Sessions.** A session is a database connection. `sess[s].pc` names the statement
at which an RPC that has begun waits for a row lock or lets others run: an RPC is
one action from one such point to the next, because what it does in between reads
one committed state and takes locks nobody else holds. `record_payment` is
`PayBegin` (the unlocked read of the invoice and the look-up of the idempotency
key), `PayLock` (lock, balance, refusals) and `PayPost` (insert, confirm, activate,
commit). A session keeps the values it has read (`price`, `amt`, ...), the locks it
holds (`locks`) and its uncommitted writes (`todo`, `cancels`, `voids`, `cred`);
rows change only in the step that commits, so no session sees another's
uncommitted writes. A guard `Free(s, row)` is a wait for a row lock. Where two
sessions wait for each other `DeadlockVictim` rolls one back, as PostgreSQL's
detector does; `Disconnect` rolls back anyone.

**Rows.** An invoice stands for itself and for what it bills (`Kind`): a booking,
a membership, an academy subscription, a shop sale. Refund rows are kept as sums
per payment and per invoice, with the part made by a shop return apart, which is
all the balance expression reads. Ids not yet used hold `NoPayment`, `NoTxn`,
`NoCredential`.

**Keys.** A checkout's payment has the key `gateway:<transaction>`. `KeyAssumption`
says that no client makes up such a key for a payment of its own.

**Abstractions.** Amounts are small integers (the code has `numeric(12,2)` and
tolerances of 0.004, below the smallest unit). Left out because they write other
tables and decide nothing here: notifications, receipts, audit rows, permissions,
the open-shift requirement. Times and slots are left out too (the advisory lock
`field:` at `20260906150000:497` and `:1063`, the exclusion constraint), with "the
hold has run out" as the flag `holdExpired`. `return_shop_sale` has an idempotency
key of its own and may refund nothing; neither is modelled. A membership sold for
later is `scheduled` in the code and `active` here. Prices may be zero, as a full
discount makes them. A club's policy for academy subscriptions is a constant: it
does not change during a run. The table allows gateway
transactions a status `cancelled` that no RPC sets.

### Online payments

A call of an edge function is a record in `call`: where it stands, the transaction
and event it handles, and what it has read. It acts in one step from one awaited
call to the next: read the transaction, call the provider, store the reference;
log the event, call the RPC, mark the event; or, for a refund, read, call the
provider, call the RPC. Between two steps it may be cut off (`Crash`), a provider
may time out with its work done or not (`CheckoutGivesUp`, `BackFails`), an RPC may
be out of reach. The five providers differ where the code differs: an event is
logged first everywhere; Stripe completes a session before a delayed payment
method has paid, PayPal needs a capture by the webhook, Paymob, Kashier and Fawry report
declined and pending attempts; only Stripe and PayPal honour idempotency keys; Fawry
numbers no refunds, its ledger key is the amount; Stripe alone reports refunds
back, with the status each has got, and lets a dashboard make them.

Providers repeat each event until it is answered with a 2xx, in any order.
`event[e]` is both the event that is on its way and its row in the log. A second
delivery of a logged event is answered as a duplicate and changes nothing, hence
is no action; but Kashier's log is unique by the payment attempt, so what a pending
attempt came to is answered as a duplicate of it as well (`HookDuplicate`). What became
of a logged event is told apart by more than the column `processed`: `processed` has
its transaction and no error; `flawed` is PayPal's, processed with an error; `error` is
unprocessed with one; `stray` is processed without a transaction, because none was
found (`HookUnmatched`); `swallowed` is a refund's that the RPC refused.
`desk` is not in the code: it counts what staff gave back without the provider.
Signatures, rate limits, lookups of connections and secrets, and amounts in minor
units are left out; a payment's event has an amount and a currency. One that nests several
refunds is one event for each, and a dashboard refund is done at once.

### Messages

`row` is `notification_queue`, `worker` a connector or a run of the email worker's
cron. A poll is `Sweep` (late reminders expire, rows in `processing` for ten
minutes are recovered), `Screen` (the first statements of the claim), `Choose` and
`Take`: the claim is two steps because `for update of ... skip locked` locks an alias whose
status it does not look at again. `Choose` may take any set of due rows, which
covers caps, spacing, quiet hours and priorities. A message goes
through `Send`, `Mark` (the reference is recorded before anything else),
`SendMedia`, `Report`. `copies[m]` is not in the code: it counts what reached the
customer since there last was a reason to send, and is what `TextOncePerReason` is
about. Emails are not counted: the worker does request one again, and that the
customer gets it once is Resend's promise for the key made of its row
(`email-worker/src/index.ts:287`).

### WhatsApp sessions

A provider object is known by the generation it claims in the database, a socket
by the provider's local generation, which is raised by every dial and every
logout. `SetState` changes the state and sends a report that nobody waits for; the
row takes only what is newer (`Newer`). `Dials` and `SocketMade` are the parts of
`doInitializeConnection` before and after its awaits; `conn` is the promise other
callers join. A socket's event is handled only if the socket is of the current
generation (`Heard`). `logout()` is four steps, one for each await of its own and of its
caller's: it raises the generation and waits for WhatsApp (`LogoutBegins`); forgets
`this.socket`, whichever that is by then (`LogoutAnswered`); wipes the directory,
which may throw (`LogoutWipes`); and the manager deletes the provider, whichever it
has by then (`LogoutEnds`). Connects, timers and polls may come in between. `left` is
not in the code: it holds the sockets a logout forgot alive. `Dies` empties the disk, which is ephemeral; `Start`
restores the session stored in the row.

### The audit chain

A writer takes a number (`nextval` survives a rollback), chains its row to the
last one its snapshot shows, and commits or rolls back. The hash is idealised:
without collisions, over an abstract content.

## Runs

Each run ends within three minutes or so with two workers.

| Run | Instance | Shows |
|---|---|---|
| `collect` | 1 booking, 2 payments, 2 gateway transactions, 1 key, 2 sessions, price 2 in amounts of 1 or 2; 277 642 states | `NoOverCollection`, `RefundsCovered`, `GatewayPostsOnce`, `SettledTxnIsFinal`, `ConfirmedWhenCovered`, `VoidMeansUnpaid` (voids by cancellation), `ImplementsAccount`, `ImplementsContract`, `TypeOK` |
| `bookings` | 2 bookings, 2 payments, 2 credentials, prices 1 and 2, 2 sessions, disconnections; 62 461 states | `OneCheckInPerBooking`, `CheckedInWhenPaid`, `ConfirmedOutlivesExpiry`, `EndedBookingStaysEnded` |
| `sold` | a membership, an academy subscription under `full_payment`, a shop sale, prices 0 and 2, 2 payments, 1 transaction, 1 void; 317 110 states | `FullRefundEndsMembership`, `PlanFollowsMoney`, `NoOverCollection` and `ImplementsAccount` with shop returns |
| `live` | 2 bookings, 1 payment, 2 credentials, 2 sessions, fairness; 14 259 states | `EveryCallEnds`, `StaleHoldReleased` |
| `audit` | 3 writers, 4 numbers; 6 176 states | `LinksResolve`, `UntouchedLogVerifies`, `TypeOK` |
| `delivery` | 1 transaction of any provider, 2 calls at once, 2 sessions, 2 refunds, amount 2, all faults; 1 342 632 states | `PostedOnlyWhenCompleted`, `SucceededRefIsCharge`, `RefundsBacked`, `GivenOnce`, `ProcessedMeansSettled`, `TypeOK` |
| `delivery_live` | the same with 1 session, 1 refund, amount 1, fairness; 150 373 states | `CompletedIsSettled`, `StripeRefundRecorded` |
| `messages` | 1 message of either channel, 1 connector or 2 overlapping runs, 3 attempts, 3 faults, 2 retries, fairness; 43 507 states | `TextOncePerReason`, `CancelledNotChosen`, `EndedStaysEnded`, `EveryMessageSettles`, `TypeOK` |
| `session` | 2 providers, 3 dials, 1 reconnect, 1 pairing, 2 reports in flight; 4 408 050 states | `StatusCatchesUp`, `ConnectedHasSocket`, `OneSocket`, `PurgedWhenRevoked`, `TypeOK` |
| `void_race`, `stale_price`, `audit_fork` | the smallest instances that show it | the disagreements below |

**Why the bounds are enough to mean something.**

*Ledger.* Two sessions are enough for every race of the code, because each is
between a read and a write of one RPC and a write of another; two payments let a
balance be shared, refunded and paid again; amounts 1 and 2 against a price of 2
give part payments, full ones and overpayments; two transactions on one invoice
tell apart repetition and rivalry; two invoices make the expiry job's batch and its
lock cycles; two credentials are two scans. The finite sets of ids are the bounds:
`RoomForPayment` and `RoomForCredential` (in `ClubRows`) let an RPC start only
while an id is left for it, so that the bound never stops one half-way.
`RoomForVoid` bounds the invoices that staff void (`MaxVoid`, one in `sold`): voids of
different invoices do not meet, and the theorems hold for any number. When ids
have run out, and every booking has ended, nothing can happen any more: hence
`CHECK_DEADLOCK FALSE` in every configuration. A cycle of waiting RPCs is the
subject of `EveryCallEnds`, not of TLC's deadlock check.

Each ledger run uses the RPCs that bear on its question (`Ops...` in
`MCBillingLedger`): `collect` has no rescheduling and no `void_invoice` since with
them the properties do fail, which `stale_price` and `void_race` show; likewise
`VoidMeansUnpaid` is not asked of the expiry job, whose unlocked sum has the same
gap. Runs that check invariants treat payments, sessions, credentials and calls as
symmetric; those with liveness do not, as symmetry is unsound for it.

*Delivery.* Transactions do not meet one another, so one of any provider is
enough; two calls are two deliveries, a delivery beside a checkout, or two clicks.
Two sessions and two refunds are the first and its repetition. `MaxKeyless = 1`:
a provider that does not honour keys opens one session, since a second one doubles
everything that follows; the theorems hold for any number. Sessions, refunds, calls
and events have no order built into their ids.

*Messages.* A message meets others only in a batch: with one connector the
messages of a batch wait for each other's turn and are dropped together when a
report fails. The safety properties were also checked with two messages and hold for
any number by the theorems; liveness with two takes too long for a regular run.

*Sessions.* Two providers are the one before and the one after a restart or a
re-pairing. `MaxFlight = 2` lets two reports overtake each other. Three dials of
the first provider (a later one dials once; `MayDial`) and one reconnect attempt
reach `failed` and the recovery from it. One `logout()` waits at a time, although polls may start
several. One request of the operator, with one that may have been made before the
connector started, gives a connect beside a logout, at each of its steps. One pair of credentials, linked, revoked
at any time.

**What some properties do not say.**

- `CheckedInWhenPaid` is a property of bookings nothing was refunded or voided on:
  a void invoice, and one whose payments all went back, owe nothing by
  `get_invoice_payment_summary`, so the scan admits its booking. `CheckInsSettled`
  proves that there is no other exception.
- `PlanFollowsMoney` lets a plan that costs nothing wait, and under `manual` lets staff
  start an academy subscription whatever was paid: the code does both.
- `CompletedIsSettled` counts a transaction that was failed as settled, and excepts
  what the code loses: an event whose only delivery was cut off, met an error or found
  no transaction, Kashier's word on an attempt that had been pending, and all of PayPal's
  events while the log refuses them.
- `ProcessedMeansSettled` is about events marked processed with their transaction and
  without an error. PayPal's error paths mark theirs processed too, and so do four
  webhooks for an event whose transaction they do not find.
- `GivenOnce` is about what goes onto the ledger. That a request that is repeated makes
  one refund is the provider's doing (`NewRefund`), where it honours keys.
- `PostedOnlyWhenCompleted` is about the session, not the money: with a delayed
  method of Stripe's the customer has gone through with it and may still not pay.
- `TextOncePerReason`, `CancelledNotChosen` and `EndedStaysEnded` are about WhatsApp and one
  connector, whose poll waits for its own reports; reports that come really late, from
  a second one, are outside them. An email of a cancelled booking may still go out when
  another run's sweep reopens its row between the statements of a claim that screen and
  that choose.
- `OneSocket` does not count the sockets a `logout()` left alive, because its call
  failed or a `connect()` came in between: nobody closes those.
- `PurgedWhenRevoked` does not say which session was revoked, since a report does
  not. Nor does it say that a restart is harmless: the `disconnected` that a stopped
  container reports makes the next poller log the club out, which revokes its device.

## Fairness

*Ledger* (`FairSpec` of `BillingLedger`). Strong fairness of each session's next
statement, and of the one that posts a payment: PostgreSQL grants a row lock to
waiters in turn, so one that is freed again and again is obtained. Strong fairness
of the start of `expire_stale_booking_holds`: pg_cron runs it every minute
(`20260819170000_booking_payment_hold_expiry.sql:96-104`) and does not overlap a
job with itself. Nothing says that anybody pays, cancels or scans. Disconnections
are off in `live`, since endless ones would excuse anything. With three sessions
liveness would need the hand-off order of the lock queue, which the model leaves
out; two sessions need no order.

*Delivery.* Weak fairness of each call's next step: a call that is not cut off goes
on. It may be cut off at every step, and there is no fairness against that. Strong
fairness of the log: a provider repeats an event until it is answered with a 2xx.
Nothing makes a customer pay or a provider decide.

*Messages.* Weak fairness of polls and of the handling of a message in hand: a
process that runs goes on, and one that crashed is started again. The account is
connected again some time (otherwise a message waits until it expires). A row that
nobody holds is swept when it has been stuck long enough, and a row that is due is
chosen when it is its turn (`order by scheduled_at`): strong fairness, as both may
be possible only now and then. Faults are bounded, so that they end.

*Sessions* are checked for safety only: whether WhatsApp ever lets a device in is
not the connector's.

## Disagreements found

1. **void_invoice** (`void_race`): the sum of the payments is taken before the
   update locks the invoice, so a payment may commit between them and lie on a
   void invoice, which its migration's introduction excludes.
2. **A stale price** (`stale_price`): `record_payment` takes the price from the row
   it read before its lock. A rescheduling in between raises the price and the
   booking is confirmed with part of it unpaid.
3. **The audit chain forks** (`audit_fork`): two transactions that write audit rows
   at once chain to the same row, or in an order other than their numbers', and
   verification reports mismatches in a log nobody touched. A forked row is
   reported twice, and the second report says "this row was altered after insertion"
   (`20260829180000:319`), which it was not. `MismatchesComeInPairs` says what the
   reports are good for: one of `row_hash_mismatch` without `previous_hash_mismatch` at the
   same number does mean that a row was altered, both together may be two
   writers at once.

Met on the way, with no run of their own:

- `expire_stale_booking_holds` sums the payments without the invoice's lock
  (`20260824040000_wire_email_channel_remaining_sites.sql:183-189`): the gap of 1 again.
- `reschedule_booking` reprices an invoice that was paid after it had summed its
  payments (`20260906150000_close_academy_booking_double_booking.sql:1077-1106`),
  although `20260823030000_booking_reschedule_engine.sql:685-689` means to leave
  paid invoices alone. `NoOverCollection` and `ConfirmedWhenCovered` are therefore
  checked and proved without rescheduling.
- A number that a rollback consumed leaves a gap that `verify_audit_log_chain`
  reports as a deleted row
  (`20260829180000_audit_log_hardening_phase3_hash_chain.sql:134`, `:293-298`);
  `UntouchedLogVerifies` therefore asks for runs without a gap.
- `record_gateway_payment_service` looks at the invoice and not at the booking
  (`20260827083046:134`): a confirmation posts money on a cancelled or missed
  booking, where `record_payment` refuses it (`20260830114301:260-263`).
- PayPal's webhook writes its event without `payload_hash`
  (`paypal-gateway-webhook/index.ts:478`), a column that is NOT NULL
  (`20260827080411:16`), while its comment (`:470-473`) says "No new migration
  needed (confirmed live before writing this function)". The insert fails, every
  event is answered 500 and repeated, and no PayPal order is captured. The constant
  `NullHash` is this column. `delivery` has it TRUE (the row is taken), so that all
  that follows the insert is checked too; every behaviour with FALSE is among those.
  `delivery_live` has it FALSE, as deployed, and its property excepts the events
  the log refuses.
- A `logout()` is said always to report `logged_out` (`20260821153000:33-36`), and
  reports `disconnected` (`BaileysProvider.ts:1260-1275`): the stored credentials stay
  in the row, and the next start restores them.
- Claims are said never to overlap, "multiple connector instances/restarts never
  double-claim" (`20260818010000:67`). Two that run at once can both take a row, or
  one that was just cancelled, since the lock is on an alias whose status is not
  read again. One container per club runs the whole connector
  (`WhatsAppAccountObject.ts:883`), so two may run. What is checked and proved
  therefore assumes one connector, and excepts the claim that chose before the
  cancellation.

## Known limits of the code

Behaviour the models have and the properties name as exceptions, or leave out.

*Online payments.* A crash or an error after the event is logged loses the event: its
repetition is a duplicate (`stripe-gateway-webhook/index.ts:403-405`). A Stripe event
of any type the webhook does not know fails the pending transaction (`:677`), and
`failed` is final though the session can still be paid. A delayed method's payment
is posted while unpaid. The success branch always divides by 100 (`:554`), which
the checkout and the refund branch (`:640-641`) do not for currencies without minor
units. Providers without idempotency keys may open two sessions, or refund twice,
after a timeout. A second, intended refund of the same amount is taken for a
retry by Stripe and PayPal; Fawry's two converge on one ledger row. An error while a refund
event is reconciled is swallowed, and a dashboard refund that is heard of before the
payment is skipped. A `refund.updated` does not name the session of its payment and
may be left unmatched. Kashier's log is unique by transaction id alone: after a PENDING
callback the SUCCESS of the same attempt is a duplicate
(`kashier-gateway-webhook/index.ts:358-370`), which the webhook says it waits for
(`:447-448`), and the payment is never settled. PayPal's error paths set `processed`
together with `processing_error` (`paypal-gateway-webhook/index.ts:489-495`, `:612-615`), and
a look-up that fails is taken for a transaction that does not exist.

*Plans.* A membership that costs nothing is never paid, and no call starts it. Nor
does any start a free academy subscription under `first_payment`.

*Messages.* A send report sets the status whatever it is. Recovered rows have no cap
on attempts. Caps and spacing are checked once per batch. A report that fails drops
the rest of the batch. A receipt that comes before the send report leaves `sent`
(`20260822010000:123`). A retry keeps the old reference, so that a later crash shows
as confirmed. A crash after media failed loses the media. A batch of ten with
two sends of up to 75 seconds each may take longer than the ten minutes after which
its rows count as stuck.

*Sessions.* Restoring ignores the row's status. The poller takes the connector's
own report `disconnected` for a request of the operator's
(`ConnectionRequestPoller.ts:68-72`), and a late report may overwrite a request. A
connect during a pending `logout()` leaves its socket without an owner, and until the
manager has deleted the provider another one may dial beside it. The end of a `logout()`
deletes whatever provider the map has, so that the row may say connected with no
provider there; one whose `rm()` throws leaves its provider in the map. A report of
`logged_out` that is overtaken by the session of a new pairing erases that one, and a
session saved late brings back one that was erased. A `connect()`
that failed is not tried again while the row says `connecting`. Two claims that return out of
order leave the map with the older provider, whose reports are fenced off. Saves are
neither ordered nor fenced. A `logout()` that fails leaves its socket open.

## Proofs

`tlapm` checks eight proof modules from nothing. The assumptions are the named
ones of the modules: prices are naturals and amounts positive ones, every invoice has a
kind, the policy is one of three, null is no id, client keys and gateway keys are
apart; the bounds of voids, delivery, queue and session are naturals. Sets of ids may be of
any size. Some theorems have a hypothesis of their own, each a set of RPCs that are
not in use, and for each of them the run or the code that breaks the property
with them is named under [disagreements](#disagreements-found) or
[what some properties do not say](#runs); one supposes that there are finitely many
workers, three that there is one connector.

| Module | Theorem | States |
|---|---|---|
| `BillingLedgerProofs` | `TypeCorrect` | `Spec => []TypeOK` |
| `BillingLedgerSafety` | `LocksExclude` | no row is locked by two sessions |
| | `RefundsNeverExceed` | `Spec => []RefundsCovered` |
| | `CollectedOnce` | `Spec => []NoOverCollection`, if `reschedule_booking` is not in use |
| | `SettledIsFinal` | `Spec => SettledTxnIsFinal` |
| | `EndedStaysEnded` | `Spec => EndedBookingStaysEnded` |
| | `ConfirmedOutlives` | `Spec => ConfirmedOutlivesExpiry` |
| `BillingLedgerContract` | `PostsOnce` | `Spec => []GatewayPostsOnce` |
| | `LedgerKeepsContract` | `Spec => ImplementsContract`: the ledger implements `GatewayContract` |
| | `LedgerBalances`, `TotalsAreTheSums` | what an invoice received and gave back are the sums over its payments' rows, and the only ones |
| | `GivesBackWhatItReceived` | no invoice gives back more than it received |
| | `LedgerKeepsAccounts` | `Spec => ImplementsAccount`: the ledger implements `InvoiceAccount`, if `reschedule_booking` is not in use |
| `BillingLedgerOutcomes` | `PlansFollow` | `Spec => []PlanFollowsMoney` |
| | `RefundEnds` | `Spec => []FullRefundEndsMembership` |
| | `OneCheckIn` | `Spec => []OneCheckInPerBooking` |
| | `ConfirmedCovered` | `Spec => ConfirmedWhenCovered`, if `reschedule_booking` is not in use |
| | `VoidsUnpaid` | `Spec => []VoidMeansUnpaid`, if neither `void_invoice` nor `expire_stale_booking_holds` is in use |
| | `CheckInsPaid` | `Spec => CheckedInWhenPaid`, if none of `create_refund`, `create_gateway_refund_service`, `void_invoice` is in use |
| | `CheckInsSettled` | with any RPCs: who is checked in has covered the price after refunds, or got everything back, or has a void invoice |
| `GatewayDeliveryProofs` | `DeliveryTypes`, `PostedCompleted`, `RefIsCharge`, `RefundsAreBacked`, `ProcessedSettled` | the invariants of `delivery`, without `GivenOnce` |
| | `DeliveryKeepsContract` | `Spec => Ledger!Spec`: the functions touch the ledger only by `GatewayContract`'s steps |
| `MessageQueueProofs` | `TextsOnce`, `CancelledStops`, `EndedIsFinal` | with one connector, `TextOncePerReason`, `CancelledNotChosen` and `EndedStaysEnded` |
| | `AttemptsBounded` | `Spec => []TypeOK`, whose bound on attempts is the point, for finitely many workers |
| `WhatsAppSessionProofs` | `SessionTypes`, `RowCatchesUp`, `ConnectedMeansSocket`, `SingleSocket`, `PurgedOnlyIfRevoked` | all properties of `session` |
| `AuditChainProofs` | `ChainTypes`, `RowsResolve`, `TurnsVerify` | `TypeOK`, `LinksResolve`, `UntouchedLogVerifies` |
| | `MismatchesComeInPairs` | `Spec => [](RowHashMismatch = PreviousHashMismatch)` |
| | `LinksNameOneRow` | no two rows of the log have the same hash |

**Ledger: Shape.** `TypeOK` is not inductive: a step copies into a row what the
session remembers, so the sessions' values must be typed by where the session
stands. `Shape` adds that a session inside an RPC aims at rows that exist.

**Ledger: Safe.** None of the properties follows from the rows alone: a refund is
right because the session that writes it has seen, under the payment's lock, that
it fits, and the lock is still held. `Safe` says so for every RPC:

- `Exclusive`: two sessions never hold the same row's lock;
- `Promises`: what each session found when it took its lock still holds
  (`RefundPromise`: the amount still fits in the payment; `PayPromise`: in
  the invoice; `GatewayPromise`: the transaction is still pending;
  `BookingPromise`: the booking is still waiting or confirmed; `ExpiryPromise`,
  `PricePromise`);
- `RowsSafe`: `RefundsCovered`, and rows that are not in use are fresh.

A step may break the promise of another session only by writing what that one
relies on. `Frame(free)` says that all a step writes is a row no other session
has locked, or a row nobody relies on, and `PromiseKept` that promises survive
such a step. So each action needs only two facts of its own: that it satisfies
`Frame`, and that its own session's next promise holds. `GoOnSafe`, `EndSafe` and
`WriteSafe` package the ways a step treats its session (go on, commit
or roll back, write); `PaymentSafe`, `BookingSafe`, `IssuingSafe` and
`RollbackSafe` have one step per action; `SafeStep` and `SafeInit` give
`SafeInvariant`. `CollectedOnce` strengthens `Safe` with `NoOverCollection`. The
action properties follow from `Safe` and one case analysis over `Next`.

**Ledger: Once.** For the contract one must know which payment belongs to which
transaction. `Posted` says so of the rows: a gateway key is on one payment at most
(`KeyedOnce`), no other payment has one (`KeysApart`), and a transaction that
succeeded names it (`TxnPosted`). `Carries` says that a session carries the key
and the amount of the transaction it has locked. `Effect` sorts all steps by what
they do to payments and transactions: stage, post, link, fail, refund, issue, or
nothing; the refinement is then one step per effect.

**Ledger: Balanced.** A refund is bounded by what is left of its *payment*; that no
*invoice* gives back more than it received needs the invoice's totals to be the sums of
its payments' rows, which the code computes with queries and the model keeps as
`allocated` and `refunded`. A sum over a set is an enumeration of its elements with the
running totals (`SumsTo`), so that no step needs an induction: `SumAdd` and `SumChange`
change the totals behind one place, `SumMember` reads one off. That a set has one sum
(`SumUnique`) is by the shortest enumeration that would give another. `Balanced` says
of each invoice that its three totals (received, given back, held) are such sums;
with `Safe` it is inductive. `LedgerKeepsAccounts` then is one step of
`InvoiceAccount` per kind of step (`Collects`, `Marks`, `Ends`, refunds).

**Ledger: outcomes.** Few steps write the rows that plans, check-ins and
confirmations depend on (`Writers`, in `BillingLedgerContract`), and few bring a
session to where it does (`Arrivals`). `Plans` strengthens `PlanFollowsMoney` by what the sessions that will
write have found; `CheckIns` says that an admitted booking has one used credential and no
session on its way to use another; `Covers` that a session about to confirm has seen
the price covered under the lock. `Voids` says that a session about to post aims at
an issued invoice, whose lock it holds, and so does the cancellation that sums its
payments: the two exclude each other, while an unlocked sum excludes nothing.
`Unspoilt` says that without refunds and voids by staff only bookings being
cancelled lose their price (`Spares`: so does every session on its way to void),
and hence an invoice that owes nothing is one that was paid. `CheckInsSettled` supposes
nothing about the RPCs and names the other two ways in; it needs `Balanced` (no more
went back than came in) and that only shop goods are returned (`ShopReturns`).

**Online payments.** `Inv` is `TypeOK`, `EventsOccurred` (an event in any state has happened
at the provider), `CallsKnow` (what a call carries is so, and stays so),
`Charged` (the reference of a settled transaction), `RefundsBacked` and
`ProcessedMeansSettled`. That a refund an event carries is done is not the
environment's: events of pending and failed refunds come as well, and `RefundsBacked`
rests on the statuses the function and the webhook look at (`Confirmed`, `Succeeded`). The facts a call has read
are all of a kind that no step undoes, which is why no lock is needed: the lemmas
`EventStays`, `DoneStays`, `TookStays`, `SettledStays` say it once, and `Framed`
carries it over all steps. For the contract the functions need besides that what they
ask to be refunded is positive (`RefundsPositive`).

**Messages.** A message in hand is tied to its row: who holds it, that the row is
`processing` while it is held by the one connector, and where a copy stands in between.
`Vetted` says that a claim that is about to choose has screened every row of a cancelled
booking out, and that no step of the one connector's or of staff's brings one back. `Tried` bounds the attempts on a message with any
number of connectors: the limit is looked at when the message is chosen and the count raised
when it is taken, so what is bounded is the count together with the claims that have
chosen and not yet taken, and each fault lets the sweep bring a message back once
more (`Limit`).

**Sessions.** `Sound` is about one provider: its sockets, its attempt, its timer and its
generation fit together. A provider knows each of its live sockets, or a `logout()`
left it, and while an attempt is under way it knows none (`Dialled`): a dial tears
down the socket the provider knows, and that is why `OneSocket` holds, whatever
provider a connect or a logout that overlap find in the map. `Claimed` says that generations
are handed out one by one and used once, `Current` that the last thing the
current provider said is in the row or on its way, `Reason` why a report says
`logged_out`. Every step moves at most one provider, quietly or with
reports (`Moves`); `MoveKeeps` says what that preserves, and each action needs only
to be shown such a move.

**Audit chain.** `Linked`: the last row a writer may chain to is committed or its own.
`InTurn`: while writers take turns the log is a sequence without gaps in number
order; `TurnsVerify` then needs that the last row is the one with the highest number, by
well-founded order on naturals. `Hashed`: a row's hash is made of the row it claims to follow, so
the verifier's two comparisons fail together. `OwnNumbers`: no number is given
out twice, so no two rows have the same hash.

**Only model-checked.** Every invariant and every action property of the runs is
stated by a theorem, but for `GivenOnce`: it compares two sums over the refunds of a
transaction, one of them defined by recursion over their ids. Liveness is not, since fairness and `ENABLED` are out of the
prover's reach: `StaleHoldReleased`, `EveryCallEnds`, `CompletedIsSettled`,
`StripeRefundRecorded` and `EveryMessageSettles` hold on the instances of `live`,
`delivery_live` and `messages`, as far as those go. The disagreements are shown by counterexamples
and need no proof.

## What is not modelled

- *Field schedule*: exclusion constraint, advisory lock per field, training
  sessions, blocks. `create_field_block` reads conflicting bookings without the lock
  (`20260830202117:68`); bookings and training sessions are in two tables that no
  constraint spans. A state space of its own.
- *Cash shifts*: `record_payment` reads the open shift without a lock
  (`20260830055731:586`). A ledger beside the payments.
- *Shop stock*: lock order of two carts with the same goods, counts against a
  snapshot.
- *Manual payment claims and proofs*: wrappers of `record_payment` with a status of their own.
- *Renewal, freezing and expiry of plans*; groups and training sessions.
- *Rentals*, whose `cancel_rental_contract` (`20261007100000_rentals_module.sql:973`)
  and `settle_rental_deposit` (`20261008100000_rentals_v2.sql:771`) also void
  invoices; *platform subscriptions*; *portal invites*; *rate limits*; *sales
  outreach*, another queue with the email channel's discipline.
- *WhatsApp Durable Object*: mostly the platform's own runtime. Its effect on the
  connector, a process that starts and stops at any time, is modelled. The
  platform's own WhatsApp account mirrors a club's.
- *Row level security and roles* (declarative, per row), *reports* (read-only), *the
  frontend* (forms and views over the RPCs; its retries are the `Key`s here),
  *receipts*, *expenses*, *scripts*.

## Plan

Done, in order of weight: the ledger with its two abstract specifications, the
audit chain, online payments, messages, sessions, and the proofs above.

Left, in the order they are worth doing:

1. `FieldSchedule`: bookings, sessions and blocks of a field, with the advisory lock
   and the exclusion constraint; no overlap, from the lock on every path that inserts;
2. `CashShift` and `ShopStock`, small modules over `ClubRows`;
3. expiry and freezing of plans, claims and proofs.
