------------------------------ MODULE GatewayRows ------------------------------
(***************************************************************************)
(* State around the payment gateways' edge functions: the ledger as        *)
(* GatewayContract describes it, the event log, the calls in flight, and   *)
(* the five payment providers, modelled from how the functions use them.   *)
(***************************************************************************)
EXTENDS Integers, FiniteSets

CONSTANTS
    Txn,        \* transactions staged by start_gateway_checkout
    Call,       \* concurrent calls of edge functions
    Amount,     \* what a transaction asks for
    MaxSession, \* checkout sessions a provider opens per transaction (bound)
    MaxKeyless, \* the same where a repeated request opens another (bound)
    MaxRefund,  \* refunds a provider makes per transaction (bound)
    Fault,      \* which of "crash", "rpc", "timeout" may happen
    NullHash,   \* the event log takes a row without a payload hash
    None

VARIABLES
    status, worth, given, keys, \* the ledger, see GatewayContract
    desk,   \* of what is given back, what staff recorded without a provider
    ref,    \* provider_session_ref of each transaction
    event,  \* payment_gateway_webhook_events, and the events sent
    via,    \* the provider of each transaction
    pay,    \* at the provider: the checkout sessions of each transaction
    back,   \* at the provider: the refunds of each transaction
    call    \* calls in flight

ledger   == <<status, worth, given, keys, desk>>
provider == <<via, pay, back>>
vars     == <<ledger, ref, event, provider, call>>

Provider == {"stripe", "paypal", "paymob", "kashier", "fawry"}

\* The providers that honour an idempotency key sent with a request.
Keyed == {"stripe", "paypal"}

SessionId == 1 .. MaxSession
RefundId  == 1 .. MaxRefund

ASSUME GatewayAssumption ==
    /\ Amount \in Nat \ {0}
    /\ MaxSession \in Nat \ {0}
    /\ MaxKeyless \in SessionId
    /\ MaxRefund \in Nat \ {0}
    /\ NullHash \in BOOLEAN

\* made: the customer has no link to it yet; open: the link is handed out;
\* approved: PayPal waits for the capture; processing: Stripe waits for a
\* delayed payment method.
SessionStatus == {"none", "made", "open", "approved", "processing", "paid",
                  "expired", "denied"}

\* A session the customer went through with.
Completed == {"processing", "paid"}

NoRefund == [amt |-> 0, state |-> "none", keyed |-> FALSE]

RefundRow == [amt : 0 .. Amount, state : {"none", "pending", "done", "failed"},
              keyed : BOOLEAN]

\* The provider's ids: of a checkout session, and of the charge it led to.
Ref == {"session", "charge"} \X SessionId

\* What the success handlers store: Stripe keeps the id of the session, the
\* others have an id of the capture, transaction or order that was paid.
ChargeRef(t, k) ==
    IF via[t] = "stripe" THEN <<"session", k>> ELSE <<"charge", k>>

\* Fawry numbers no refunds: its key is the amount.
LedgerKey(t, r) == IF via[t] = "fawry" THEN <<"amount", back[t][r].amt>>
                   ELSE <<"refund", r>>

RefundKey == ({"amount"} \X (0 .. Amount)) \cup ({"refund"} \X RefundId)

Ledger == INSTANCE GatewayContract WITH Worth <- 1 .. Amount, NoKey <- None

-----------------------------------------------------------------------------
(* Events.  The providers deliver each at least once, until it is answered *)
(* with a 2xx, in any order.                                               *)

\* failed: an attempt is declined, a capture denied or a session expired;
\* refunding: a refund whose status is not, or not yet, "succeeded".
EventType == {"approved", "paid", "pending", "failed", "refunding", "refunded"}

\* n is the session, or the refund, the event is about.
Event == [txn : Txn, type : EventType, n : SessionId \cup RefundId]

About(t, type, n) == [txn |-> t, type |-> type, n |-> n]

\* logged: the row is inserted; processed: with processed = true and the
\* transaction's id; error: with a processing_error; flawed: processed, and
\* with a processing_error; stray: processed, for no transaction; swallowed:
\* processed, although a refund it reports was not recorded; duplicate:
\* answered as one, for the row of another event.
EventStatus == {"none", "sent", "logged", "processed", "error", "flawed",
                "stray", "swallowed", "duplicate"}

Sent(t, type, n) ==
    event' = [e \in Event |-> IF e = About(t, type, n) /\ event[e] = "none"
                              THEN "sent" ELSE event[e]]

-----------------------------------------------------------------------------
(* Calls.                                                                  *)

PC == {"idle", "hook.act", "hook.mark", "hook.note",
       "hook.stray", "hook.swallow", "out.call", "out.ref", "out.fail", "back.call",
       "back.post"}

CallState == [pc : PC, txn : Txn \cup {None}, ev : Event \cup {None},
              n : SessionId \cup RefundId \cup {0}, amt : 0 .. Amount]

NoCall == [pc |-> "idle", txn |-> None, ev |-> None, n |-> 0, amt |-> 0]

Running(c, pc) == call[c].pc = pc

Goes(c, pc) == call' = [call EXCEPT ![c].pc = pc]

Ends(c) == call' = [call EXCEPT ![c] = NoCall]

Starts(c, pc, t, e, n, amt) ==
    /\ Running(c, "idle")
    /\ call' = [call EXCEPT ![c] =
            [pc |-> pc, txn |-> t, ev |-> e, n |-> n, amt |-> amt]]
=============================================================================
