---------------------------- MODULE GatewayDelivery ----------------------------
(***************************************************************************)
(* Online payments end to end: customers, the five providers, at-least-    *)
(* once webhooks, the edge functions, which may be cut off between any two *)
(* of their steps, and the ledger behind its service RPCs.                 *)
(***************************************************************************)
EXTENDS GatewayFunctions

Init ==
    /\ Ledger!Init
    /\ desk = [t \in Txn |-> 0]
    /\ ref = [t \in Txn |-> None]
    /\ event = [e \in Event |-> "none"]
    /\ via \in [Txn -> Provider]
    /\ pay = [t \in Txn |-> [k \in SessionId |-> "none"]]
    /\ back = [t \in Txn |-> [r \in RefundId |-> NoRefund]]
    /\ call = [c \in Call |-> NoCall]

-----------------------------------------------------------------------------
(* Around the functions.                                                   *)

StartCheckout(t) ==
    /\ Ledger!Stage(t)
    /\ UNCHANGED <<desk, ref, event, provider, call>>

\* create_refund, by staff: nothing goes back through the provider.
StaffRefund(t, amt) ==
    /\ Ledger!Refund(t, None, amt)
    /\ desk' = [desk EXCEPT ![t] = @ + amt]
    /\ UNCHANGED <<ref, event, provider, call>>

Turns(t, k, from, to) ==
    /\ pay[t][k] = from
    /\ pay' = [pay EXCEPT ![t][k] = to]
    /\ UNCHANGED <<ledger, ref, via, back, call>>

\* The customer pays.  With PayPal that is an approval, with Stripe the
\* money of some methods arrives days after the session is completed.
CustomerPays(t, k) ==
    \/ /\ via[t] = "paypal"
       /\ Turns(t, k, "open", "approved")
       /\ Sent(t, "approved", k)
    \/ /\ via[t] = "stripe"
       /\ Turns(t, k, "open", "processing")
       /\ Sent(t, "paid", k)
    \/ /\ via[t] # "paypal"
       /\ Turns(t, k, "open", "paid")
       /\ Sent(t, "paid", k)

\* checkout.session.async_payment_succeeded is no event the webhook knows.
PaymentArrives(t, k) ==
    /\ via[t] = "stripe"
    /\ \/ Turns(t, k, "processing", "paid")
       \/ Turns(t, k, "processing", "denied")
    /\ Sent(t, "failed", k)

\* A card is declined and the customer may try again in the same session.
AttemptDeclined(t, k) ==
    /\ via[t] \in {"paymob", "kashier", "fawry"}
    /\ pay[t][k] = "open"
    /\ Sent(t, "failed", k)
    /\ UNCHANGED <<ledger, ref, provider, call>>

AttemptPending(t, k) ==
    /\ via[t] \in {"paymob", "kashier", "fawry"}
    /\ pay[t][k] = "open"
    /\ Sent(t, "pending", k)
    /\ UNCHANGED <<ledger, ref, provider, call>>

SessionExpires(t, k) ==
    /\ via[t] \in {"stripe", "kashier", "fawry"}
    /\ Turns(t, k, "open", "expired")
    /\ Sent(t, "failed", k)

\* A refund made in the provider's own dashboard.  A pending one would go on
\* like one of a request that was cut off.
DashboardRefund(t, r, amt) ==
    /\ via[t] = "stripe"
    /\ back[t][r] = NoRefund
    /\ \A s \in 1 .. r - 1 : back[t][s] # NoRefund
    /\ \E k \in SessionId : pay[t][k] = "paid"
    /\ Returned(t, {"pending", "done"}) + amt <= Amount
    /\ Refunded(t, r, amt, "done", FALSE)
    /\ UNCHANGED <<ledger, ref, via, pay, call>>

RefundSettles(t, r) ==
    /\ back[t][r].state = "pending"
    /\ \E state \in {"done", "failed"} :
        Refunded(t, r, back[t][r].amt, state, back[t][r].keyed)
    /\ UNCHANGED <<ledger, ref, via, pay, call>>

\* The edge runtime cuts a call off, or the log cannot be written and the
\* provider is answered 500: what is done stays done.
Crash(c) ==
    /\ "crash" \in Fault
    /\ ~Running(c, "idle")
    /\ Ends(c)
    /\ UNCHANGED <<ledger, ref, event, provider>>

-----------------------------------------------------------------------------
CheckoutStep(c) ==
    CheckoutCall(c) \/ CheckoutFails(c) \/ CheckoutGivesUp(c) \/ StoreRef(c)

HookStep(c) ==
    \/ HookUnmatched(c)
    \/ HookRecord(c) \/ HookRecordSettled(c) \/ HookFail(c)
    \/ HookAcknowledge(c) \/ HookCapture(c) \/ HookReconcile(c) \/ HookMark(c)

BackStep(c) == BackCall(c) \/ BackFails(c) \/ BackPost(c)

FunctionStep(c) == CheckoutStep(c) \/ HookStep(c) \/ BackStep(c)

ProviderStep(t) ==
    \/ \E k \in SessionId :
        \/ CustomerPays(t, k) \/ PaymentArrives(t, k) \/ AttemptDeclined(t, k)
        \/ AttemptPending(t, k) \/ SessionExpires(t, k)
    \/ \E r \in RefundId :
        \/ RefundSettles(t, r)
        \/ \E amt \in 1 .. Amount : DashboardRefund(t, r, amt)

Next ==
    \/ \E t \in Txn :
        \/ StartCheckout(t)
        \/ \E amt \in 1 .. Amount : StaffRefund(t, amt)
        \/ ProviderStep(t)
        \/ \E c \in Call : CheckoutBegin(c, t)
        \/ \E c \in Call, amt \in 1 .. Amount : BackBegin(c, t, amt)
    \/ \E e \in Event : HookDuplicate(e) \/ \E c \in Call : HookLog(c, e)
    \/ \E c \in Call : FunctionStep(c) \/ Crash(c)

Spec == Init /\ [][Next]_vars

\* A call that is not cut off goes on, and a provider repeats an event until
\* it gets a 2xx: deliveries reach the log again and again, and each event
\* only once, so in the end all do.
Fairness ==
    /\ \A c \in Call : WF_vars(FunctionStep(c))
    /\ SF_vars(\E c \in Call, e \in Event : HookLog(c, e))

FairSpec == Spec /\ Fairness

-----------------------------------------------------------------------------
(* Properties.                                                             *)

\* The rows, the providers' books and the calls have their shapes.
TypeOK ==
    /\ status \in [Txn -> {"none", "pending", "succeeded", "failed"}]
    /\ worth \in [Txn -> 0 .. Amount]
    /\ given \in [Txn -> 0 .. Amount]
    /\ desk \in [Txn -> Nat]
    /\ keys \in [Txn -> SUBSET RefundKey]
    /\ ref \in [Txn -> Ref \cup {None}]
    /\ event \in [Event -> EventStatus]
    /\ via \in [Txn -> Provider]
    /\ pay \in [Txn -> [SessionId -> SessionStatus]]
    /\ back \in [Txn -> [RefundId -> RefundRow]]
    /\ call \in [Call -> CallState]

\* A payment is on the ledger only if the customer went through with a
\* checkout session of its transaction (the success branches of the
\* webhooks, e.g. kashier-gateway-webhook:426-512).  With a delayed method of
\* Stripe's the money may still be on its way, or never come.
PostedOnlyWhenCompleted ==
    \A t \in Txn : status[t] = "succeeded" =>
        \E k \in SessionId :
            pay[t][k] \in Completed \/ (via[t] = "stripe" /\ pay[t][k] = "denied")

\* The reference on a transaction that succeeded names a charge of that very
\* transaction, although a second checkout call may still be storing its
\* session: the refund functions refund what it names
\* (create-checkout-session's update .eq('status', 'pending'),
\* paypal-create-refund:264-297).
SucceededRefIsCharge ==
    \A t \in Txn : status[t] = "succeeded" =>
        \E k \in SessionId :
            /\ ref[t] = ChargeRef(t, k)
            /\ pay[t][k] \in Completed \cup {"denied"}

\* Every refund the functions and the webhook put on the ledger has been
\* confirmed by the provider (stripe-create-refund:345-357,
\* stripe-gateway-webhook:620-652).
RefundsBacked ==
    \A t \in Txn : \A key \in keys[t] :
        \E r \in RefundId : back[t][r].state = "done" /\ LedgerKey(t, r) = key

\* What the ledger says was given back through the provider, the provider has
\* given back, and each of its refunds counts once, although the function that
\* asked for it, a retry after a time-out and the event of it may each post it
\* (stripe-create-refund:360-380, stripe-gateway-webhook:641-652).
GivenOnce ==
    \A t \in Txn : given[t] - desk[t] <= Returned(t, {"done"})

\* An event of a payment that the log calls processed, without an error and
\* with a transaction, left that transaction settled as succeeded or rejected,
\* never as it was (stripe-gateway-webhook:565-593,
\* paypal-gateway-webhook:612-621, kashier-gateway-webhook:506-527).
ProcessedMeansSettled ==
    \A e \in Event :
        /\ e.type = "paid" /\ event[e] = "processed"
        => status[e.txn] \in {"succeeded", "failed"}

\* The only call that took the event on is gone, or has given up; or, with
\* Kashier, the event was taken for a repeated one.
Dropped(e) ==
    \/ event[e] \in {"error", "flawed", "stray", "swallowed"}
    \/ event[e] = "duplicate" /\ via[e.txn] = "kashier"
    \/ event[e] = "logged" /\ \A c \in Call : call[c].ev # e

\* What the customer has gone through with is settled in the end, unless the
\* one delivery that took its event on was cut off or met an error, or the
\* log refuses the event: PayPal's, however often it comes, and Kashier's that
\* says what a pending payment came to (stripe-gateway-webhook:394,
\* paypal-gateway-webhook:478, kashier-gateway-webhook:358-370).
CompletedIsSettled ==
    \A t \in Txn, k \in SessionId :
        pay[t][k] \in {"approved", "processing", "paid"}
            ~> \/ status[t] \in {"succeeded", "failed"}
               \/ pay[t][k] = "denied"
               \/ ~Loggable(About(t, "approved", k))
               \/ Dropped(About(t, "approved", k))
               \/ Dropped(About(t, "paid", k))

\* A refund Stripe has made reaches the ledger, also when the call that asked
\* for it is gone, unless the delivery of its event is dropped
\* (stripe-gateway-webhook:596-670).
StripeRefundRecorded ==
    \A t \in Txn, r \in RefundId :
        via[t] = "stripe" /\ back[t][r].state = "done"
            ~> LedgerKey(t, r) \in keys[t] \/ Dropped(About(t, "refunded", r))
=============================================================================
