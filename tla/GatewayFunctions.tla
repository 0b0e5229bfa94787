--------------------------- MODULE GatewayFunctions ---------------------------
(***************************************************************************)
(* The edge functions <provider>-create-checkout-session,                  *)
(* <provider>-gateway-webhook and <provider>-create-refund, one action per *)
(* step between two calls they await.                                      *)
(***************************************************************************)
EXTENDS GatewayRows

-----------------------------------------------------------------------------
(* create-checkout-session.                                                *)

\* The transaction is read once, before the provider is called.
CheckoutBegin(c, t) ==
    /\ status[t] = "pending"
    /\ Starts(c, "out.call", t, None, 0, 0)
    /\ UNCHANGED <<ledger, ref, event, provider>>

\* The session a request to the provider leads to: with an idempotency key
\* the first one again, without one a new one each time.
Leads(t, k) ==
    IF via[t] \in Keyed THEN k = 1
    ELSE /\ k <= MaxKeyless
         /\ pay[t][k] = "none"
         /\ \A j \in 1 .. k - 1 : pay[t][j] # "none"

Made(t, k) ==
    pay' = [pay EXCEPT ![t][k] = IF @ = "none" THEN "made" ELSE @]

\* The provider answers with a link, which the customer gets in the end.
CheckoutCall(c) ==
    LET t == call[c].txn IN
    /\ Running(c, "out.call")
    /\ \E k \in SessionId :
        /\ Leads(t, k)
        /\ Made(t, k)
        /\ call' = [call EXCEPT ![c].pc = "out.ref", ![c].n = k]
    /\ UNCHANGED <<ledger, ref, event, via, back>>

\* Refused, or an answer without a usable link, or none within 15 seconds: in
\* the last two cases the session may exist.
CheckoutFails(c) ==
    LET t == call[c].txn IN
    /\ "timeout" \in Fault
    /\ Running(c, "out.call")
    /\ \/ UNCHANGED pay
       \/ \E k \in SessionId : Leads(t, k) /\ Made(t, k)
    /\ Goes(c, "out.fail")
    /\ UNCHANGED <<ledger, ref, event, via, back>>

CheckoutGivesUp(c) ==
    LET t == call[c].txn IN
    /\ Running(c, "out.fail")
    /\ \/ Ledger!Fail(t)
       \/ status[t] # "pending" /\ UNCHANGED ledger
    /\ Ends(c)
    /\ UNCHANGED <<desk, ref, event, provider>>

\* What each provider's answer says about the session.  Kashier's id and
\* Fawry's reference number may be missing.
StripeSessionRef(k)  == {<<"session", k>>}
PaypalSessionRef(k)  == {<<"session", k>>}
PaymobSessionRef(k)  == {<<"session", k>>}
KashierSessionRef(k) == {<<"session", k>>, None}
FawrySessionRef(t, k) == {<<"session", k>>, ref[t]}

SessionRef(t, k) ==
    CASE via[t] = "stripe"  -> StripeSessionRef(k)
      [] via[t] = "paypal"  -> PaypalSessionRef(k)
      [] via[t] = "paymob"  -> PaymobSessionRef(k)
      [] via[t] = "kashier" -> KashierSessionRef(k)
      [] via[t] = "fawry"   -> FawrySessionRef(t, k)

Opened(t, k) == pay' = [pay EXCEPT ![t][k] = IF @ = "made" THEN "open" ELSE @]

\* Mutant: the reference is stored whatever became of the transaction.
StoreRefAlways(c) ==
    LET t == call[c].txn  k == call[c].n IN
    /\ Running(c, "out.ref")
    /\ \E r \in SessionRef(t, k) : ref' = [ref EXCEPT ![t] = r]
    /\ Opened(t, k)
    /\ Ends(c)
    /\ UNCHANGED <<ledger, event, via, back>>

\* A failed update is only logged; the customer gets the link either way.
StoreRef(c) ==
    LET t == call[c].txn  k == call[c].n IN
    /\ Running(c, "out.ref")
    /\ \/ /\ status[t] = "pending"
          /\ \E r \in SessionRef(t, k) : ref' = [ref EXCEPT ![t] = r]
       \/ /\ status[t] # "pending" \/ "rpc" \in Fault
          /\ UNCHANGED ref
    /\ Opened(t, k)
    /\ Ends(c)
    /\ UNCHANGED <<ledger, event, via, back>>

-----------------------------------------------------------------------------
(* gateway-webhook.                                                        *)

\* Mutant: refund events are acknowledged and nothing more.
StripeDeaf(type) ==
    CASE type = "paid"                       -> "record"
      [] type \in {"refunding", "refunded"} -> "acknowledge"
      [] OTHER                               -> "fail"

\* What the handlers do with an event of a transaction they know.
StripeReaction(type) ==
    CASE type = "paid"                       -> "record"
      [] type \in {"refunding", "refunded"} -> "reconcile"
      [] OTHER                               -> "fail"

PaypalReaction(type) ==
    CASE type = "approved" -> "capture"
      [] type = "paid"     -> "record"
      [] type = "failed"   -> "fail"
      [] OTHER             -> "acknowledge"

\* A callback that is neither refund nor success fails the transaction, also
\* one that says the payment is pending.
PaymobReaction(type) ==
    CASE type = "refunded" -> "acknowledge"
      [] type = "paid"     -> "record"
      [] OTHER             -> "fail"

\* Mutant: a pending payment is taken for a successful one.
KashierEager(type) ==
    CASE type \in {"paid", "pending"} -> "record"
      [] type = "failed"             -> "fail"
      [] OTHER                       -> "acknowledge"

KashierReaction(type) ==
    CASE type = "paid"   -> "record"
      [] type = "failed" -> "fail"
      [] OTHER           -> "acknowledge"

FawryReaction(type) ==
    CASE type = "paid"   -> "record"
      [] type = "failed" -> "fail"
      [] OTHER           -> "acknowledge"

Reaction(e) ==
    CASE via[e.txn] = "stripe"  -> StripeReaction(e.type)
      [] via[e.txn] = "paypal"  -> PaypalReaction(e.type)
      [] via[e.txn] = "paymob"  -> PaymobReaction(e.type)
      [] via[e.txn] = "kashier" -> KashierReaction(e.type)
      [] via[e.txn] = "fawry"   -> FawryReaction(e.type)

Acts(c, reaction) == Running(c, "hook.act") /\ Reaction(call[c].ev) = reaction

\* PayPal's row has no payload hash, and the column is NOT NULL.
Loggable(e) == via[e.txn] = "paypal" => NullHash

\* Mutant: deliveries are told apart by the transaction they are about.
HookLogByTxn(c, e) ==
    /\ event[e] = "sent"
    /\ Loggable(e)
    /\ IF \A f \in Event : f.txn = e.txn => event[f] \in {"none", "sent"}
       THEN /\ event' = [event EXCEPT ![e] = "logged"]
            /\ Starts(c, "hook.act", e.txn, e, 0, 0)
       ELSE event' = [event EXCEPT ![e] = "duplicate"] /\ UNCHANGED call
    /\ UNCHANGED <<ledger, ref, provider>>

\* A delivery whose signature verifies.  The row is inserted first: every
\* other delivery of the event is from here on answered as a duplicate, and
\* does nothing.  A delivery that fails before the insert does nothing either
\* and is repeated.
HookLog(c, e) ==
    /\ event[e] = "sent"
    /\ Loggable(e)
    /\ event' = [event EXCEPT ![e] = "logged"]
    /\ Starts(c, "hook.act", e.txn, e, 0, 0)
    /\ UNCHANGED <<ledger, ref, provider>>

\* A callback of Kashier's has the id of the payment attempt it reports on,
\* and the log is unique by it.  Two attempts at one session have two ids: only
\* what an attempt that was pending came to has the id of an earlier callback.
SameAttempt(e, f) ==
    /\ via[e.txn] = "kashier"
    /\ e.txn = f.txn /\ e.n = f.n /\ e # f
    /\ {e.type, f.type} \subseteq {"pending", "paid", "failed"}
    /\ "pending" \in {e.type, f.type}

\* The second callback of an attempt is answered like a repeated first one.
HookDuplicate(e) ==
    /\ event[e] = "sent"
    /\ \E f \in Event :
        SameAttempt(e, f) /\ event[f] \notin {"none", "sent", "duplicate"}
    /\ event' = [event EXCEPT ![e] = "duplicate"]
    /\ UNCHANGED <<ledger, ref, provider, call>>

\* The event's transaction is not found.  Each webhook looks for it in the
\* database, and takes a look-up that fails for one that finds nothing; only
\* Stripe's payments carry its id.  For a refund Stripe is asked for the
\* session of the payment, which a refund.updated does not name.
HookUnmatched(c) ==
    LET e == call[c].ev IN
    /\ Running(c, "hook.act")
    /\ \/ via[e.txn] # "stripe" /\ "rpc" \in Fault /\ Goes(c, "hook.stray")
       \/ Acts(c, "reconcile") /\ Ends(c)
    /\ UNCHANGED <<ledger, ref, event, provider>>

\* record_gateway_payment_service posts, or rejects and answers null: the
\* amounts differ or the invoice was settled another way meanwhile.
HookRecord(c) ==
    LET t == call[c].txn IN
    /\ Acts(c, "record")
    /\ Ledger!Post(t, Amount) \/ Ledger!Fail(t)
    /\ ref' = [ref EXCEPT ![t] = ChargeRef(t, call[c].ev.n)]
    /\ Goes(c, "hook.mark")
    /\ UNCHANGED <<desk, event, provider>>

\* The RPC answers a replay with the payment it has, refuses a transaction
\* that is failed, or cannot be reached.
HookRecordSettled(c) ==
    LET t == call[c].txn IN
    /\ Acts(c, "record")
    /\ \/ status[t] = "succeeded" /\ Goes(c, "hook.mark")
       \/ status[t] = "failed" /\ Goes(c, "hook.note")
       \/ "rpc" \in Fault /\ Goes(c, "hook.note")
    /\ UNCHANGED <<ledger, ref, event, provider>>

\* The answer of mark_gateway_transaction_failed_service is not looked at.
HookFail(c) ==
    LET t == call[c].txn IN
    /\ Acts(c, "fail")
    /\ \/ Ledger!Fail(t)
       \/ (status[t] # "pending" \/ "rpc" \in Fault) /\ UNCHANGED ledger
    /\ Goes(c, "hook.mark")
    /\ UNCHANGED <<desk, ref, event, provider>>

HookAcknowledge(c) ==
    /\ Acts(c, "acknowledge")
    /\ Goes(c, "hook.mark")
    /\ UNCHANGED <<ledger, ref, event, provider>>

\* PayPal takes the money only when it is told to.
HookCapture(c) ==
    LET t == call[c].txn  k == call[c].ev.n IN
    /\ Acts(c, "capture")
    /\ \/ /\ pay[t][k] = "approved"
          /\ pay' = [pay EXCEPT ![t][k] = "paid"]
          /\ Sent(t, "paid", k)
          /\ Goes(c, "hook.mark") \/ ("timeout" \in Fault /\ Goes(c, "hook.note"))
       \/ /\ pay[t][k] = "approved"
          /\ pay' = [pay EXCEPT ![t][k] = "denied"]
          /\ Sent(t, "failed", k)
          /\ Goes(c, "hook.note")
       \/ /\ "timeout" \in Fault
          /\ UNCHANGED <<pay, event>>
          /\ Goes(c, "hook.note")
    /\ UNCHANGED <<ledger, ref, via, back>>

\* Mutant: a refund is posted whatever its status.
AnyStatus(e) == TRUE

\* refundStatus of the refund in the event, which the event was sent with.
Succeeded(e) == e.type = "refunded"

\* Stripe's refund events are the only ones that record a refund: that of a
\* transaction whose reference is the session the refund's payment belongs
\* to.  Errors are dropped, and so is a refund that comes before the payment.
HookReconcile(c) ==
    LET t == call[c].txn  r == call[c].ev.n IN
    /\ Acts(c, "reconcile")
    /\ ref[t] # None
    /\ \/ /\ ~ Succeeded(call[c].ev)
          /\ UNCHANGED ledger
          /\ Goes(c, "hook.mark")
       \/ /\ Succeeded(call[c].ev)
          /\ Ledger!Refund(t, LedgerKey(t, r), back[t][r].amt)
          /\ UNCHANGED desk
          /\ Goes(c, "hook.mark")
       \/ /\ Succeeded(call[c].ev)
          /\ LedgerKey(t, r) \in keys[t]
          /\ UNCHANGED ledger
          /\ Goes(c, "hook.mark")
       \/ /\ Succeeded(call[c].ev)
          /\ \/ worth[t] = 0
             \/ back[t][r].amt > worth[t] - given[t]
             \/ "rpc" \in Fault
          /\ UNCHANGED ledger
          /\ Goes(c, "hook.swallow")
    /\ UNCHANGED <<ref, event, provider>>

\* Mutant: an event is marked as processed whatever the RPC said.
HookMarkAlways(c) ==
    /\ \E pc \in {"hook.mark", "hook.note", "hook.stray"} : Running(c, pc)
    /\ event' = [event EXCEPT ![call[c].ev] = "processed"]
    /\ Ends(c)
    /\ UNCHANGED <<ledger, ref, provider>>

\* Of an error PayPal's webhook makes a note in a row it calls processed, the
\* others in one they leave unprocessed.
Noted(t) == IF via[t] = "paypal" THEN "flawed" ELSE "error"

HookMark(c) ==
    /\ \/ /\ Running(c, "hook.mark")
          /\ event' = [event EXCEPT ![call[c].ev] = "processed"]
       \/ /\ Running(c, "hook.note")
          /\ event' = [event EXCEPT ![call[c].ev] = Noted(call[c].txn)]
       \/ /\ Running(c, "hook.stray")
          /\ event' = [event EXCEPT ![call[c].ev] = "stray"]
       \/ /\ Running(c, "hook.swallow")
          /\ event' = [event EXCEPT ![call[c].ev] = "swallowed"]
    /\ Ends(c)
    /\ UNCHANGED <<ledger, ref, provider>>

-----------------------------------------------------------------------------
(* create-refund.                                                          *)

\* Everything is read without a lock.  Paymob's and PayPal's charge has to be
\* known, the others take any reference to the provider.
BackBegin(c, t, amt) ==
    /\ status[t] = "succeeded"
    /\ amt <= worth[t] - given[t]
    /\ ref[t] # None
    /\ via[t] = "paymob" => ref[t][1] = "charge"
    /\ Starts(c, "back.call", t, None, 0, amt)
    /\ UNCHANGED <<ledger, ref, event, provider>>

\* What the refunds in these states add up to.
Returned(t, states) ==
    LET Sum[r \in 0 .. MaxRefund] ==
            IF r = 0 THEN 0
            ELSE Sum[r - 1] + IF back[t][r].state \in states THEN back[t][r].amt ELSE 0
    IN  Sum[MaxRefund]

\* The refund a provider that honours keys answers a repeated request with:
\* the functions' key is the payment and the amount.
Replayed(t, amt, r) ==
    /\ via[t] \in Keyed
    /\ back[t][r].keyed
    /\ back[t][r].amt = amt

\* The provider gives money back up to what a paid session took; it knows the
\* charge the reference names.
NewRefund(t, amt, r) ==
    /\ back[t][r] = NoRefund
    /\ \A s \in 1 .. r - 1 : back[t][s] # NoRefund
    /\ ~ \E s \in RefundId : Replayed(t, amt, s)
    /\ \E k \in SessionId : pay[t][k] = "paid" /\ ref[t] = ChargeRef(t, k)
    /\ Returned(t, {"pending", "done"}) + amt <= Amount

\* Stripe and PayPal may answer that the refund is pending.
RefundStates(t) == IF via[t] \in Keyed THEN {"pending", "done"} ELSE {"done"}

\* Stripe sends an event of a refund with the status it has got; PayPal,
\* Paymob, Kashier and Fawry send one that is only acknowledged.
Refunded(t, r, amt, state, keyed) ==
    /\ back' = [back EXCEPT ![t][r] =
            [amt |-> amt, state |-> state, keyed |-> keyed]]
    /\ \/ state = "done" /\ Sent(t, "refunded", r)
       \/ state # "done" /\ via[t] = "stripe" /\ Sent(t, "refunding", r)
       \/ state # "done" /\ via[t] # "stripe" /\ UNCHANGED event

Confirmed(t, r) == back'[t][r].state = "done"

\* The provider's answer: what is confirmed is posted next, anything else
\* ends the call.  Asked again it may answer what it did the first time, when
\* the refund was pending.
BackCall(c) ==
    LET t == call[c].txn  amt == call[c].amt IN
    /\ Running(c, "back.call")
    /\ \E r \in RefundId :
        /\ \/ /\ NewRefund(t, amt, r)
              /\ \E state \in RefundStates(t) :
                    Refunded(t, r, amt, state, via[t] \in Keyed)
           \/ Replayed(t, amt, r) /\ UNCHANGED <<back, event>>
        /\ \/ /\ Confirmed(t, r)
              /\ call' = [call EXCEPT ![c].pc = "back.post", ![c].n = r]
           \/ /\ ~ Confirmed(t, r) \/ Replayed(t, amt, r)
              /\ Ends(c)
    /\ UNCHANGED <<ledger, ref, via, pay>>

\* Refused, or no answer in time, and then the money may be on its way back.
BackFails(c) ==
    LET t == call[c].txn  amt == call[c].amt IN
    /\ Running(c, "back.call")
    /\ \/ UNCHANGED <<back, event>>
       \/ /\ "timeout" \in Fault
          /\ \E r \in RefundId, state \in RefundStates(t) :
                /\ NewRefund(t, amt, r)
                /\ Refunded(t, r, amt, state, via[t] \in Keyed)
    /\ Ends(c)
    /\ UNCHANGED <<ledger, ref, via, pay>>

\* Mutant: the refund is posted without an idempotency key.
NoPostKey(t, r) == None

\* The key is made of the provider's id of the refund, as the webhook makes it.
PostKey(t, r) == LedgerKey(t, r)

\* create_gateway_refund_service returns the refund that has the key, refuses
\* more than is left of the payment, or cannot be reached.
BackPost(c) ==
    LET t == call[c].txn  key == PostKey(t, call[c].n)  amt == call[c].amt IN
    /\ Running(c, "back.post")
    /\ \/ Ledger!Refund(t, key, amt) /\ UNCHANGED desk
       \/ /\ key \in keys[t] \/ amt > worth[t] - given[t] \/ "rpc" \in Fault
          /\ UNCHANGED ledger
    /\ Ends(c)
    /\ UNCHANGED <<ref, event, provider>>

=============================================================================
