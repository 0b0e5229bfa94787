--------------------------- MODULE GatewayContract ---------------------------
(***************************************************************************)
(* What the ledger's service RPCs promise the edge functions that stand    *)
(* between it and the payment providers: a staged transaction is settled   *)
(* once, a payment exists only for a transaction that succeeded, and the   *)
(* refunds of a payment have distinct keys and never exceed it.            *)
(* BillingLedger implements this; GatewayDelivery relies on it.            *)
(***************************************************************************)
EXTENDS Integers

CONSTANTS
    Txn,        \* staged gateway transactions
    Worth,      \* amounts a payment may have
    RefundKey,  \* idempotency keys of refunds
    NoKey       \* a refund staff records without a key

VARIABLES
    status,     \* of each transaction
    worth,      \* amount of the payment posted for it; 0 without a payment
    given,      \* what the refunds of that payment add up to
    keys        \* the keys those refunds used

contract == <<status, worth, given, keys>>

Init ==
    /\ status = [t \in Txn |-> "none"]
    /\ worth = [t \in Txn |-> 0]
    /\ given = [t \in Txn |-> 0]
    /\ keys = [t \in Txn |-> {}]

Stage(t) ==
    /\ status[t] = "none"
    /\ status' = [status EXCEPT ![t] = "pending"]
    /\ UNCHANGED <<worth, given, keys>>

\* A new payment of amount w.
Post(t, w) ==
    /\ status[t] = "pending"
    /\ status' = [status EXCEPT ![t] = "succeeded"]
    /\ worth' = [worth EXCEPT ![t] = w]
    /\ UNCHANGED <<given, keys>>

\* The payment was there already, posted with the transaction's key.
Link(t) ==
    /\ status[t] = "pending"
    /\ status' = [status EXCEPT ![t] = "succeeded"]
    /\ \E w \in Worth, used \in SUBSET RefundKey : \E g \in 0 .. w :
        /\ worth' = [worth EXCEPT ![t] = w]
        /\ given' = [given EXCEPT ![t] = g]
        /\ keys' = [keys EXCEPT ![t] = used]

Fail(t) ==
    /\ status[t] = "pending"
    /\ status' = [status EXCEPT ![t] = "failed"]
    /\ UNCHANGED <<worth, given, keys>>

\* Mutant: what is left of the payment is not looked at.
RefundUnchecked(t, key, amt) ==
    /\ status[t] = "succeeded"
    /\ key \notin keys[t]
    /\ given' = [given EXCEPT ![t] = @ + amt]
    /\ keys' = [keys EXCEPT ![t] = @ \cup ({key} \ {NoKey})]
    /\ UNCHANGED <<status, worth>>

Refund(t, key, amt) ==
    /\ status[t] = "succeeded"
    /\ key \notin keys[t]
    /\ amt <= worth[t] - given[t]
    /\ given' = [given EXCEPT ![t] = @ + amt]
    /\ keys' = [keys EXCEPT ![t] = @ \cup ({key} \ {NoKey})]
    /\ UNCHANGED <<status, worth>>

Next ==
    \E t \in Txn :
        \/ Stage(t)
        \/ \E w \in Worth : Post(t, w)
        \/ Link(t)
        \/ Fail(t)
        \/ \E key \in RefundKey \cup {NoKey}, amt \in Worth : Refund(t, key, amt)

Spec == Init /\ [][Next]_contract
=============================================================================
