--------------------------- MODULE InvoiceAccount ---------------------------
(***************************************************************************)
(* What the ledger promises of every invoice, whoever collects and gives   *)
(* back, and however many sessions do it at once: an account that starts   *)
(* empty, never holds more than the price the invoice was issued at, and   *)
(* never less than nothing.  Money that comes back for goods a shop takes  *)
(* back leaves the account as it is: it is not owed again.                 *)
(***************************************************************************)
EXTENDS Integers

CONSTANTS
    Invoice,    \* invoices of the club
    Price       \* prices an invoice may be issued at

VARIABLES
    price,      \* what the invoice asks for; 0 before it is issued, and for
                \* good if it was issued for nothing
    collected   \* what it has received and not had to reopen

account == <<price, collected>>

Init ==
    /\ price = [i \in Invoice |-> 0]
    /\ collected = [i \in Invoice |-> 0]

\* The price is set once, unless it is nothing, and part of it may be collected in the same step.
Issue(i) ==
    /\ price[i] = 0
    /\ \E asked \in Price : \E paid \in 0 .. asked :
        /\ price' = [price EXCEPT ![i] = asked]
        /\ collected' = [collected EXCEPT ![i] = paid]

Collect(i) ==
    /\ \E amt \in 1 .. price[i] - collected[i] :
        collected' = [collected EXCEPT ![i] = @ + amt]
    /\ UNCHANGED price

GiveBack(i) ==
    /\ \E amt \in 1 .. collected[i] :
        collected' = [collected EXCEPT ![i] = @ - amt]
    /\ UNCHANGED price

Next == \E i \in Invoice : Issue(i) \/ Collect(i) \/ GiveBack(i)

Spec == Init /\ [][Next]_account
=============================================================================
