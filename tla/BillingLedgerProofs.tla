------------------------- MODULE BillingLedgerProofs -------------------------
(***************************************************************************)
(* Proofs about BillingLedger for any number of invoices, payments,        *)
(* transactions, keys, credentials and sessions.                           *)
(***************************************************************************)
EXTENDS BillingLedger, TLAPS

-----------------------------------------------------------------------------
(* Shape: the rows have their types, and what a session is about exists.   *)

RowsOK ==
    /\ invoiceStatus \in [Invoice -> {"none", "issued", "void"}]
    /\ total \in [Invoice -> Nat]
    /\ allocated \in [Invoice -> Nat]
    /\ refunded \in [Invoice -> Nat]
    /\ returned \in [Invoice -> Nat]
    /\ booking \in [Invoice -> BookingStatus]
    /\ holdExpired \in [Invoice -> BOOLEAN]
    /\ qr \in [Credential -> CredentialRow]
    /\ plan \in [Invoice -> {"none", "pending", "active", "cancelled"}]
    /\ payments \in [Payment -> PaymentRow]
    /\ gateway \in [Txn -> TxnRow]

\* A staged checkout names its invoice, a minted credential its booking.
Staged == \A t \in Txn :
              gateway[t].status # "none" => gateway[t].invoice \in Invoice
Minted == \A c \in Credential :
              qr[c].status # "none" => qr[c].booking \in Invoice

\* A session in state r names the rows its next statement is about.
AimedAt(r) ==
    /\ r.pc \notin {"idle", "expire.book"} => r.inv \in Invoice
    /\ r.pc = "refund.post" =>
            r.pay \in Payment /\ payments[r.pay].invoice = r.inv
    /\ r.pc \in {"gw.invoice", "gw.post"} =>
            r.txn \in Txn /\ gateway[r.txn].status # "none"
    /\ r.pc = "scan.book" => r.cred \in Credential /\ qr[r.cred].status # "none"

Shape ==
    /\ RowsOK
    /\ sess \in [Session -> SessionState]
    /\ Staged
    /\ Minted
    /\ \A s \in Session : AimedAt(sess[s])

\* Payments stay on the invoice they were recorded on, transactions staged
\* and credentials minted.
QrStay ==
    \A c \in Credential : qr[c].status # "none" => qr'[c].status # "none"

RowsStay ==
    /\ \A p \in Recorded : payments'[p].invoice = payments[p].invoice
    /\ \A t \in Txn : gateway[t].status # "none" => gateway'[t].status # "none"
    /\ QrStay

-----------------------------------------------------------------------------
\* Every row a session may lock is one of Row.
LEMMA RowIds ==
    /\ \A i \in Invoice : /\ InvoiceRow(i) \in Row
                          /\ BookingRow(i) \in Row
                          /\ SaleRow(i) \in Row
    /\ \A c \in Credential : QrRow(c) \in Row
    /\ \A p \in Payment : PayRow(p) \in Row
    /\ \A t \in Txn : GatewayRow(t) \in Row
BY DEF Row, InvoiceRow, BookingRow, SaleRow, QrRow, PayRow, GatewayRow

\* The idle state is a session state, about nothing.
LEMMA IdleShape == Idle \in SessionState /\ AimedAt(Idle)
BY DEF Idle, SessionState, PC, AimedAt

\* The three ways a step treats the sessions: one goes on and writes no row,
\* one writes rows and ends, rows are written outside of any session.
LEMMA GoOnShape ==
    ASSUME Shape, UNCHANGED rows, NEW s \in Session, NEW r \in SessionState,
           AimedAt(r), Become(s, r)
    PROVE  Shape'
<1>1. sess' \in [Session -> SessionState]
    BY DEF Become, Shape
<1>2. RowsOK' /\ Staged' /\ Minted'
    BY DEF Shape, RowsOK, Staged, Minted, rows, money
<1> QED BY <1>1, <1>2 DEF Shape, Become, rows, AimedAt

\* A session that writes rows of their types and ends keeps the shape.
LEMMA EndShape ==
    ASSUME Shape, RowsOK', Staged', Minted', RowsStay,
           NEW s \in Session, End(s)
    PROVE  Shape'
<1>1. sess' \in [Session -> SessionState]
    BY IdleShape DEF End, Become, Shape
<1>2. ASSUME NEW t \in Session PROVE AimedAt(sess[t])'
  <2>1. CASE t = s
    BY <2>1, IdleShape DEF End, Become, Shape, AimedAt, Idle
  <2>2. CASE t # s
    <3>1. sess'[t] = sess[t] /\ AimedAt(sess[t])
      BY <2>2 DEF End, Become, Shape
    <3>2. sess[t].pc = "refund.post" => sess[t].pay \in Recorded
      BY <3>1, NoneAssumption DEF AimedAt, Recorded
    <3> QED BY <3>1, <3>2 DEF AimedAt, RowsStay, QrStay
  <2> QED BY <2>1, <2>2
<1> QED BY <1>1, <1>2 DEF Shape

\* So does a step that writes rows outside of any session.
LEMMA RowsShape ==
    ASSUME Shape, RowsOK', Staged', Minted', RowsStay, UNCHANGED sess
    PROVE  Shape'
<1>1. ASSUME NEW t \in Session PROVE AimedAt(sess[t])'
  <2>1. AimedAt(sess[t])
    BY DEF Shape
  <2>2. sess[t].pc = "refund.post" => sess[t].pay \in Recorded
    BY <2>1, NoneAssumption DEF AimedAt, Recorded
  <2> QED BY <2>1, <2>2 DEF AimedAt, RowsStay, QrStay
<1> QED BY <1>1 DEF Shape

\* Failing a staged transaction, or noting the payment it led to, changes
\* neither its type nor the invoice it is staged on.
LEMMA TxnRows ==
    ASSUME Shape, NEW t \in Txn, gateway[t].status # "none",
           FailTxn(t) \/ \E p \in Payment : Succeed(t, p)
    PROVE  /\ gateway' \in [Txn -> TxnRow]
           /\ Staged'
           /\ \A u \in Txn :
                  gateway[u].status # "none" => gateway'[u].status # "none"
<1>1. gateway \in [Txn -> TxnRow] /\ Staged
    BY DEF Shape, RowsOK
<1>2. ASSUME NEW row \in TxnRow, gateway' = [gateway EXCEPT ![t] = row],
             row.status # "none", row.invoice = gateway[t].invoice
      PROVE  /\ gateway' \in [Txn -> TxnRow]
             /\ Staged'
             /\ \A u \in Txn :
                    gateway[u].status # "none" => gateway'[u].status # "none"
    BY <1>1, <1>2 DEF Staged
<1>3. CASE FailTxn(t)
  <2> DEFINE row == [gateway[t] EXCEPT !.status = "failed"]
  <2>1. row \in TxnRow /\ row.status = "failed"
                       /\ row.invoice = gateway[t].invoice
    BY <1>1 DEF TxnRow
  <2>2. gateway' = [gateway EXCEPT ![t] = row]
    BY <1>3 DEF FailTxn
  <2> QED BY <1>2, <2>1, <2>2
<1>4. ASSUME NEW p \in Payment, Succeed(t, p)
      PROVE  /\ gateway' \in [Txn -> TxnRow]
             /\ Staged'
             /\ \A u \in Txn :
                    gateway[u].status # "none" => gateway'[u].status # "none"
  <2> DEFINE row == [gateway[t] EXCEPT !.status = "succeeded", !.payment = p]
  <2>1. row \in TxnRow /\ row.status = "succeeded"
                       /\ row.invoice = gateway[t].invoice
    BY <1>1 DEF TxnRow
  <2>2. gateway' = [gateway EXCEPT ![t] = row]
    BY <1>1, <1>4 DEF Succeed
  <2> QED BY <1>2, <2>1, <2>2
<1> QED BY <1>3, <1>4

\* Every step of a payment RPC keeps the shape.
LEMMA PaymentShape ==
    ASSUME Shape, NEW s \in Session, PaymentBegin(s) \/ PaymentStep(s)
    PROVE  Shape'
<1>0. sess[s] \in SessionState /\ AimedAt(sess[s])
    BY DEF Shape
<1>1. ASSUME NEW i \in Invoice, NEW amt \in Amount, NEW key \in Key \cup {None},
             PayBegin(s, i, amt, key)
      PROVE  Shape'
  <2> DEFINE r == [Idle EXCEPT !.pc = "pay.lock", !.inv = i, !.amt = amt,
                               !.key = key, !.price = total[i]]
  <2>0. total[i] \in Nat
    BY DEF Shape, RowsOK
  <2>1. r \in SessionState /\ AimedAt(r)
    BY <2>0, AmountAssumption DEF SessionState, Idle, PC, AimedAt
  <2>2. Become(s, r) /\ UNCHANGED rows
    BY <1>1 DEF PayBegin
  <2> QED BY <2>1, <2>2, GoOnShape
<1>2. ASSUME NEW t \in Txn, MarkFailed(s, t)
      PROVE  Shape'
  <2>1. RowsOK' /\ Staged' /\ Minted' /\ RowsStay
    BY <1>2 DEF MarkFailed, Shape, RowsOK, Staged, Minted, RowsStay, QrStay,
                money, TxnRow, Recorded
  <2> QED BY <1>2, <2>1, RowsShape DEF MarkFailed
<1>3. ASSUME NEW t \in Txn, GatewayMismatch(s, t)
      PROVE  Shape'
  <2>1. RowsOK' /\ Staged' /\ Minted' /\ RowsStay
    BY <1>3 DEF GatewayMismatch, FailTxn, Shape, RowsOK, Staged, Minted,
                RowsStay, QrStay, money, TxnRow, Recorded
  <2> QED BY <1>3, <2>1, RowsShape DEF GatewayMismatch
<1>4. ASSUME NEW t \in Txn, GatewayLock(s, t)
      PROVE  Shape'
  <2> DEFINE r == [Idle EXCEPT
            !.pc = "gw.invoice", !.txn = t, !.inv = gateway[t].invoice,
            !.amt = gateway[t].amount, !.key = GatewayIdempotencyKey(t),
            !.locks = {GatewayRow(t)}]
  <2>1. /\ gateway[t].invoice \in Invoice
        /\ gateway[t].amount \in Nat
        /\ gateway[t].status # "none"
        /\ GatewayIdempotencyKey(t) \in Key \cup Txn
    BY <1>4 DEF GatewayLock, GatewayIdempotencyKey, Shape, RowsOK, Staged,
                TxnRow
  <2>2. r \in SessionState /\ AimedAt(r)
    BY <2>1, RowIds DEF SessionState, Idle, PC, AimedAt
  <2>3. Become(s, r) /\ UNCHANGED rows
    BY <1>4 DEF GatewayLock
  <2> QED BY <2>2, <2>3, GoOnShape
<1>5. ASSUME NEW p \in Payment, NEW amt \in Amount,
             NEW key \in Key \cup Txn \cup {None}, NEW ret \in BOOLEAN,
             NEW held \in SUBSET Row, RefundLock(s, p, amt, key, ret, held)
      PROVE  Shape'
  <2> DEFINE r == [Idle EXCEPT
            !.pc = "refund.post", !.pay = p, !.inv = payments[p].invoice,
            !.amt = amt, !.key = key, !.ret = ret,
            !.locks = held \cup {PayRow(p)}]
  <2>1. payments[p].invoice \in Invoice
    BY <1>5 DEF RefundLock, Recorded, Shape, RowsOK, PaymentRow
  <2>2. r \in SessionState /\ AimedAt(r)
    BY <2>1, RowIds, AmountAssumption DEF SessionState, Idle, PC, AimedAt
  <2>3. Become(s, r) /\ UNCHANGED rows
    BY <1>5 DEF RefundLock
  <2> QED BY <2>2, <2>3, GoOnShape
<1>6. ASSUME NEW p \in Payment, NEW amt \in Amount, NEW key \in Key \cup {None},
             CreateRefund(s, p, amt, key)
      PROVE  Shape'
  <2>1. /\ key \in Key \cup Txn \cup {None}
        /\ FALSE \in BOOLEAN
        /\ {} \in SUBSET Row
    OBVIOUS
  <2>2. RefundLock(s, p, amt, key, FALSE, {})
    BY <1>6 DEF CreateRefund
  <2> QED BY <1>5, <2>1, <2>2
<1>7. ASSUME NEW p \in Payment, NEW t \in Txn, NEW amt \in Amount,
             NEW key \in Key \cup {None},
             CreateGatewayRefund(s, p, t, amt, key)
      PROVE  Shape'
  <2> DEFINE k == IF key = None THEN t ELSE key
  <2>1. /\ k \in Key \cup Txn \cup {None}
        /\ FALSE \in BOOLEAN
        /\ {} \in SUBSET Row
    OBVIOUS
  <2>2. RefundLock(s, p, amt, k, FALSE, {})
    BY <1>7 DEF CreateGatewayRefund
  <2> HIDE DEF k
  <2> QED BY <1>5, <2>1, <2>2
<1>8. ASSUME NEW p \in Payment, NEW amt \in Amount, ReturnShopSale(s, p, amt)
      PROVE  Shape'
  <2>1. payments[p].invoice \in Invoice
    BY <1>8 DEF ReturnShopSale, Recorded, Shape, RowsOK, PaymentRow
  <2>2. {SaleRow(payments[p].invoice)} \in SUBSET Row
    BY <2>1, RowIds
  <2> QED BY <1>5, <1>8, <2>2 DEF ReturnShopSale
<1>9. ASSUME PayLock(s)
      PROVE  Shape'
  <2> DEFINE i == sess[s].inv
             r == [sess[s] EXCEPT
            !.pc = "pay.post", !.full = PayBalance(s) <= sess[s].amt,
            !.locks = @ \cup {InvoiceRow(i)}]
  <2>1. i \in Invoice
    BY <1>0, <1>9 DEF PayLock, AimedAt
  <2>2. r \in SessionState /\ AimedAt(r)
    <3>1. (PayBalance(s) <= sess[s].amt) \in BOOLEAN
      OBVIOUS
    <3>2. r \in SessionState
      BY <1>0, <2>1, <3>1, RowIds DEF SessionState, PC
    <3>3. r.pc = "pay.post" /\ r.inv = i
      BY <1>0 DEF SessionState
    <3> QED BY <2>1, <3>2, <3>3 DEF AimedAt
  <2>3. Become(s, r) /\ UNCHANGED rows
    BY <1>9 DEF PayLock
  <2> QED BY <2>2, <2>3, GoOnShape
<1>10. ASSUME PayRefuse(s) \/ PayDuplicate(s)
       PROVE  Shape'
    BY <1>10, GoOnShape, IdleShape DEF PayRefuse, PayDuplicate, End
<1>11. ASSUME NEW p \in Payment, PayPost(s, p)
       PROVE  Shape'
  <2>1. /\ sess[s].inv \in Invoice
        /\ sess[s].amt \in Nat
        /\ sess[s].key \in Key \cup Txn \cup {None}
    BY <1>0, <1>11 DEF PayPost, AimedAt, SessionState
  <2>2. RowsOK' /\ Staged' /\ Minted' /\ RowsStay
    <3>1. payments' \in [Payment -> PaymentRow] /\ RowsStay
      BY <1>11, <2>1 DEF PayPost, InsertPayment, Shape, RowsOK, PaymentRow,
                         RowsStay, QrStay, Recorded
    <3>2. /\ allocated' \in [Invoice -> Nat]
          /\ plan' \in [Invoice -> {"none", "pending", "active", "cancelled"}]
          /\ booking' \in [Invoice -> BookingStatus]
      BY <1>11, <2>1 DEF PayPost, InsertPayment, ActivatePlan, ConfirmBooking,
                         Shape, RowsOK, BookingStatus
    <3> QED BY <1>11, <3>1, <3>2 DEF PayPost, Shape, RowsOK, Staged, Minted
  <2> QED BY <1>11, <2>2, EndShape DEF PayPost
<1>12. ASSUME GatewayLockInvoice(s)
       PROVE  Shape'
  <2> DEFINE i == sess[s].inv
             r == [sess[s] EXCEPT
            !.pc = "gw.post", !.full = Outstanding(i) <= sess[s].amt,
            !.locks = @ \cup {InvoiceRow(i)}]
  <2>1. /\ i \in Invoice
        /\ sess[s].txn \in Txn
        /\ gateway[sess[s].txn].status # "none"
    BY <1>0, <1>12 DEF GatewayLockInvoice, AimedAt
  <2>2. r \in SessionState /\ AimedAt(r)
    <3>1. (Outstanding(i) <= sess[s].amt) \in BOOLEAN
      OBVIOUS
    <3>2. r \in SessionState
      BY <1>0, <2>1, <3>1, RowIds DEF SessionState, PC
    <3>3. r.pc = "gw.post" /\ r.inv = i /\ r.txn = sess[s].txn
      BY <1>0 DEF SessionState
    <3> QED BY <2>1, <3>2, <3>3 DEF AimedAt
  <2>3. Become(s, r) /\ UNCHANGED rows
    BY <1>12 DEF GatewayLockInvoice
  <2> QED BY <2>2, <2>3, GoOnShape
<1>13. ASSUME GatewayReject(s)
       PROVE  Shape'
  <2>0. sess[s].txn \in Txn /\ gateway[sess[s].txn].status # "none"
    BY <1>0, <1>13 DEF GatewayReject, AimedAt
  <2>1. gateway' \in [Txn -> TxnRow] /\ Staged' /\ RowsStay
    <3>1. FailTxn(sess[s].txn) /\ UNCHANGED <<payments, qr>>
      BY <1>13 DEF GatewayReject
    <3> QED BY <2>0, <3>1, TxnRows DEF RowsStay, QrStay
  <2>2. RowsOK' /\ Minted'
    BY <1>13, <2>1 DEF GatewayReject, Shape, RowsOK, Minted, money
  <2> QED BY <1>13, <2>1, <2>2, EndShape DEF GatewayReject
<1>14. ASSUME NEW p \in Payment, GatewayPost(s, p)
       PROVE  Shape'
  <2>1. /\ sess[s].inv \in Invoice
        /\ sess[s].amt \in Nat
        /\ sess[s].key \in Key \cup Txn \cup {None}
        /\ sess[s].txn \in Txn
        /\ gateway[sess[s].txn].status # "none"
    BY <1>0, <1>14 DEF GatewayPost, AimedAt, SessionState
  <2>2. RowsOK' /\ Staged' /\ Minted' /\ RowsStay
    <3>1. payments' \in [Payment -> PaymentRow]
      BY <1>14, <2>1 DEF GatewayPost, InsertPayment, Shape, RowsOK, PaymentRow
    <3>2. gateway' \in [Txn -> TxnRow] /\ Staged'
      <4>1. Succeed(sess[s].txn, p)
        BY <1>14 DEF GatewayPost
      <4> QED BY <2>1, <4>1, TxnRows
    <3>3. RowsStay
      <4>1. /\ Succeed(sess[s].txn, p)
            /\ InsertPayment(p, sess[s].inv, sess[s].amt, sess[s].key)
            /\ UNCHANGED qr
        BY <1>14 DEF GatewayPost
      <4>2. \A q \in Recorded : payments'[q].invoice = payments[q].invoice
        BY <4>1 DEF InsertPayment, Recorded, Shape, RowsOK
      <4> QED BY <2>1, <4>1, <4>2, TxnRows DEF RowsStay, QrStay
    <3>4. /\ allocated' \in [Invoice -> Nat]
          /\ plan' \in [Invoice -> {"none", "pending", "active", "cancelled"}]
          /\ booking' \in [Invoice -> BookingStatus]
      BY <1>14, <2>1 DEF GatewayPost, InsertPayment, ActivatePlan,
                         ConfirmBooking, Shape, RowsOK, BookingStatus
    <3> QED BY <1>14, <3>1, <3>2, <3>3, <3>4
            DEF GatewayPost, Shape, RowsOK, Minted
  <2> QED BY <1>14, <2>2, EndShape DEF GatewayPost
<1>15. ASSUME NEW p \in Payment, GatewayLink(s, p)
       PROVE  Shape'
  <2>1. sess[s].txn \in Txn /\ gateway[sess[s].txn].status # "none"
    BY <1>0, <1>15 DEF GatewayLink, AimedAt
  <2>2. gateway' \in [Txn -> TxnRow] /\ Staged' /\ RowsStay
    <3>1. Succeed(sess[s].txn, p) /\ UNCHANGED <<payments, qr>>
      BY <1>15 DEF GatewayLink
    <3> QED BY <2>1, <3>1, TxnRows DEF RowsStay, QrStay
  <2>3. RowsOK' /\ Minted'
    BY <1>15, <2>2 DEF GatewayLink, Shape, RowsOK, Minted, money
  <2> QED BY <1>15, <2>2, <2>3, EndShape DEF GatewayLink
<1>16. ASSUME RefundPost(s)
       PROVE  Shape'
  <2>1. /\ sess[s].inv \in Invoice
        /\ sess[s].pay \in Payment
        /\ sess[s].amt \in Nat
        /\ sess[s].key \in Key \cup Txn \cup {None}
    BY <1>0, <1>16 DEF RefundPost, AimedAt, SessionState
  <2> DEFINE q == sess[s].pay
             keys == payments[q].refundKeys \cup ({sess[s].key} \ {None})
             sum  == payments[q].refunded + sess[s].amt
             row  == [payments[q] EXCEPT !.refunded = sum,
                                         !.refundKeys = keys]
  <2>0. payments' = [payments EXCEPT ![q] = row] /\ UNCHANGED <<gateway, qr>>
    BY <1>16, <2>1 DEF RefundPost, Shape, RowsOK, PaymentRow
  <2>2. payments' \in [Payment -> PaymentRow]
    <3>1. payments \in [Payment -> PaymentRow]
      BY DEF Shape, RowsOK
    <3>2. keys \in SUBSET (Key \cup Txn) /\ sum \in Nat
      BY <2>1, <3>1 DEF PaymentRow
    <3>3. row \in PaymentRow
      <4> HIDE DEF keys, sum
      <4> QED BY <2>1, <3>1, <3>2 DEF PaymentRow
    <3> QED BY <2>0, <2>1, <3>1, <3>3
  <2>3. RowsStay
    <3>1. payments \in [Payment -> PaymentRow]
      BY DEF Shape, RowsOK
    <3>2. row.invoice = payments[q].invoice
      BY <2>1, <3>1 DEF PaymentRow
    <3> QED BY <2>0, <2>1, <3>1, <3>2 DEF RowsStay, QrStay, Recorded
  <2>4. /\ refunded' \in [Invoice -> Nat]
        /\ returned' \in [Invoice -> Nat]
        /\ plan' \in [Invoice -> {"none", "pending", "active", "cancelled"}]
    BY <1>16, <2>1 DEF RefundPost, CancelMembership, Shape, RowsOK
  <2>5. RowsOK' /\ Staged' /\ Minted'
    BY <1>16, <2>2, <2>4 DEF RefundPost, Shape, RowsOK, Staged, Minted
  <2> QED BY <1>16, <2>3, <2>5, EndShape DEF RefundPost
<1> QED BY <1>1, <1>2, <1>3, <1>4, <1>6, <1>7, <1>8, <1>9, <1>10, <1>11, <1>12,
           <1>13, <1>14, <1>15, <1>16 DEF PaymentBegin, PaymentStep

\* Every step of a booking RPC keeps the shape.
LEMMA BookingShape ==
    ASSUME Shape, NEW s \in Session, BookingBegin(s) \/ BookingStep(s)
    PROVE  Shape'
<1>0. sess[s] \in SessionState /\ AimedAt(sess[s])
    BY DEF Shape
<1>1. ASSUME NEW i \in Invoice, VoidRead(s, i)
      PROVE  Shape'
  <2> DEFINE r == [Idle EXCEPT !.pc = "void.write", !.inv = i]
  <2>1. r \in SessionState /\ AimedAt(r)
    BY DEF SessionState, Idle, PC, AimedAt
  <2>2. Become(s, r) /\ UNCHANGED rows
    BY <1>1 DEF VoidRead
  <2> QED BY <2>1, <2>2, GoOnShape
<1>2. ASSUME NEW i \in Invoice, CancelBook(s, i)
      PROVE  Shape'
  <2> DEFINE r == [Idle EXCEPT !.pc = "cancel.qr", !.inv = i,
                               !.locks = {BookingRow(i)}]
  <2>1. r \in SessionState /\ AimedAt(r)
    BY RowIds DEF SessionState, Idle, PC, AimedAt
  <2>2. Become(s, r) /\ UNCHANGED rows
    BY <1>2 DEF CancelBook
  <2> QED BY <2>1, <2>2, GoOnShape
<1>3. ASSUME ExpireBegin(s)
      PROVE  Shape'
  <2> DEFINE stale == {i \in Invoice : booking[i] = "pending_payment"
                                       /\ holdExpired[i]}
             r == [Idle EXCEPT !.pc = "expire.book", !.todo = stale]
  <2>1. r \in SessionState /\ AimedAt(r)
    BY DEF SessionState, Idle, PC, AimedAt
  <2>2. Become(s, r) /\ UNCHANGED rows
    BY <1>3 DEF ExpireBegin
  <2> QED BY <2>1, <2>2, GoOnShape
<1>4. ASSUME NEW i \in Invoice, NEW price \in Price, RescheduleBook(s, i, price)
      PROVE  Shape'
  <2> DEFINE r == [Idle EXCEPT
            !.pc = IF allocated[i] = 0 /\ price # total[i] THEN "resch.price"
                   ELSE "resch.qr",
            !.inv = i, !.amt = price, !.locks = {BookingRow(i)}]
  <2>1. r \in SessionState /\ AimedAt(r)
    BY RowIds, PriceAssumption DEF SessionState, Idle, PC, AimedAt
  <2>2. Become(s, r) /\ UNCHANGED rows
    BY <1>4 DEF RescheduleBook
  <2> QED BY <2>1, <2>2, GoOnShape
<1>5. ASSUME NEW i \in Invoice, EnsureQr(s, i)
      PROVE  Shape'
  <2> DEFINE r == [Idle EXCEPT !.pc = "mint", !.inv = i]
  <2>1. r \in SessionState /\ AimedAt(r)
    BY DEF SessionState, Idle, PC, AimedAt
  <2>2. Become(s, r) /\ UNCHANGED rows
    BY <1>5 DEF EnsureQr
  <2> QED BY <2>1, <2>2, GoOnShape
<1>6. ASSUME NEW c \in Credential, ScanCredential(s, c)
      PROVE  Shape'
  <2> DEFINE r == [Idle EXCEPT
            !.pc = "scan.book", !.inv = qr[c].booking, !.cred = c,
            !.locks = {QrRow(c)}]
  <2>1. qr[c].booking \in Invoice /\ qr[c].status # "none"
    BY <1>6 DEF ScanCredential, Shape, Minted
  <2>2. r \in SessionState /\ AimedAt(r)
    BY <2>1, RowIds DEF SessionState, Idle, PC, AimedAt
  <2>3. Become(s, r) /\ UNCHANGED rows
    BY <1>6 DEF ScanCredential
  <2> QED BY <2>2, <2>3, GoOnShape
<1>7. ASSUME NEW i \in Invoice, NEW op, NEW from,
             NEW to \in BookingStatus, Mark(s, i, op, from, to)
      PROVE  Shape'
  <2>1. RowsOK' /\ Staged' /\ Minted' /\ RowsStay
    BY <1>7 DEF Mark, Shape, RowsOK, Staged, Minted, RowsStay, QrStay, money,
                Recorded
  <2> QED BY <1>7, <2>1, RowsShape DEF Mark
<1>8. ASSUME NEW i \in Invoice,
             MarkNoShow(s, i) \/ MarkCompleted(s, i) \/ AutoComplete(s, i)
      PROVE  Shape'
  <2>1. "no_show" \in BookingStatus /\ "completed" \in BookingStatus
    BY DEF BookingStatus
  <2> QED BY <1>7, <1>8, <2>1 DEF MarkNoShow, MarkCompleted, AutoComplete
<1>9. ASSUME VoidWrite(s)
      PROVE  Shape'
  <2>1. RowsOK' /\ Staged' /\ Minted' /\ RowsStay
    BY <1>9 DEF VoidWrite, VoidIssued, Shape, RowsOK, Staged, Minted, RowsStay,
                QrStay, money, Recorded
  <2> QED BY <1>9, <2>1, EndShape DEF VoidWrite
<1>10. ASSUME CancelQr(s)
       PROVE  Shape'
  <2> DEFINE active == Active(sess[s].inv)
             r == [sess[s] EXCEPT
            !.pc = "cancel.invoice",
            !.locks = @ \cup {QrRow(c) : c \in active}]
  <2>1. {QrRow(c) : c \in active} \in SUBSET Row
    BY RowIds DEF Active
  <2>2. sess[s].inv \in Invoice
    BY <1>0, <1>10 DEF CancelQr, AimedAt
  <2>3. r \in SessionState
    BY <1>0, <2>1 DEF SessionState, PC
  <2>4. r.pc = "cancel.invoice" /\ r.inv = sess[s].inv
    BY <1>0 DEF SessionState
  <2>5. Become(s, r) /\ UNCHANGED rows
    BY <1>10 DEF CancelQr
  <2>6. AimedAt(r)
    BY <2>2, <2>4 DEF AimedAt
  <2> QED BY <2>3, <2>5, <2>6, GoOnShape
<1>11. ASSUME CancelInvoice(s)
       PROVE  Shape'
  <2> DEFINE cs == {c \in Credential : QrRow(c) \in sess[s].locks}
  <2>1. qr' \in [Credential -> CredentialRow] /\ Minted' /\ QrStay
    <3>1. qr' = Revoked(cs)
      BY <1>11 DEF CancelInvoice
    <3> QED BY <3>1 DEF QrStay, Revoked, Shape, RowsOK, Minted, CredentialRow
  <2>2. RowsOK' /\ Staged' /\ RowsStay
    BY <1>11, <2>1 DEF CancelInvoice, VoidIssued, Shape, RowsOK, Staged,
                       RowsStay, money, Recorded, BookingStatus
  <2> QED BY <1>11, <2>1, <2>2, EndShape DEF CancelInvoice
<1>12. ASSUME NEW i \in Invoice, ExpireBook(s, i)
       PROVE  Shape'
  <2> DEFINE still == booking[i] = "pending_payment"
             r == [sess[s] EXCEPT
            !.todo = sess[s].todo \ {i},
            !.inv = i,
            !.pc = IF still /\ allocated[i] = 0 THEN "expire.void" ELSE @,
            !.locks = IF still THEN @ \cup {BookingRow(i)} ELSE @,
            !.cancels = IF still THEN @ \cup {i} ELSE @]
  <2>1. r \in SessionState
    <3>1. (IF still /\ allocated[i] = 0 THEN "expire.void" ELSE sess[s].pc)
            \in PC
      BY <1>0 DEF SessionState, PC
    <3>2. (IF still THEN sess[s].locks \cup {BookingRow(i)}
           ELSE sess[s].locks) \in SUBSET Row
      BY <1>0, RowIds DEF SessionState
    <3>3. (IF still THEN sess[s].cancels \cup {i} ELSE sess[s].cancels)
            \in SUBSET Invoice
      BY <1>0 DEF SessionState
    <3>4. sess[s].todo \ {i} \in SUBSET Invoice
      BY <1>0 DEF SessionState
    <3> HIDE DEF still
    <3> QED BY <1>0, <3>1, <3>2, <3>3, <3>4 DEF SessionState
  <2>2. r.pc \in {"expire.book", "expire.void"} /\ r.inv = i
    BY <1>0, <1>12 DEF ExpireBook, ExpireTake, SessionState
  <2>3. AimedAt(r)
    BY <2>2 DEF AimedAt
  <2>4. Become(s, r) /\ UNCHANGED rows
    BY <1>12 DEF ExpireBook, ExpireTake
  <2> QED BY <2>1, <2>3, <2>4, GoOnShape
<1>13. ASSUME ExpireVoid(s)
       PROVE  Shape'
  <2> DEFINE i == sess[s].inv
             issued == invoiceStatus[i] = "issued"
             held  == IF issued THEN sess[s].locks \cup {InvoiceRow(i)}
                                ELSE sess[s].locks
             voids == IF issued THEN sess[s].voids \cup {i}
                                ELSE sess[s].voids
             r == [sess[s] EXCEPT !.pc = "expire.book", !.locks = held,
                                  !.voids = voids]
  <2>1. i \in Invoice
    BY <1>0, <1>13 DEF ExpireVoid, AimedAt
  <2>2. r \in SessionState /\ r.pc = "expire.book"
    <3>1. held \in SUBSET Row
      BY <1>0, <2>1, RowIds DEF SessionState
    <3>2. voids \in SUBSET Invoice
      BY <1>0, <2>1 DEF SessionState
    <3>3. "expire.book" \in PC
      BY DEF PC
    <3> HIDE DEF held, voids
    <3> QED BY <1>0, <3>1, <3>2, <3>3 DEF SessionState
  <2>4. AimedAt(r)
    BY <2>2 DEF AimedAt
  <2>5. Become(s, r) /\ UNCHANGED rows
    BY <1>13 DEF ExpireVoid
  <2> QED BY <2>2, <2>4, <2>5, GoOnShape
<1>14. ASSUME ExpireCommit(s)
       PROVE  Shape'
  <2>1. RowsOK' /\ Staged' /\ Minted' /\ RowsStay
    BY <1>14 DEF ExpireCommit, VoidIssued, Shape, RowsOK, Staged, Minted,
                 RowsStay, QrStay, money, Recorded, BookingStatus
  <2> QED BY <1>14, <2>1, EndShape DEF ExpireCommit
<1>15. ASSUME ReschedulePrice(s)
       PROVE  Shape'
  <2> DEFINE i == sess[s].inv
             r == [sess[s] EXCEPT
            !.pc = "resch.qr", !.full = TRUE,
            !.locks = @ \cup {InvoiceRow(i)}]
  <2>1. i \in Invoice
    BY <1>0, <1>15 DEF ReschedulePrice, AimedAt
  <2>2. r \in SessionState
    BY <1>0, <2>1, RowIds DEF SessionState, PC
  <2>3. r.pc = "resch.qr" /\ r.inv = i
    BY <1>0 DEF SessionState
  <2>4. AimedAt(r)
    BY <2>1, <2>3 DEF AimedAt
  <2>5. Become(s, r) /\ UNCHANGED rows
    BY <1>15 DEF ReschedulePrice
  <2> QED BY <2>2, <2>4, <2>5, GoOnShape
<1>16. ASSUME NEW c \in Credential, RescheduleQr(s, c)
       PROVE  Shape'
  <2>1. sess[s].inv \in Invoice /\ sess[s].amt \in Nat
    BY <1>0, <1>16 DEF RescheduleQr, AimedAt, SessionState
  <2>2. qr' \in [Credential -> CredentialRow] /\ Minted' /\ QrStay
    <3> DEFINE old == Revoked(Active(sess[s].inv))
    <3>1. /\ old \in [Credential -> CredentialRow]
          /\ \A d \in Credential :
                qr[d].status # "none" =>
                    /\ old[d].status # "none"
                    /\ old[d].booking = qr[d].booking
          /\ \A d \in Credential : qr[d].status = "none" => old[d] = qr[d]
      BY DEF Revoked, Shape, RowsOK, CredentialRow
    <3>2. NewCredential(sess[s].inv) \in CredentialRow
      BY <2>1 DEF NewCredential, CredentialRow
    <3>3. qr' = [old EXCEPT ![c] = NewCredential(sess[s].inv)]
      BY <1>16 DEF RescheduleQr
    <3> HIDE DEF old
    <3>4. qr' \in [Credential -> CredentialRow]
      BY <3>1, <3>2, <3>3
    <3>5. Minted' /\ QrStay
      BY <2>1, <3>1, <3>3
         DEF Minted, QrStay, NewCredential, Shape, RowsOK, CredentialRow
    <3> QED BY <3>4, <3>5
  <2>3. RowsOK' /\ Staged' /\ RowsStay
    BY <1>16, <2>1, <2>2 DEF RescheduleQr, Shape, RowsOK, Staged, RowsStay,
                             Recorded
  <2> QED BY <1>16, <2>2, <2>3, EndShape DEF RescheduleQr
<1>17. ASSUME NEW c \in Credential, EnsureMint(s, c)
       PROVE  Shape'
  <2>1. sess[s].inv \in Invoice
    BY <1>0, <1>17 DEF EnsureMint, AimedAt
  <2>2. qr' \in [Credential -> CredentialRow] /\ Minted' /\ QrStay
    BY <1>17, <2>1 DEF QrStay, EnsureMint, MintQr, NewCredential, Shape, RowsOK,
                       Minted, CredentialRow
  <2>3. RowsOK' /\ Staged' /\ RowsStay
    BY <1>17, <2>2 DEF EnsureMint, Shape, RowsOK, Staged, RowsStay, money,
                       Recorded
  <2> QED BY <1>17, <2>2, <2>3, EndShape DEF EnsureMint
<1>18. ASSUME ScanBooking(s)
       PROVE  Shape'
  <2>0. sess[s].cred \in Credential /\ qr[sess[s].cred].status # "none"
    BY <1>0, <1>18 DEF ScanBooking, AimedAt
  <2>1. /\ qr' \in [Credential -> CredentialRow]
        /\ booking' \in [Invoice -> BookingStatus]
        /\ Minted' /\ QrStay
    <3>1. CASE UNCHANGED <<booking, qr>>
      BY <3>1 DEF Shape, RowsOK, Minted, QrStay
    <3>2. CASE CheckIn(s)
      <4>1. booking' \in [Invoice -> BookingStatus]
        BY <3>2 DEF CheckIn, Shape, RowsOK, BookingStatus
      <4>2. qr' \in [Credential -> CredentialRow] /\ Minted' /\ QrStay
        BY <2>0, <3>2 DEF QrStay, CheckIn, Shape, RowsOK, Minted, CredentialRow
      <4> QED BY <4>1, <4>2
    <3> QED BY <1>18, <3>1, <3>2 DEF ScanBooking
  <2>2. RowsOK' /\ Staged' /\ RowsStay
    BY <1>18, <2>1 DEF ScanBooking, Shape, RowsOK, Staged, RowsStay, money,
                       Recorded
  <2> QED BY <1>18, <2>1, <2>2, EndShape DEF ScanBooking
<1> QED BY <1>1, <1>2, <1>3, <1>4, <1>5, <1>6, <1>8, <1>9, <1>10, <1>11,
           <1>12, <1>13, <1>14, <1>15, <1>16, <1>17, <1>18
        DEF BookingBegin, BookingStep

\* So does every step that issues an invoice or lets a hold run out.
LEMMA IssuingShape ==
    ASSUME Shape, Issuing
    PROVE  Shape'
<1>1. ASSUME NEW i \in Invoice, NEW price \in Price, Issue(i, price)
      PROVE  /\ invoiceStatus' \in [Invoice -> {"none", "issued", "void"}]
             /\ total' \in [Invoice -> Nat]
    BY <1>1, PriceAssumption DEF Issue, Shape, RowsOK
<1>2. ASSUME NEW i \in Invoice, NEW c \in Credential, MintQr(i, c)
      PROVE  qr' \in [Credential -> CredentialRow] /\ Minted' /\ QrStay
    BY <1>2 DEF MintQr, NewCredential, Shape, RowsOK, Minted, QrStay,
                CredentialRow
<1>3. ASSUME NEW i \in Invoice, NEW p \in Payment, NEW amt \in Amount,
             NEW key \in Key \cup {None}, InsertPayment(p, i, amt, key)
      PROVE  /\ payments' \in [Payment -> PaymentRow]
             /\ allocated' \in [Invoice -> Nat]
             /\ \A q \in Recorded : payments'[q].invoice = payments[q].invoice
  <2>1. amt \in Nat
    BY AmountAssumption
  <2> QED BY <1>3, <2>1 DEF InsertPayment, Shape, RowsOK, PaymentRow, Recorded
<1>4. ASSUME NEW i \in Invoice, NEW price \in Price, NEW c \in Credential,
             CreateBookingUnpaid(i, price, c)
      PROVE  Shape'
  <2>1. /\ qr' \in [Credential -> CredentialRow] /\ Minted' /\ QrStay
        /\ invoiceStatus' \in [Invoice -> {"none", "issued", "void"}]
        /\ total' \in [Invoice -> Nat]
    BY <1>1, <1>2, <1>4 DEF CreateBookingUnpaid
  <2>2. RowsOK' /\ Staged' /\ RowsStay
    BY <1>4, <2>1 DEF CreateBookingUnpaid, Shape, RowsOK, Staged, RowsStay,
                      Recorded, BookingStatus
  <2> QED BY <1>4, <2>1, <2>2, RowsShape DEF CreateBookingUnpaid
<1>5. ASSUME NEW i \in Invoice, NEW price \in Price, NEW p \in Payment,
             NEW amt \in Amount, NEW c \in Credential,
             CreateBookingPaid(i, price, p, amt, c)
      PROVE  Shape'
  <2>1. /\ qr' \in [Credential -> CredentialRow] /\ Minted' /\ QrStay
        /\ invoiceStatus' \in [Invoice -> {"none", "issued", "void"}]
        /\ total' \in [Invoice -> Nat]
    BY <1>1, <1>2, <1>5 DEF CreateBookingPaid
  <2>2. /\ payments' \in [Payment -> PaymentRow]
        /\ allocated' \in [Invoice -> Nat]
        /\ \A q \in Recorded : payments'[q].invoice = payments[q].invoice
    BY <1>3, <1>5 DEF CreateBookingPaid
  <2>3. RowsOK' /\ Staged' /\ RowsStay
    BY <1>5, <2>1, <2>2 DEF CreateBookingPaid, Shape, RowsOK, Staged, RowsStay,
                            BookingStatus
  <2> QED BY <1>5, <2>1, <2>3, RowsShape DEF CreateBookingPaid
<1>6. ASSUME NEW i \in Invoice, NEW price \in Price, SellPlan(i, price)
      PROVE  Shape'
  <2>1. /\ invoiceStatus' \in [Invoice -> {"none", "issued", "void"}]
        /\ total' \in [Invoice -> Nat]
    BY <1>1, <1>6 DEF SellPlan
  <2>2. RowsOK' /\ Staged' /\ Minted' /\ RowsStay
    BY <1>6, <2>1 DEF SellPlan, Shape, RowsOK, Staged, Minted, RowsStay,
                      QrStay, Recorded
  <2> QED BY <1>6, <2>2, RowsShape DEF SellPlan
<1>7. ASSUME NEW i \in Invoice, NEW price \in Price,
             CreateShopSaleUnpaid(i, price)
      PROVE  Shape'
  <2>1. /\ invoiceStatus' \in [Invoice -> {"none", "issued", "void"}]
        /\ total' \in [Invoice -> Nat]
    BY <1>1, <1>7 DEF CreateShopSaleUnpaid
  <2>2. RowsOK' /\ Staged' /\ Minted' /\ RowsStay
    BY <1>7, <2>1 DEF CreateShopSaleUnpaid, Shape, RowsOK, Staged, Minted,
                      RowsStay, QrStay, Recorded
  <2> QED BY <1>7, <2>2, RowsShape DEF CreateShopSaleUnpaid
<1>8. ASSUME NEW i \in Invoice, NEW price \in Price, NEW p \in Payment,
             NEW amt \in Amount, NEW key \in Key \cup {None},
             CreateShopSale(i, price, p, amt, key)
      PROVE  Shape'
  <2>1. /\ invoiceStatus' \in [Invoice -> {"none", "issued", "void"}]
        /\ total' \in [Invoice -> Nat]
    BY <1>1, <1>8 DEF CreateShopSale
  <2>2. /\ payments' \in [Payment -> PaymentRow]
        /\ allocated' \in [Invoice -> Nat]
        /\ \A q \in Recorded : payments'[q].invoice = payments[q].invoice
    BY <1>3, <1>8 DEF CreateShopSale
  <2>3. RowsOK' /\ Staged' /\ Minted' /\ RowsStay
    BY <1>8, <2>1, <2>2 DEF CreateShopSale, Shape, RowsOK, Staged, Minted,
                            RowsStay, QrStay
  <2> QED BY <1>8, <2>3, RowsShape DEF CreateShopSale
<1>9. ASSUME NEW i \in Invoice, HoldExpires(i)
      PROVE  Shape'
  <2>1. RowsOK' /\ Staged' /\ Minted' /\ RowsStay
    BY <1>9 DEF HoldExpires, Shape, RowsOK, Staged, Minted, RowsStay, QrStay,
                Recorded, money
  <2> QED BY <1>9, <2>1, RowsShape DEF HoldExpires
<1>10. ASSUME NEW i \in Invoice, ActivateSubscription(i)
       PROVE  Shape'
  <2>1. RowsOK' /\ Staged' /\ Minted' /\ RowsStay
    BY <1>10 DEF ActivateSubscription, Shape, RowsOK, Staged, Minted, RowsStay,
                 QrStay, Recorded, money
  <2> QED BY <1>10, <2>1, RowsShape DEF ActivateSubscription
<1> QED BY <1>4, <1>5, <1>6, <1>7, <1>8, <1>9, <1>10 DEF Issuing

\* The shape is inductive.
LEMMA ShapeStep ==
    ASSUME Shape, [Next]_vars
    PROVE  Shape'
<1>1. ASSUME NEW i \in Invoice, NEW t \in Txn, NEW amt \in Amount,
             NEW key \in Key \cup {None}, StartCheckout(i, t, amt, key)
      PROVE  Shape'
  <2>1. amt \in Nat
    BY AmountAssumption
  <2>2. gateway' \in [Txn -> TxnRow] /\ Staged' /\ RowsStay
    BY <1>1, <2>1 DEF StartCheckout, Shape, RowsOK, TxnRow, Staged, RowsStay,
                      QrStay, Recorded
  <2>3. RowsOK' /\ Minted'
    BY <1>1, <2>2 DEF StartCheckout, Shape, RowsOK, Minted, money
  <2> QED BY <1>1, <2>2, <2>3, RowsShape DEF StartCheckout
<1>2. ASSUME NEW s \in Session, Rollback(s)
      PROVE  Shape'
    BY <1>2, GoOnShape, IdleShape DEF Rollback, End
<1>3. CASE UNCHANGED vars
  <2>1. RowsOK' /\ Staged' /\ Minted' /\ RowsStay
    BY <1>3 DEF vars, rows, money, Shape, RowsOK, Staged, Minted, RowsStay,
                QrStay, Recorded
  <2> QED BY <1>3, <2>1, RowsShape DEF vars
<1> QED BY <1>1, <1>2, <1>3, IssuingShape, PaymentShape, BookingShape
        DEF Next, Step, DeadlockVictim, Disconnect

\* The shape holds when nothing has happened yet.
LEMMA ShapeInit == Init => Shape
<1> SUFFICES ASSUME Init PROVE Shape
    OBVIOUS
<1>1. RowsOK
    BY DEF Init, RowsOK, BookingStatus, NoPayment, NoTxn, NoCredential,
           PaymentRow, TxnRow, CredentialRow
<1>2. Staged /\ Minted
    BY DEF Init, Staged, Minted, NoTxn, NoCredential
<1> QED BY <1>1, <1>2, IdleShape DEF Init, Shape, Idle, AimedAt

\* The shape of the rows and of the sessions holds in every reachable state.
LEMMA ShapeInvariant == Spec => []Shape
<1>1. Init => Shape
    BY ShapeInit
<1>2. Shape /\ [Next]_vars => Shape'
    BY ShapeStep
<1> QED BY <1>1, <1>2, PTL DEF Spec

\* Type correctness, for every set of rows, ids, prices and sessions.
THEOREM TypeCorrect == Spec => []TypeOK
<1>1. Shape => TypeOK
    BY DEF Shape, RowsOK, TypeOK
<1> QED BY <1>1, ShapeInvariant, PTL
=============================================================================
