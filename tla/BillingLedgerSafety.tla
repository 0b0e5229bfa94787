------------------------- MODULE BillingLedgerSafety -------------------------
(***************************************************************************)
(* Proofs of what the row locks buy: refunds never exceed their payment,   *)
(* nothing is collected beyond the price, a settled gateway transaction    *)
(* and an ended booking stay as they are.                                  *)
(*                                                                         *)
(* The argument has three parts.  Two sessions never hold the lock of the  *)
(* same row (Exclusive).  What a session found when it took a lock still   *)
(* holds when it writes (Promises).  Whatever a step writes is a row that  *)
(* no other session has locked, or one nobody else relies on (Frame).      *)
(***************************************************************************)
EXTENDS BillingLedgerProofs

-----------------------------------------------------------------------------
Exclusive ==
    \A s, t \in Session : s # t => sess[s].locks \cap sess[t].locks = {}

\* What a session in state r relies on, by what it is about to write.
RefundPromise(r) ==
    r.pc = "refund.post" =>
        /\ PayRow(r.pay) \in r.locks
        /\ r.pay \in Recorded
        /\ payments[r.pay].refunded + r.amt <= payments[r.pay].amount

GatewayPromise(r) ==
    r.pc \in {"gw.invoice", "gw.post"} =>
        /\ GatewayRow(r.txn) \in r.locks
        /\ gateway[r.txn].status = "pending"

Repricing == "reschedule_booking" \in Op

PayPromise(r) ==
    /\ r.pc = "pay.lock" =>
        /\ invoiceStatus[r.inv] # "none"
        /\ Repricing \/ r.price = total[r.inv]
    /\ r.pc \in {"pay.post", "gw.post"} =>
        /\ InvoiceRow(r.inv) \in r.locks
        /\ invoiceStatus[r.inv] # "none"
        /\ \/ Repricing
           \/ r.amt > 0 =>
                allocated[r.inv] + r.amt <= total[r.inv] + Reopened(r.inv)

BookingPromise(r) ==
    r.pc \in {"cancel.qr", "cancel.invoice", "resch.price", "resch.qr"} =>
        /\ BookingRow(r.inv) \in r.locks
        /\ booking[r.inv] \in {"pending_payment", "confirmed"}

ExpiryPromise(r) ==
    r.pc \in {"expire.book", "expire.void"} =>
        \A i \in r.cancels : /\ BookingRow(i) \in r.locks
                             /\ booking[i] = "pending_payment"

PricePromise(r) ==
    /\ r.pc \in {"resch.price", "resch.qr"} => Repricing
    /\ r.pc = "resch.qr" /\ r.full => InvoiceRow(r.inv) \in r.locks

Promise(r) ==
    /\ RefundPromise(r)
    /\ GatewayPromise(r)
    /\ PayPromise(r)
    /\ BookingPromise(r)
    /\ ExpiryPromise(r)
    /\ PricePromise(r)

Promises == \A s \in Session : Promise(sess[s])

\* An invoice that is not issued yet has no money and no booking, and every
\* payment is on an issued one.
Fresh ==
    \A i \in Invoice :
        invoiceStatus[i] = "none" =>
            /\ allocated[i] = 0
            /\ refunded[i] = 0
            /\ returned[i] = 0
            /\ booking[i] = "none"

PaidOnIssued ==
    \A p \in Recorded : invoiceStatus[payments[p].invoice] # "none"

RowsSafe == RefundsCovered /\ Fresh /\ PaidOnIssued

Safe == Shape /\ Exclusive /\ Promises /\ RowsSafe

\* What a step may do to the rows that sessions rely on: what it writes is in
\* free, the rows nobody else has locked.
PaymentFrame(free) ==
    \A p \in Recorded :
        \/ payments'[p] = payments[p]
        \/ PayRow(p) \in free

GatewayFrame(free) ==
    \A t \in Txn :
        \/ gateway'[t] = gateway[t]
        \/ gateway[t].status = "none"
        \/ gateway[t].status = "pending" /\ GatewayRow(t) \in free

InvoiceFrame(free) ==
    \A i \in Invoice :
        invoiceStatus[i] # "none" =>
            /\ invoiceStatus'[i] # "none"
            /\ Repricing \/ total'[i] = total[i]
            /\ \/ /\ allocated'[i] = allocated[i]
                  /\ total'[i] = total[i]
                  /\ Reopened(i) <= Reopened(i)'
               \/ InvoiceRow(i) \in free

BookingFrame(free) ==
    \A i \in Invoice :
        \/ booking'[i] = booking[i]
        \/ booking[i] = "none"
        \/ /\ booking[i] \in {"pending_payment", "confirmed", "checked_in"}
           /\ BookingRow(i) \in free

\* Only a rescheduling may leave more collected on an invoice than it asks.
MoneyFrame ==
    \A i \in Invoice :
        \/ /\ allocated'[i] = allocated[i]
           /\ total'[i] = total[i]
           /\ Reopened(i) <= Reopened(i)'
        \/ allocated'[i] <= total'[i] + Reopened(i)'
        \/ Repricing

Frame(free) ==
    /\ PaymentFrame(free)
    /\ GatewayFrame(free)
    /\ InvoiceFrame(free)
    /\ BookingFrame(free)
    /\ MoneyFrame

FreeRows(s) == {row \in Row : Free(s, row)}

-----------------------------------------------------------------------------
(* The three ways a step treats the sessions.                              *)

\* A row that a session has locked is free of all others.
LEMMA HeldIsFree ==
    ASSUME Safe, NEW s \in Session
    PROVE  sess[s].locks \subseteq FreeRows(s)
BY DEF Safe, Exclusive, Free, FreeRows, Shape, SessionState

\* What another session has locked is not free.
LEMMA OthersHold ==
    ASSUME NEW s \in Session, NEW t \in Session, t # s
    PROVE  sess[t].locks \cap FreeRows(s) = {}
BY DEF FreeRows, Free

\* A session keeps its promise while another one writes.
LEMMA PromiseKept ==
    ASSUME Safe, NEW free, Frame(free), NEW t \in Session,
           sess'[t] = sess[t], sess[t].locks \cap free = {}, Shape'
    PROVE  Promise(sess[t])'
<1> DEFINE r == sess[t]
<1>0. /\ r \in SessionState
      /\ AimedAt(r)
      /\ Promise(r)
      /\ r' = r
    BY DEF Safe, Shape, Promises
<1>1. ASSUME NEW row \in r.locks
      PROVE  row \notin free
    BY <1>1
<1>2. RefundPromise(r)'
  <2>1. SUFFICES ASSUME r.pc = "refund.post"
                 PROVE  RefundPromise(r)'
    BY <1>0 DEF RefundPromise
  <2>2. /\ PayRow(r.pay) \in r.locks
        /\ r.pay \in Recorded
        /\ payments[r.pay].refunded + r.amt <= payments[r.pay].amount
    BY <1>0, <2>1 DEF Promise, RefundPromise
  <2>3. payments'[r.pay] = payments[r.pay]
    BY <1>1, <2>2, RowIds DEF Frame, PaymentFrame, Recorded
  <2> QED BY <1>0, <2>2, <2>3 DEF RefundPromise, Recorded, PayRow
<1>3. GatewayPromise(r)'
  <2>1. SUFFICES ASSUME r.pc \in {"gw.invoice", "gw.post"}
                 PROVE  GatewayPromise(r)'
    BY <1>0 DEF GatewayPromise
  <2>2. /\ GatewayRow(r.txn) \in r.locks
        /\ r.txn \in Txn
        /\ gateway[r.txn].status = "pending"
    BY <1>0, <2>1 DEF Promise, GatewayPromise, AimedAt
  <2>3. gateway'[r.txn] = gateway[r.txn]
    BY <1>1, <2>2, RowIds DEF Frame, GatewayFrame
  <2> QED BY <1>0, <2>2, <2>3 DEF GatewayPromise, GatewayRow
<1>4. PayPromise(r)'
  <2>0. CASE r.pc = "pay.lock"
    <3>1. r.inv \in Invoice /\ invoiceStatus[r.inv] # "none"
      BY <1>0, <2>0 DEF Promise, PayPromise, AimedAt
    <3>2. /\ invoiceStatus'[r.inv] # "none"
          /\ Repricing \/ total'[r.inv] = total[r.inv]
      BY <3>1 DEF Frame, InvoiceFrame
    <3> QED BY <1>0, <2>0, <3>2 DEF Promise, PayPromise, Repricing
  <2>1. SUFFICES ASSUME r.pc \in {"pay.post", "gw.post"}
                 PROVE  PayPromise(r)'
    BY <1>0, <2>0 DEF PayPromise
  <2>2. /\ InvoiceRow(r.inv) \in r.locks
        /\ r.inv \in Invoice
        /\ invoiceStatus[r.inv] # "none"
        /\ \/ Repricing
           \/ r.amt > 0 =>
                allocated[r.inv] + r.amt <= total[r.inv] + Reopened(r.inv)
    BY <1>0, <2>1 DEF Promise, PayPromise, AimedAt
  <2>3. /\ invoiceStatus'[r.inv] # "none"
        /\ allocated'[r.inv] = allocated[r.inv]
        /\ total'[r.inv] = total[r.inv]
        /\ Reopened(r.inv) <= Reopened(r.inv)'
    BY <1>0, <1>1, <2>2, RowIds DEF Frame, InvoiceFrame, Reopened
  <2>4. /\ total[r.inv] \in Nat
        /\ Reopened(r.inv) \in Int
        /\ Reopened(r.inv)' \in Int
        /\ allocated[r.inv] \in Nat
        /\ r.amt \in Nat
    BY <1>0, <2>2 DEF Shape, RowsOK, SessionState, Reopened, Safe
  <2>5. \/ Repricing
        \/ r.amt > 0 =>
            allocated'[r.inv] + r.amt <= total'[r.inv] + Reopened(r.inv)'
    BY <2>2, <2>3, <2>4
  <2> QED BY <1>0, <2>1, <2>2, <2>3, <2>5
          DEF PayPromise, InvoiceRow, Repricing
<1>5. BookingPromise(r)'
  <2>1. SUFFICES ASSUME r.pc \in {"cancel.qr", "cancel.invoice",
                                  "resch.price", "resch.qr"}
                 PROVE  BookingPromise(r)'
    BY <1>0 DEF BookingPromise
  <2>2. /\ BookingRow(r.inv) \in r.locks
        /\ r.inv \in Invoice
        /\ booking[r.inv] \in {"pending_payment", "confirmed"}
    BY <1>0, <2>1 DEF Promise, BookingPromise, AimedAt
  <2>3. booking'[r.inv] = booking[r.inv]
    BY <1>1, <2>2, RowIds DEF Frame, BookingFrame
  <2> QED BY <1>0, <2>2, <2>3 DEF BookingPromise, BookingRow
<1>6. ExpiryPromise(r)'
  <2>1. SUFFICES ASSUME r.pc \in {"expire.book", "expire.void"},
                        NEW i \in r.cancels
                 PROVE  BookingRow(i) \in r.locks
                        /\ booking'[i] = "pending_payment"
    BY <1>0 DEF ExpiryPromise, BookingRow
  <2>2. /\ BookingRow(i) \in r.locks
        /\ i \in Invoice
        /\ booking[i] = "pending_payment"
    BY <1>0, <2>1 DEF Promise, ExpiryPromise, SessionState
  <2> QED BY <1>1, <2>2, RowIds DEF Frame, BookingFrame
<1>7. PricePromise(r)'
    BY <1>0 DEF Promise, PricePromise, InvoiceRow
<1> QED BY <1>2, <1>3, <1>4, <1>5, <1>6, <1>7 DEF Promise

\* An idle session relies on nothing.
LEMMA IdlePromise == Promise(Idle)
BY DEF Idle, Promise, RefundPromise, GatewayPromise, PayPromise,
       BookingPromise, ExpiryPromise, PricePromise

\* A settled transaction and an ended booking stay as they are, and nothing
\* is collected beyond what is asked.
Kept ==
    /\ \A t \in Txn : gateway[t].status \in {"succeeded", "failed"}
            => gateway'[t] = gateway[t]
    /\ \A i \in Invoice : booking[i] \in {"cancelled", "no_show", "completed"}
            => booking'[i] = booking[i]
    /\ ~Repricing /\ NoOverCollection => NoOverCollection'

\* What the frame allows does what Kept says.
LEMMA FrameKeeps ==
    ASSUME Safe, Shape', NEW free, Frame(free)
    PROVE  Kept
<1>1. \A t \in Txn : gateway[t].status \in {"succeeded", "failed"}
            => gateway'[t] = gateway[t]
    BY DEF Frame, GatewayFrame
<1>2. \A i \in Invoice : booking[i] \in {"cancelled", "no_show", "completed"}
            => booking'[i] = booking[i]
    BY DEF Frame, BookingFrame
<1>3. ASSUME ~Repricing, NoOverCollection
      PROVE  NoOverCollection'
  <2> SUFFICES ASSUME NEW i \in Invoice
               PROVE  allocated'[i] <= total'[i] + Reopened(i)'
    BY DEF NoOverCollection
  <2>1. /\ total[i] \in Nat
        /\ Reopened(i) \in Int
        /\ Reopened(i)' \in Int
        /\ allocated[i] <= total[i] + Reopened(i)
        /\ allocated[i] \in Nat
    BY <1>3 DEF NoOverCollection, Safe, Shape, RowsOK, Reopened
  <2> QED BY <1>3, <2>1 DEF Frame, MoneyFrame
<1> QED BY <1>1, <1>2, <1>3 DEF Kept

\* A session goes on and writes nothing: what it newly relies on holds, and
\* the rows it has locked were free.
LEMMA GoOnSafe ==
    ASSUME Safe, Shape', UNCHANGED rows, NEW s \in Session,
           NEW r \in SessionState, Become(s, r), Promise(r),
           r.locks \subseteq FreeRows(s)
    PROVE  Safe' /\ Kept
<1>0. sess'[s] = r /\ \A t \in Session \ {s} : sess'[t] = sess[t]
    BY DEF Become, Safe, Shape
<1>1. Exclusive'
  <2> SUFFICES ASSUME NEW t \in Session, NEW u \in Session, t # u
               PROVE  (sess[t].locks \cap sess[u].locks = {})'
    BY DEF Exclusive
  <2>1. CASE t = s
    BY <1>0, <2>1, OthersHold
  <2>2. CASE u = s
    BY <1>0, <2>2, OthersHold
  <2>3. CASE t # s /\ u # s
    BY <1>0, <2>3 DEF Safe, Exclusive
  <2> QED BY <2>1, <2>2, <2>3
<1>2. Frame({})
    BY DEF rows, money, Frame, PaymentFrame, GatewayFrame, InvoiceFrame,
           MoneyFrame,
           BookingFrame, Reopened, Safe, Shape, RowsOK
<1>3. ASSUME NEW t \in Session PROVE Promise(sess[t])'
  <2>1. CASE t = s
    <3>1. Promise(r)'
      BY DEF Promise, RefundPromise, GatewayPromise, PayPromise,
             BookingPromise, ExpiryPromise, PricePromise, rows, money,
             Recorded, Reopened
    <3> QED BY <1>0, <2>1, <3>1
  <2>2. CASE t # s
    BY <1>0, <1>2, <2>2, PromiseKept
  <2> QED BY <2>1, <2>2
<1>4. RowsSafe'
    BY DEF Safe, RowsSafe, RefundsCovered, Fresh, PaidOnIssued, rows, money,
           Recorded
<1> QED BY <1>1, <1>2, <1>3, <1>4, FrameKeeps DEF Safe, Promises

\* A session writes and ends.
LEMMA EndSafe ==
    ASSUME Safe, Shape', RowsSafe', NEW s \in Session, End(s),
           Frame(FreeRows(s))
    PROVE  Safe' /\ Kept
<1>0. sess'[s] = Idle /\ \A t \in Session \ {s} : sess'[t] = sess[t]
    BY DEF End, Become, Safe, Shape
<1>1. Exclusive'
  <2> SUFFICES ASSUME NEW t \in Session, NEW u \in Session, t # u
               PROVE  (sess[t].locks \cap sess[u].locks = {})'
    BY DEF Exclusive
  <2>1. CASE t = s \/ u = s
    BY <1>0, <2>1 DEF Idle
  <2>2. CASE t # s /\ u # s
    BY <1>0, <2>2 DEF Safe, Exclusive
  <2> QED BY <2>1, <2>2
<1>2. ASSUME NEW t \in Session PROVE Promise(sess[t])'
  <2>1. CASE t = s
    <3>1. Promise(Idle)'
      BY DEF Idle, Promise, RefundPromise, GatewayPromise, PayPromise,
             BookingPromise, ExpiryPromise, PricePromise
    <3> QED BY <1>0, <2>1, <3>1
  <2>2. CASE t # s
    BY <1>0, <2>2, OthersHold, PromiseKept
  <2> QED BY <2>1, <2>2
<1> QED BY <1>1, <1>2, FrameKeeps DEF Safe, Promises

\* Rows are written in one step, outside of any session.
LEMMA WriteSafe ==
    ASSUME Safe, Shape', RowsSafe', UNCHANGED sess, NEW free, Frame(free),
           \A t \in Session : IsIdle(t) \/ sess[t].locks \cap free = {}
    PROVE  Safe' /\ Kept
<1>1. Exclusive'
    BY DEF Safe, Exclusive
<1>2. ASSUME NEW t \in Session PROVE Promise(sess[t])'
  <2>1. CASE IsIdle(t)
    BY <2>1 DEF IsIdle, Promise, RefundPromise, GatewayPromise, PayPromise,
                BookingPromise, ExpiryPromise, PricePromise
  <2>2. CASE sess[t].locks \cap free = {}
    BY <2>2, PromiseKept
  <2> QED BY <2>1, <2>2
<1> QED BY <1>1, <1>2, FrameKeeps DEF Safe, Promises

-----------------------------------------------------------------------------
(* The payment RPCs.                                                       *)

\* What a lemma about session s may use of its state.
LEMMA OfSession ==
    ASSUME Safe, NEW s \in Session
    PROVE  /\ sess[s] \in SessionState
           /\ AimedAt(sess[s])
           /\ Promise(sess[s])
           /\ sess[s].locks \subseteq FreeRows(s)
BY HeldIsFree DEF Safe, Shape, Promises

\* A refund starts with the payment locked and its balance large enough.
LEMMA RefundLockSafe ==
    ASSUME Safe, NEW s \in Session, NEW p \in Payment, NEW amt \in Amount,
           NEW key \in Key \cup Txn \cup {None}, NEW ret \in BOOLEAN,
           NEW held \in SUBSET Row, held \subseteq FreeRows(s),
           RefundLock(s, p, amt, key, ret, held), Shape'
    PROVE  Safe' /\ Kept
<1> DEFINE r == [Idle EXCEPT
            !.pc = "refund.post", !.pay = p, !.inv = payments[p].invoice,
            !.amt = amt, !.key = key, !.ret = ret,
            !.locks = held \cup {PayRow(p)}]
<1>1. payments[p].invoice \in Invoice
    BY DEF RefundLock, Recorded, Safe, Shape, RowsOK, PaymentRow
<1>2. r \in SessionState
    BY <1>1, RowIds, AmountAssumption DEF SessionState, Idle, PC
<1>3. /\ r.pc = "refund.post"
      /\ r.pay = p
      /\ r.amt = amt
      /\ r.locks = held \cup {PayRow(p)}
    BY DEF Idle
<1>4. Promise(r)
  <2>1. payments[p].refunded \in Nat /\ payments[p].amount \in Nat
    BY DEF Safe, Shape, RowsOK, PaymentRow
  <2>2. payments[p].refunded + amt <= payments[p].amount
    BY <2>1, AmountAssumption DEF RefundLock
  <2>3. p \in Recorded
    BY DEF RefundLock
  <2> HIDE DEF r
  <2> QED BY <1>3, <2>2, <2>3
          DEF Promise, RefundPromise, GatewayPromise, PayPromise,
              BookingPromise, ExpiryPromise, PricePromise
<1>5. r.locks \subseteq FreeRows(s)
    BY <1>3, RowIds DEF RefundLock, FreeRows
<1>6. Become(s, r) /\ UNCHANGED rows
    BY DEF RefundLock
<1> QED BY <1>2, <1>4, <1>5, <1>6, GoOnSafe

\* Inserting a payment on an issued invoice.
LEMMA InsertSafe ==
    ASSUME Safe, Shape', NEW p \in Payment, NEW i \in Invoice, NEW amt \in Nat,
           NEW key, InsertPayment(p, i, amt, key),
           UNCHANGED <<refunded, returned>>,
           \A j \in Invoice :
                /\ invoiceStatus[j] # "none" => invoiceStatus'[j] # "none"
                /\ invoiceStatus'[j] = "none" => booking'[j] = "none",
           invoiceStatus'[i] # "none"
    PROVE  RowsSafe' /\ \A free : PaymentFrame(free)
<1>1. payments' = [payments EXCEPT ![p] =
            [invoice |-> i, amount |-> amt, refunded |-> 0, key |-> key,
             refundKeys |-> {}]]
    BY DEF InsertPayment
<1>2. RefundsCovered'
    BY <1>1 DEF Safe, RowsSafe, RefundsCovered, Shape, RowsOK
<1>3. \A q \in Recorded : payments'[q] = payments[q]
    BY <1>1 DEF InsertPayment, Recorded
<1>4. \A q \in Recorded' : payments'[q].invoice = i \/ q \in Recorded
    BY <1>1 DEF Recorded, Safe, Shape, RowsOK
<1>5. PaidOnIssued'
  <2> SUFFICES ASSUME NEW q \in Payment, q \in Recorded'
               PROVE  invoiceStatus'[payments'[q].invoice] # "none"
    BY DEF PaidOnIssued, Recorded
  <2>1. CASE q \in Recorded
    <3>1. payments[q].invoice \in Invoice
      BY <2>1 DEF Recorded, Safe, Shape, RowsOK, PaymentRow
    <3> QED BY <1>3, <2>1, <3>1 DEF Safe, RowsSafe, PaidOnIssued
  <2>2. CASE payments'[q].invoice = i
    BY <2>2
  <2> QED BY <1>4, <2>1, <2>2
<1>6. Fresh'
  <2> SUFFICES ASSUME NEW j \in Invoice, invoiceStatus'[j] = "none"
               PROVE  /\ allocated'[j] = 0
                      /\ refunded'[j] = 0
                      /\ returned'[j] = 0
                      /\ booking'[j] = "none"
    BY DEF Fresh
  <2>1. j # i /\ invoiceStatus[j] = "none"
    OBVIOUS
  <2> QED BY <2>1 DEF InsertPayment, Safe, RowsSafe, Fresh, Shape, RowsOK
<1> QED BY <1>2, <1>3, <1>5, <1>6 DEF RowsSafe, PaymentFrame

\* The rows are safe when no money moves and what is not issued stays so.
LEMMA PaymentsAsTheyAre ==
    ASSUME Safe, UNCHANGED <<allocated, refunded, returned, payments>>,
           \A i \in Invoice :
                /\ invoiceStatus[i] = "none" <=> invoiceStatus'[i] = "none"
                /\ invoiceStatus[i] = "none" => booking'[i] = booking[i]
    PROVE  RowsSafe' /\ \A free : PaymentFrame(free)
<1>1. PaidOnIssued'
  <2>1. \A p \in Recorded : payments[p].invoice \in Invoice
    BY DEF Recorded, Safe, Shape, RowsOK, PaymentRow
  <2> QED BY <2>1 DEF Safe, RowsSafe, PaidOnIssued, Recorded
<1>2. RefundsCovered' /\ Fresh'
    BY DEF Safe, RowsSafe, RefundsCovered, Fresh
<1> QED BY <1>1, <1>2 DEF RowsSafe, PaymentFrame

\* Voiding makes no invoice unissued, and issues none.
LEMMA VoidKeepsIssued ==
    ASSUME NEW is, VoidIssued(is)
    PROVE  \A i \in Invoice :
                invoiceStatus[i] = "none" <=> invoiceStatus'[i] = "none"
BY DEF VoidIssued

\* An amount that is at most what is owed fits the price.
LEMMA OwedFits ==
    ASSUME Safe, NEW i \in Invoice, NEW amt \in Nat, amt > 0,
           amt <= Owed(i) \/ amt <= Outstanding(i)
    PROVE  allocated[i] + amt <= total[i] + Reopened(i)
<1>1. /\ allocated[i] \in Nat
      /\ total[i] \in Nat
      /\ refunded[i] \in Nat
      /\ returned[i] \in Nat
    BY DEF Safe, Shape, RowsOK
<1>2. amt <= Owed(i)
    BY <1>1 DEF Outstanding, Owed, OwedAt, Reopened
<1> QED BY <1>1, <1>2 DEF Owed, OwedAt, Reopened

\* Every step of a payment RPC keeps the invariant.
LEMMA PaymentSafe ==
    ASSUME Safe, NEW s \in Session, PaymentBegin(s) \/ PaymentStep(s)
    PROVE  Safe' /\ Kept
<1>a. Shape'
    BY PaymentShape DEF Safe
<1>b. /\ sess[s] \in SessionState
      /\ AimedAt(sess[s])
      /\ Promise(sess[s])
      /\ sess[s].locks \subseteq FreeRows(s)
    BY OfSession
<1>1. ASSUME NEW i \in Invoice, NEW amt \in Amount, NEW key \in Key \cup {None},
             PayBegin(s, i, amt, key)
      PROVE  Safe' /\ Kept
  <2> DEFINE r == [Idle EXCEPT !.pc = "pay.lock", !.inv = i, !.amt = amt,
                               !.key = key, !.price = total[i]]
  <2>0. total[i] \in Nat
    BY DEF Safe, Shape, RowsOK
  <2>1. r \in SessionState
    BY <2>0, AmountAssumption DEF SessionState, Idle, PC
  <2>2. Promise(r) /\ r.locks \subseteq FreeRows(s)
    BY <1>1 DEF PayBegin, Idle, Promise, RefundPromise, GatewayPromise,
                PayPromise, BookingPromise, ExpiryPromise, PricePromise
  <2>3. Become(s, r) /\ UNCHANGED rows
    BY <1>1 DEF PayBegin
  <2> QED BY <1>a, <2>1, <2>2, <2>3, GoOnSafe
<1>2. ASSUME NEW t \in Txn, MarkFailed(s, t) \/ GatewayMismatch(s, t)
      PROVE  Safe' /\ Kept
  <2>1. Frame(FreeRows(s)) /\ RowsSafe'
    <3>1. GatewayFrame(FreeRows(s))
      BY <1>2, RowIds DEF MarkFailed, GatewayMismatch, FailTxn, GatewayFrame,
                          FreeRows, Safe, Shape, RowsOK, TxnRow
    <3>2. InvoiceFrame(FreeRows(s)) /\ MoneyFrame /\ BookingFrame(FreeRows(s))
      BY <1>2 DEF MarkFailed, GatewayMismatch, money, InvoiceFrame, MoneyFrame,
                  BookingFrame, Reopened, Safe, Shape, RowsOK
    <3>3. RowsSafe' /\ PaymentFrame(FreeRows(s))
      BY <1>2, PaymentsAsTheyAre DEF MarkFailed, GatewayMismatch, money
    <3> QED BY <3>1, <3>2, <3>3 DEF Frame
  <2>2. \A o \in Session : IsIdle(o) \/ sess[o].locks \cap FreeRows(s) = {}
    BY <1>2, OthersHold DEF MarkFailed, GatewayMismatch
  <2>3. UNCHANGED sess
    BY <1>2 DEF MarkFailed, GatewayMismatch
  <2> QED BY <1>a, <2>1, <2>2, <2>3, WriteSafe
<1>3. ASSUME NEW t \in Txn, GatewayLock(s, t)
      PROVE  Safe' /\ Kept
  <2> DEFINE r == [Idle EXCEPT
            !.pc = "gw.invoice", !.txn = t, !.inv = gateway[t].invoice,
            !.amt = gateway[t].amount, !.key = GatewayIdempotencyKey(t),
            !.locks = {GatewayRow(t)}]
  <2>1. /\ gateway[t].invoice \in Invoice
        /\ gateway[t].amount \in Nat
        /\ GatewayIdempotencyKey(t) \in Key \cup Txn
    BY <1>3 DEF GatewayLock, GatewayIdempotencyKey, Safe, Shape, RowsOK,
                Staged, TxnRow
  <2>2. r \in SessionState
    BY <2>1, RowIds DEF SessionState, Idle, PC
  <2>3. r.pc = "gw.invoice" /\ r.txn = t /\ r.locks = {GatewayRow(t)}
    BY DEF Idle
  <2>4. Promise(r) /\ r.locks \subseteq FreeRows(s)
    <3> HIDE DEF r
    <3> QED BY <1>3, <2>3, RowIds
            DEF GatewayLock, FreeRows, Promise, RefundPromise, GatewayPromise,
                PayPromise, BookingPromise, ExpiryPromise, PricePromise
  <2>5. Become(s, r) /\ UNCHANGED rows
    BY <1>3 DEF GatewayLock
  <2> QED BY <1>a, <2>2, <2>4, <2>5, GoOnSafe
<1>4. ASSUME NEW p \in Payment, NEW amt \in Amount, NEW key \in Key \cup {None},
             CreateRefund(s, p, amt, key)
      PROVE  Safe' /\ Kept
  <2>1. /\ key \in Key \cup Txn \cup {None}
        /\ FALSE \in BOOLEAN
        /\ {} \in SUBSET Row
        /\ {} \subseteq FreeRows(s)
    OBVIOUS
  <2>2. RefundLock(s, p, amt, key, FALSE, {})
    BY <1>4 DEF CreateRefund
  <2> QED BY <1>a, <2>1, <2>2, RefundLockSafe
<1>5. ASSUME NEW p \in Payment, NEW t \in Txn, NEW amt \in Amount,
             NEW key \in Key \cup {None},
             CreateGatewayRefund(s, p, t, amt, key)
      PROVE  Safe' /\ Kept
  <2> DEFINE k == IF key = None THEN t ELSE key
  <2>1. /\ k \in Key \cup Txn \cup {None}
        /\ FALSE \in BOOLEAN
        /\ {} \in SUBSET Row
        /\ {} \subseteq FreeRows(s)
    OBVIOUS
  <2>2. RefundLock(s, p, amt, k, FALSE, {})
    BY <1>5 DEF CreateGatewayRefund
  <2> HIDE DEF k
  <2> QED BY <1>a, <2>1, <2>2, RefundLockSafe
<1>6. ASSUME NEW p \in Payment, NEW amt \in Amount, ReturnShopSale(s, p, amt)
      PROVE  Safe' /\ Kept
  <2> DEFINE held == {SaleRow(payments[p].invoice)}
  <2>1. payments[p].invoice \in Invoice
    BY <1>6 DEF ReturnShopSale, Recorded, Safe, Shape, RowsOK, PaymentRow
  <2>2. /\ held \in SUBSET Row
        /\ held \subseteq FreeRows(s)
        /\ None \in Key \cup Txn \cup {None}
        /\ TRUE \in BOOLEAN
    BY <1>6, <2>1, RowIds DEF ReturnShopSale, FreeRows
  <2>3. RefundLock(s, p, amt, None, TRUE, held)
    BY <1>6 DEF ReturnShopSale
  <2> HIDE DEF held
  <2> QED BY <1>a, <2>2, <2>3, RefundLockSafe
<1>7. ASSUME PayLock(s)
      PROVE  Safe' /\ Kept
  <2> DEFINE i == sess[s].inv
             r == [sess[s] EXCEPT
            !.pc = "pay.post", !.full = PayBalance(s) <= sess[s].amt,
            !.locks = @ \cup {InvoiceRow(i)}]
  <2>1. i \in Invoice /\ sess[s].amt \in Nat
    BY <1>b, <1>7 DEF PayLock, AimedAt, SessionState
  <2>2. (PayBalance(s) <= sess[s].amt) \in BOOLEAN
    OBVIOUS
  <2>3. /\ r \in SessionState
        /\ r.pc = "pay.post"
        /\ r.inv = i
        /\ r.amt = sess[s].amt
        /\ r.locks = sess[s].locks \cup {InvoiceRow(i)}
    BY <1>b, <2>1, <2>2, RowIds DEF SessionState, PC
  <2>4. r.locks \subseteq FreeRows(s)
    BY <1>7, <1>b, <2>1, <2>3, RowIds DEF PayLock, FreeRows
  <2>5. invoiceStatus[i] # "none" /\ (Repricing \/ sess[s].amt <= Owed(i))
    <3>1. sess[s].price \in Nat /\ (Repricing \/ sess[s].price = total[i])
      BY <1>7, <1>b DEF PayLock, Promise, PayPromise, SessionState
    <3>2. PayBalance(s) \in Int
      BY <2>1, <3>1 DEF PayBalance, OwedAt, Reopened, Safe, Shape, RowsOK
    <3>3. invoiceStatus[i] # "none" /\ sess[s].amt <= PayBalance(s)
      BY <1>7, <2>1, <3>2 DEF PayLock, PayRefused
    <3> QED BY <3>1, <3>3 DEF PayBalance, Owed
  <2>6. \/ Repricing
        \/ sess[s].amt > 0 =>
            allocated[i] + sess[s].amt <= total[i] + Reopened(i)
    BY <2>1, <2>5, OwedFits
  <2>7. Promise(r)
    <3> HIDE DEF r
    <3> QED BY <2>3, <2>5, <2>6
            DEF Promise, RefundPromise, GatewayPromise, PayPromise,
                BookingPromise, ExpiryPromise, PricePromise
  <2>8. Become(s, r) /\ UNCHANGED rows
    BY <1>7 DEF PayLock
  <2> QED BY <1>a, <2>3, <2>4, <2>7, <2>8, GoOnSafe
<1>8. ASSUME PayRefuse(s) \/ PayDuplicate(s)
      PROVE  Safe' /\ Kept
  <2>1. Idle.locks = {}
    BY DEF Idle
  <2> QED BY <1>a, <1>8, <2>1, IdleShape, IdlePromise, GoOnSafe
          DEF PayRefuse, PayDuplicate, End
<1>9. ASSUME GatewayLockInvoice(s)
      PROVE  Safe' /\ Kept
  <2> DEFINE i == sess[s].inv
             r == [sess[s] EXCEPT
            !.pc = "gw.post", !.full = Outstanding(i) <= sess[s].amt,
            !.locks = @ \cup {InvoiceRow(i)}]
  <2>1. i \in Invoice /\ sess[s].amt \in Nat
    BY <1>b, <1>9 DEF GatewayLockInvoice, AimedAt, SessionState
  <2>2. (Outstanding(i) <= sess[s].amt) \in BOOLEAN
    OBVIOUS
  <2>3. /\ r \in SessionState
        /\ r.pc = "gw.post"
        /\ r.inv = i
        /\ r.txn = sess[s].txn
        /\ r.amt = sess[s].amt
        /\ r.locks = sess[s].locks \cup {InvoiceRow(i)}
    BY <1>b, <2>1, <2>2, RowIds DEF SessionState, PC
  <2>4. r.locks \subseteq FreeRows(s)
    BY <1>9, <1>b, <2>1, <2>3, RowIds DEF GatewayLockInvoice, FreeRows
  <2>5. invoiceStatus[i] # "none" /\ sess[s].amt <= Outstanding(i)
    <3>1. Outstanding(i) \in Int
      BY <2>1 DEF Outstanding, Owed, OwedAt, Reopened, Safe, Shape, RowsOK
    <3> QED BY <1>9, <2>1, <3>1 DEF GatewayLockInvoice, GatewayRefused
  <2>6. sess[s].amt > 0 =>
            allocated[i] + sess[s].amt <= total[i] + Reopened(i)
    BY <2>1, <2>5, OwedFits
  <2>7. /\ GatewayRow(sess[s].txn) \in sess[s].locks
        /\ gateway[sess[s].txn].status = "pending"
    BY <1>9, <1>b DEF GatewayLockInvoice, Promise, GatewayPromise
  <2>8. Promise(r)
    <3> HIDE DEF r
    <3> QED BY <2>3, <2>5, <2>6, <2>7
            DEF Promise, RefundPromise, GatewayPromise, PayPromise,
                BookingPromise, ExpiryPromise, PricePromise
  <2>9. Become(s, r) /\ UNCHANGED rows
    BY <1>9 DEF GatewayLockInvoice
  <2> QED BY <1>a, <2>3, <2>4, <2>8, <2>9, GoOnSafe
<1>10. ASSUME GatewayReject(s)
       PROVE  Safe' /\ Kept
  <2>1. /\ sess[s].txn \in Txn
        /\ GatewayRow(sess[s].txn) \in FreeRows(s)
        /\ gateway[sess[s].txn].status = "pending"
    BY <1>10, <1>b DEF GatewayReject, AimedAt, Promise, GatewayPromise
  <2>2. GatewayFrame(FreeRows(s))
    BY <1>10, <2>1 DEF GatewayReject, FailTxn, GatewayFrame, Safe, Shape,
                       RowsOK
  <2>3. InvoiceFrame(FreeRows(s)) /\ MoneyFrame /\ BookingFrame(FreeRows(s))
    BY <1>10 DEF GatewayReject, money, InvoiceFrame, MoneyFrame, BookingFrame,
                 Reopened,
                 Safe, Shape, RowsOK
  <2>4. RowsSafe' /\ PaymentFrame(FreeRows(s))
    BY <1>10, PaymentsAsTheyAre DEF GatewayReject, money
  <2>5. Frame(FreeRows(s)) /\ End(s)
    BY <1>10, <2>2, <2>3, <2>4 DEF Frame, GatewayReject
  <2> QED BY <1>a, <2>4, <2>5, EndSafe
<1>11. ASSUME NEW p \in Payment, GatewayLink(s, p)
       PROVE  Safe' /\ Kept
  <2>1. /\ sess[s].txn \in Txn
        /\ GatewayRow(sess[s].txn) \in FreeRows(s)
        /\ gateway[sess[s].txn].status = "pending"
    BY <1>11, <1>b DEF GatewayLink, AimedAt, Promise, GatewayPromise
  <2>2. GatewayFrame(FreeRows(s))
    BY <1>11, <2>1 DEF GatewayLink, Succeed, GatewayFrame, Safe, Shape, RowsOK
  <2>3. InvoiceFrame(FreeRows(s)) /\ MoneyFrame /\ BookingFrame(FreeRows(s))
    BY <1>11 DEF GatewayLink, money, InvoiceFrame, MoneyFrame, BookingFrame,
                 Reopened,
                 Safe, Shape, RowsOK
  <2>4. RowsSafe' /\ PaymentFrame(FreeRows(s))
    BY <1>11, PaymentsAsTheyAre DEF GatewayLink, money
  <2>5. Frame(FreeRows(s)) /\ End(s)
    BY <1>11, <2>2, <2>3, <2>4 DEF Frame, GatewayLink
  <2> QED BY <1>a, <2>4, <2>5, EndSafe
<1>12. ASSUME NEW p \in Payment, PayPost(s, p) \/ GatewayPost(s, p)
       PROVE  Safe' /\ Kept
  <2> DEFINE i == sess[s].inv
  <2>1. /\ i \in Invoice
        /\ sess[s].amt \in Nat
        /\ InvoiceRow(i) \in FreeRows(s)
        /\ invoiceStatus[i] # "none"
    BY <1>12, <1>b DEF PayPost, GatewayPost, AimedAt, SessionState, Promise,
                       PayPromise
  <2>2. /\ InsertPayment(p, i, sess[s].amt, sess[s].key)
        /\ ConfirmBooking(s, i)
        /\ End(s)
        /\ UNCHANGED <<invoiceStatus, total, refunded, returned>>
    BY <1>12 DEF PayPost, GatewayPost
  <2>3. BookingFrame(FreeRows(s))
    BY <2>1, <2>2, RowIds DEF ConfirmBooking, Confirms, BookingFrame,
                              FreeRows, Safe, Shape, RowsOK
  <2>4. \A j \in Invoice :
            /\ invoiceStatus[j] # "none" => invoiceStatus'[j] # "none"
            /\ invoiceStatus'[j] = "none" => booking'[j] = "none"
    BY <2>1, <2>2 DEF ConfirmBooking, Confirms, Safe, RowsSafe, Fresh, Shape,
                      RowsOK
  <2>5. RowsSafe' /\ PaymentFrame(FreeRows(s))
    <3>1. UNCHANGED <<refunded, returned>> /\ invoiceStatus'[i] # "none"
      BY <2>1, <2>2
    <3> HIDE DEF i
    <3> QED BY <1>a, <2>1, <2>2, <2>4, <3>1, InsertSafe
  <2>6. InvoiceFrame(FreeRows(s)) /\ MoneyFrame
    <3>1. \A j \in Invoice \ {i} : /\ allocated'[j] = allocated[j]
                                   /\ total'[j] = total[j]
      BY <2>2 DEF InsertPayment, Safe, Shape, RowsOK
    <3>2. \A j \in Invoice : Reopened(j) <= Reopened(j)'
      BY <2>2 DEF Reopened, Safe, Shape, RowsOK
    <3>3. ASSUME NEW j \in Invoice, j = i
          PROVE  \/ allocated'[j] = allocated[j] /\ total'[j] = total[j]
                 \/ allocated'[j] <= total'[j] + Reopened(j)'
                 \/ Repricing
      <4>1. total'[j] = total[j] /\ Reopened(j)' = Reopened(j)
        BY <2>2 DEF Reopened
      <4>2. /\ allocated[j] \in Nat
            /\ allocated'[j] = allocated[j] + sess[s].amt
        BY <2>1, <2>2, <3>3 DEF InsertPayment, Safe, Shape, RowsOK
      <4>3. \/ Repricing
            \/ sess[s].amt > 0 =>
                allocated[j] + sess[s].amt <= total[j] + Reopened(j)
        BY <1>12, <1>b, <3>3 DEF PayPost, GatewayPost, Promise, PayPromise
      <4> HIDE DEF i
      <4> QED BY <2>1, <4>1, <4>2, <4>3
    <3> HIDE DEF i
    <3>4. InvoiceFrame(FreeRows(s))
      BY <2>1, <2>2, <3>1, <3>2 DEF InvoiceFrame
    <3>5. MoneyFrame
      BY <3>1, <3>2, <3>3 DEF MoneyFrame
    <3> QED BY <3>4, <3>5
  <2>7. GatewayFrame(FreeRows(s))
    <3>1. CASE PayPost(s, p)
      BY <3>1 DEF PayPost, GatewayFrame
    <3>2. CASE GatewayPost(s, p)
      <4>1. /\ GatewayRow(sess[s].txn) \in FreeRows(s)
            /\ gateway[sess[s].txn].status = "pending"
            /\ Succeed(sess[s].txn, p)
        BY <1>b, <3>2 DEF GatewayPost, Promise, GatewayPromise
      <4> QED BY <4>1 DEF Succeed, GatewayFrame, Safe, Shape, RowsOK
    <3> QED BY <1>12, <3>1, <3>2
  <2> QED BY <1>a, <2>2, <2>3, <2>5, <2>6, <2>7, EndSafe DEF Frame
<1>13. ASSUME RefundPost(s)
       PROVE  Safe' /\ Kept
  <2> DEFINE p == sess[s].pay
             i == sess[s].inv
             amt == sess[s].amt
  <2>1. /\ p \in Recorded
        /\ i \in Invoice
        /\ amt \in Nat
        /\ PayRow(p) \in FreeRows(s)
        /\ payments[p].refunded + amt <= payments[p].amount
        /\ payments[p].invoice = i
    BY <1>13, <1>b DEF RefundPost, AimedAt, SessionState, Promise,
                       RefundPromise
  <2>2. /\ payments' = [payments EXCEPT
                ![p].refunded = @ + amt,
                ![p].refundKeys = @ \cup ({sess[s].key} \ {None})]
        /\ refunded' = [refunded EXCEPT ![i] = @ + amt]
        /\ returned' = [returned EXCEPT
                ![i] = IF sess[s].ret THEN @ + amt ELSE @]
        /\ End(s)
        /\ UNCHANGED <<invoiceStatus, total, allocated, booking, gateway>>
    BY <1>13 DEF RefundPost
  <2> HIDE DEF p, i, amt
  <2>3. /\ \A q \in Payment \ {p} : payments'[q] = payments[q]
        /\ payments'[p].refunded = payments[p].refunded + amt
        /\ payments'[p].amount = payments[p].amount
        /\ payments'[p].invoice = payments[p].invoice
    BY <2>1, <2>2 DEF Recorded, Safe, Shape, RowsOK, PaymentRow
  <2>4. RefundsCovered'
    BY <2>1, <2>3 DEF RefundsCovered, Safe, RowsSafe
  <2>5. PaidOnIssued'
    BY <2>1, <2>2, <2>3 DEF PaidOnIssued, Recorded, Safe, RowsSafe
  <2>6. Fresh'
    BY <2>1, <2>2 DEF Fresh, Safe, RowsSafe, PaidOnIssued, Shape, RowsOK
  <2>7. PaymentFrame(FreeRows(s))
    BY <2>1, <2>3 DEF PaymentFrame, Recorded
  <2>8. InvoiceFrame(FreeRows(s)) /\ MoneyFrame
    <3> SUFFICES ASSUME NEW j \in Invoice
                 PROVE  Reopened(j) <= Reopened(j)'
      BY <2>2 DEF InvoiceFrame, MoneyFrame
    <3>1. /\ refunded[j] \in Nat
          /\ returned[j] \in Nat
      BY DEF Safe, Shape, RowsOK
    <3>2. CASE j # i
      <4>1. refunded'[j] = refunded[j] /\ returned'[j] = returned[j]
        BY <2>2, <3>2 DEF Safe, Shape, RowsOK
      <4> QED BY <3>1, <4>1 DEF Reopened
    <3>3. CASE j = i
      <4>1. /\ refunded'[j] = refunded[j] + amt
            /\ returned'[j] = returned[j] \/ returned'[j] = returned[j] + amt
        BY <2>1, <2>2, <3>3 DEF Safe, Shape, RowsOK
      <4> QED BY <2>1, <3>1, <4>1 DEF Reopened
    <3> QED BY <3>2, <3>3
  <2>9. Frame(FreeRows(s))
    BY <2>2, <2>7, <2>8 DEF Frame, GatewayFrame, BookingFrame
  <2> QED BY <1>a, <2>2, <2>4, <2>5, <2>6, <2>9, EndSafe DEF RowsSafe
<1> QED BY <1>1, <1>2, <1>3, <1>4, <1>5, <1>6, <1>7, <1>8, <1>9, <1>10, <1>11,
           <1>12, <1>13 DEF PaymentBegin, PaymentStep

-----------------------------------------------------------------------------
(* The booking RPCs.                                                       *)

\* Every step of a booking RPC keeps the invariant.
LEMMA BookingSafe ==
    ASSUME Safe, NEW s \in Session, BookingBegin(s) \/ BookingStep(s)
    PROVE  Safe' /\ Kept
<1>a. Shape'
    BY BookingShape DEF Safe
<1>b. /\ sess[s] \in SessionState
      /\ AimedAt(sess[s])
      /\ Promise(sess[s])
      /\ sess[s].locks \subseteq FreeRows(s)
    BY OfSession
\* Calls that begin without a promise.
<1>1. ASSUME NEW r \in SessionState, Become(s, r), UNCHANGED rows,
             r.pc \in {"void.write", "mint", "scan.book"},
             r.locks \subseteq FreeRows(s)
      PROVE  Safe' /\ Kept
  <2>1. Promise(r)
    BY <1>1 DEF Promise, RefundPromise, GatewayPromise, PayPromise,
                BookingPromise, ExpiryPromise, PricePromise
  <2> QED BY <1>a, <1>1, <2>1, GoOnSafe
<1>2. ASSUME NEW i \in Invoice, VoidRead(s, i) \/ EnsureQr(s, i)
      PROVE  Safe' /\ Kept
  <2>1. ASSUME NEW pc \in {"void.write", "mint"},
               Become(s, [Idle EXCEPT !.pc = pc, !.inv = i]), UNCHANGED rows
        PROVE  Safe' /\ Kept
    <3> DEFINE r == [Idle EXCEPT !.pc = pc, !.inv = i]
    <3>1. /\ r \in SessionState
          /\ r.pc \in {"void.write", "mint", "scan.book"}
          /\ r.locks \subseteq FreeRows(s)
      BY DEF SessionState, Idle, PC
    <3> HIDE DEF r
    <3> QED BY <1>1, <2>1, <3>1 DEF r
  <2> QED BY <1>2, <2>1 DEF VoidRead, EnsureQr
<1>3. ASSUME NEW c \in Credential, ScanCredential(s, c)
      PROVE  Safe' /\ Kept
  <2> DEFINE r == [Idle EXCEPT
            !.pc = "scan.book", !.inv = qr[c].booking, !.cred = c,
            !.locks = {QrRow(c)}]
  <2>1. qr[c].booking \in Invoice /\ QrRow(c) \in FreeRows(s)
    BY <1>3, RowIds DEF ScanCredential, Safe, Shape, Minted, FreeRows
  <2>2. /\ r \in SessionState
        /\ r.pc \in {"void.write", "mint", "scan.book"}
        /\ r.locks \subseteq FreeRows(s)
    BY <2>1, RowIds DEF SessionState, Idle, PC
  <2>3. Become(s, r) /\ UNCHANGED rows
    BY <1>3 DEF ScanCredential
  <2> HIDE DEF r
  <2> QED BY <1>1, <2>2, <2>3
\* Calls that begin by locking a booking that may still change.
<1>4. ASSUME NEW i \in Invoice, NEW r \in SessionState, Become(s, r),
             UNCHANGED rows, Free(s, BookingRow(i)),
             booking[i] \in {"pending_payment", "confirmed"},
             r.pc \in {"cancel.qr", "resch.price", "resch.qr"}, r.inv = i,
             r.pc # "cancel.qr" => Repricing,
             ~r.full, r.locks = {BookingRow(i)}
      PROVE  Safe' /\ Kept
  <2>1. Promise(r)
    BY <1>4 DEF Promise, RefundPromise, GatewayPromise, PayPromise,
                BookingPromise, ExpiryPromise, PricePromise
  <2>2. r.locks \subseteq FreeRows(s)
    BY <1>4, RowIds DEF FreeRows
  <2> QED BY <1>a, <1>4, <2>1, <2>2, GoOnSafe
<1>5. ASSUME NEW i \in Invoice, CancelBook(s, i)
      PROVE  Safe' /\ Kept
  <2> DEFINE r == [Idle EXCEPT !.pc = "cancel.qr", !.inv = i,
                               !.locks = {BookingRow(i)}]
  <2>1. /\ r \in SessionState
        /\ r.pc \in {"cancel.qr", "resch.price", "resch.qr"}
        /\ r.inv = i
        /\ ~r.full
        /\ r.locks = {BookingRow(i)}
        /\ r.pc = "cancel.qr"
    BY RowIds DEF SessionState, Idle, PC
  <2>2. Become(s, r) /\ UNCHANGED rows
    BY <1>5 DEF CancelBook
  <2> HIDE DEF r
  <2> QED BY <1>4, <1>5, <2>1, <2>2 DEF CancelBook
<1>6. ASSUME NEW i \in Invoice, NEW price \in Price,
             RescheduleBook(s, i, price)
      PROVE  Safe' /\ Kept
  <2> DEFINE pc == IF allocated[i] = 0 /\ price # total[i] THEN "resch.price"
                   ELSE "resch.qr"
             r == [Idle EXCEPT !.pc = pc, !.inv = i, !.amt = price,
                               !.locks = {BookingRow(i)}]
  <2>1. pc \in {"resch.price", "resch.qr"}
    OBVIOUS
  <2>2. Become(s, r) /\ UNCHANGED rows
    BY <1>6 DEF RescheduleBook
  <2> HIDE DEF pc
  <2>3. /\ r \in SessionState
        /\ r.pc \in {"cancel.qr", "resch.price", "resch.qr"}
        /\ r.inv = i
        /\ ~r.full
        /\ r.locks = {BookingRow(i)}
    BY <2>1, RowIds, PriceAssumption DEF SessionState, Idle, PC
  <2> HIDE DEF r
  <2> QED BY <1>4, <1>6, <2>2, <2>3 DEF RescheduleBook, Repricing
<1>7. ASSUME ExpireBegin(s)
      PROVE  Safe' /\ Kept
  <2> DEFINE stale == {i \in Invoice : booking[i] = "pending_payment"
                                       /\ holdExpired[i]}
             r == [Idle EXCEPT !.pc = "expire.book", !.todo = stale]
  <2>1. /\ r \in SessionState
        /\ r.pc = "expire.book"
        /\ r.cancels = {}
        /\ r.locks \subseteq FreeRows(s)
    BY DEF SessionState, Idle, PC
  <2>2. Become(s, r) /\ UNCHANGED rows
    BY <1>7 DEF ExpireBegin
  <2> HIDE DEF r
  <2>3. Promise(r)
    BY <2>1 DEF Promise, RefundPromise, GatewayPromise, PayPromise,
                BookingPromise, ExpiryPromise, PricePromise
  <2> QED BY <1>a, <2>1, <2>2, <2>3, GoOnSafe
<1>8. ASSUME NEW i \in Invoice,
             MarkNoShow(s, i) \/ MarkCompleted(s, i) \/ AutoComplete(s, i)
      PROVE  Safe' /\ Kept
  <2>1. /\ IsIdle(s)
        /\ Free(s, BookingRow(i))
        /\ booking[i] \in {"confirmed", "checked_in"}
        /\ \A j \in Invoice \ {i} : booking'[j] = booking[j]
        /\ UNCHANGED <<invoiceStatus, money, payments, gateway, sess>>
    BY <1>8 DEF MarkNoShow, MarkCompleted, AutoComplete, Mark, Safe, Shape,
                RowsOK
  <2>2. BookingFrame(FreeRows(s))
    BY <2>1, RowIds DEF BookingFrame, FreeRows
  <2>3. GatewayFrame(FreeRows(s)) /\ InvoiceFrame(FreeRows(s)) /\ MoneyFrame
    BY <2>1 DEF GatewayFrame, InvoiceFrame, MoneyFrame, money, Reopened, Safe,
                Shape,
                RowsOK
  <2>4. RowsSafe' /\ PaymentFrame(FreeRows(s))
    <3>1. \A j \in Invoice :
                /\ invoiceStatus[j] = "none" <=> invoiceStatus'[j] = "none"
                /\ invoiceStatus[j] = "none" => booking'[j] = booking[j]
      BY <2>1 DEF Safe, RowsSafe, Fresh
    <3> QED BY <2>1, <3>1, PaymentsAsTheyAre DEF money
  <2>5. \A t \in Session : IsIdle(t) \/ sess[t].locks \cap FreeRows(s) = {}
    BY <2>1, OthersHold
  <2>6. Frame(FreeRows(s)) /\ UNCHANGED sess
    BY <2>1, <2>2, <2>3, <2>4 DEF Frame
  <2> QED BY <1>a, <2>4, <2>5, <2>6, WriteSafe
\* Calls that end without moving money, repricing or touching the gateway.
<1>9. ASSUME End(s), UNCHANGED <<money, payments, gateway>>,
             \A i \in Invoice :
                /\ invoiceStatus[i] = "none" <=> invoiceStatus'[i] = "none"
                /\ booking'[i] # booking[i] =>
                    /\ booking[i] \in {"pending_payment", "confirmed"}
                    /\ BookingRow(i) \in FreeRows(s)
      PROVE  Safe' /\ Kept
  <2>1. GatewayFrame(FreeRows(s)) /\ InvoiceFrame(FreeRows(s)) /\ MoneyFrame
    BY <1>9 DEF GatewayFrame, InvoiceFrame, MoneyFrame, money, Reopened, Safe,
                Shape,
                RowsOK
  <2>2. BookingFrame(FreeRows(s))
    BY <1>9 DEF BookingFrame
  <2>3. RowsSafe' /\ PaymentFrame(FreeRows(s))
    <3>1. \A j \in Invoice :
                /\ invoiceStatus[j] = "none" <=> invoiceStatus'[j] = "none"
                /\ invoiceStatus[j] = "none" => booking'[j] = booking[j]
      BY <1>9 DEF Safe, RowsSafe, Fresh
    <3> QED BY <1>9, <3>1, PaymentsAsTheyAre DEF money
  <2> QED BY <1>a, <1>9, <2>1, <2>2, <2>3, EndSafe DEF Frame
<1>10. ASSUME VoidWrite(s)
       PROVE  Safe' /\ Kept
    BY <1>9, <1>10, VoidKeepsIssued DEF VoidWrite
<1>11. ASSUME NEW c \in Credential, EnsureMint(s, c)
       PROVE  Safe' /\ Kept
    BY <1>9, <1>11 DEF EnsureMint
<1>12. ASSUME CancelInvoice(s)
       PROVE  Safe' /\ Kept
  <2> DEFINE i == sess[s].inv
  <2>1. /\ BookingRow(i) \in FreeRows(s)
        /\ booking[i] \in {"pending_payment", "confirmed"}
    BY <1>12, <1>b DEF CancelInvoice, Promise, BookingPromise
  <2>2. \A j \in Invoice \ {i} : booking'[j] = booking[j]
    BY <1>12 DEF CancelInvoice, Safe, Shape, RowsOK
  <2>3. \A j \in Invoice :
            invoiceStatus[j] = "none" <=> invoiceStatus'[j] = "none"
    BY <1>12, VoidKeepsIssued DEF CancelInvoice
  <2>4. End(s) /\ UNCHANGED <<money, payments, gateway>>
    BY <1>12 DEF CancelInvoice
  <2> HIDE DEF i
  <2> QED BY <1>9, <2>1, <2>2, <2>3, <2>4
<1>13. ASSUME ExpireCommit(s)
       PROVE  Safe' /\ Kept
  <2>1. \A i \in sess[s].cancels : /\ BookingRow(i) \in FreeRows(s)
                                   /\ booking[i] = "pending_payment"
    BY <1>13, <1>b DEF ExpireCommit, Promise, ExpiryPromise
  <2>2. \A j \in Invoice : j \notin sess[s].cancels => booking'[j] = booking[j]
    BY <1>13 DEF ExpireCommit
  <2>3. \A j \in Invoice :
            invoiceStatus[j] = "none" <=> invoiceStatus'[j] = "none"
    BY <1>13, VoidKeepsIssued DEF ExpireCommit
  <2>4. End(s) /\ UNCHANGED <<money, payments, gateway>>
    BY <1>13 DEF ExpireCommit
  <2> QED BY <1>9, <2>1, <2>2, <2>3, <2>4
<1>14. ASSUME ScanBooking(s)
       PROVE  Safe' /\ Kept
  <2> DEFINE i == sess[s].inv
  <2>1. i \in Invoice /\ BookingRow(i) \in FreeRows(s)
    BY <1>14, <1>b, RowIds DEF ScanBooking, AimedAt, FreeRows
  <2>2. \A j \in Invoice :
            booking'[j] # booking[j] =>
                /\ booking[j] \in {"pending_payment", "confirmed"}
                /\ BookingRow(j) \in FreeRows(s)
    BY <1>14, <2>1 DEF ScanBooking, CheckIn, Admitted, Safe, Shape, RowsOK
  <2>3. End(s) /\ UNCHANGED <<invoiceStatus, money, payments, gateway>>
    BY <1>14 DEF ScanBooking
  <2> QED BY <1>9, <2>2, <2>3
<1>15. ASSUME CancelQr(s)
       PROVE  Safe' /\ Kept
  <2> DEFINE new == {QrRow(c) : c \in Active(sess[s].inv)}
             r == [sess[s] EXCEPT !.pc = "cancel.invoice", !.locks = @ \cup new]
  <2>1. new \in SUBSET Row /\ new \subseteq FreeRows(s)
    BY <1>15, RowIds DEF CancelQr, Active, FreeRows
  <2>2. Become(s, r) /\ UNCHANGED rows
    BY <1>15 DEF CancelQr
  <2> HIDE DEF new
  <2>3. /\ r \in SessionState
        /\ r.pc = "cancel.invoice"
        /\ r.inv = sess[s].inv
        /\ r.locks = sess[s].locks \cup new
    BY <1>b, <2>1 DEF SessionState, PC
  <2>4. /\ BookingRow(sess[s].inv) \in sess[s].locks
        /\ booking[sess[s].inv] \in {"pending_payment", "confirmed"}
    BY <1>15, <1>b DEF CancelQr, Promise, BookingPromise
  <2> HIDE DEF r
  <2>5. Promise(r)
    BY <2>3, <2>4 DEF Promise, RefundPromise, GatewayPromise, PayPromise,
                      BookingPromise, ExpiryPromise, PricePromise
  <2>6. r.locks \subseteq FreeRows(s)
    BY <1>b, <2>1, <2>3
  <2> QED BY <1>a, <2>2, <2>3, <2>5, <2>6, GoOnSafe
<1>16. ASSUME NEW i \in Invoice, ExpireBook(s, i)
       PROVE  Safe' /\ Kept
  <2> DEFINE still == booking[i] = "pending_payment"
             r == [sess[s] EXCEPT
            !.todo = sess[s].todo \ {i},
            !.inv = i,
            !.pc = IF still /\ allocated[i] = 0 THEN "expire.void" ELSE @,
            !.locks = IF still THEN @ \cup {BookingRow(i)} ELSE @,
            !.cancels = IF still THEN @ \cup {i} ELSE @]
  <2>1. Become(s, r) /\ UNCHANGED rows
    BY <1>16 DEF ExpireBook, ExpireTake
  <2>2. /\ sess[s].pc = "expire.book"
        /\ BookingRow(i) \in FreeRows(s)
    BY <1>16, RowIds DEF ExpireBook, ExpireTake, FreeRows
  <2>3. /\ r \in SessionState
        /\ r.pc \in {"expire.book", "expire.void"}
        /\ r.locks = IF still THEN sess[s].locks \cup {BookingRow(i)}
                     ELSE sess[s].locks
        /\ r.cancels = IF still THEN sess[s].cancels \cup {i}
                       ELSE sess[s].cancels
    <3>1. (IF still /\ allocated[i] = 0 THEN "expire.void" ELSE sess[s].pc)
            \in PC
      BY <1>b DEF SessionState, PC
    <3>2. (IF still THEN sess[s].locks \cup {BookingRow(i)}
           ELSE sess[s].locks) \in SUBSET Row
      BY <1>b, RowIds DEF SessionState
    <3>3. (IF still THEN sess[s].cancels \cup {i} ELSE sess[s].cancels)
            \in SUBSET Invoice
      BY <1>b DEF SessionState
    <3>4. sess[s].todo \ {i} \in SUBSET Invoice
      BY <1>b DEF SessionState
    <3> HIDE DEF still
    <3> QED BY <1>b, <2>2, <3>1, <3>2, <3>3, <3>4 DEF SessionState
  <2>4. \A j \in sess[s].cancels : /\ BookingRow(j) \in sess[s].locks
                                   /\ booking[j] = "pending_payment"
    BY <1>b, <2>2 DEF Promise, ExpiryPromise
  <2> HIDE DEF r
  <2>5. Promise(r)
    BY <2>3, <2>4 DEF Promise, RefundPromise, GatewayPromise, PayPromise,
                      BookingPromise, ExpiryPromise, PricePromise
  <2>6. r.locks \subseteq FreeRows(s)
    BY <1>b, <2>2, <2>3
  <2> QED BY <1>a, <2>1, <2>3, <2>5, <2>6, GoOnSafe
<1>17. ASSUME ExpireVoid(s)
       PROVE  Safe' /\ Kept
  <2> DEFINE i == sess[s].inv
             issued == invoiceStatus[i] = "issued"
             r == [sess[s] EXCEPT
            !.pc = "expire.book",
            !.locks = IF issued THEN @ \cup {InvoiceRow(i)} ELSE @,
            !.voids = IF issued THEN @ \cup {i} ELSE @]
  <2>1. /\ i \in Invoice
        /\ InvoiceRow(i) \in FreeRows(s)
        /\ sess[s].pc = "expire.void"
    BY <1>b, <1>17, RowIds DEF ExpireVoid, AimedAt, FreeRows
  <2>2. Become(s, r) /\ UNCHANGED rows
    BY <1>17 DEF ExpireVoid
  <2>3. /\ r \in SessionState
        /\ r.pc = "expire.book"
        /\ r.cancels = sess[s].cancels
        /\ r.locks = IF issued THEN sess[s].locks \cup {InvoiceRow(i)}
                     ELSE sess[s].locks
    <3>1. (IF issued THEN sess[s].locks \cup {InvoiceRow(i)}
           ELSE sess[s].locks) \in SUBSET Row
      BY <1>b, <2>1, RowIds DEF SessionState
    <3>2. (IF issued THEN sess[s].voids \cup {i} ELSE sess[s].voids)
            \in SUBSET Invoice
      BY <1>b, <2>1 DEF SessionState
    <3>3. "expire.book" \in PC
      BY DEF PC
    <3> HIDE DEF issued
    <3> QED BY <1>b, <3>1, <3>2, <3>3 DEF SessionState
  <2>4. \A j \in sess[s].cancels : /\ BookingRow(j) \in sess[s].locks
                                   /\ booking[j] = "pending_payment"
    BY <1>b, <2>1 DEF Promise, ExpiryPromise
  <2> HIDE DEF r
  <2>5. Promise(r)
    BY <2>3, <2>4 DEF Promise, RefundPromise, GatewayPromise, PayPromise,
                      BookingPromise, ExpiryPromise, PricePromise
  <2>6. r.locks \subseteq FreeRows(s)
    BY <1>b, <2>1, <2>3
  <2> QED BY <1>a, <2>2, <2>3, <2>5, <2>6, GoOnSafe
<1>18. ASSUME ReschedulePrice(s)
       PROVE  Safe' /\ Kept
  <2> DEFINE i == sess[s].inv
             r == [sess[s] EXCEPT
            !.pc = "resch.qr", !.full = TRUE,
            !.locks = @ \cup {InvoiceRow(i)}]
  <2>1. i \in Invoice /\ InvoiceRow(i) \in FreeRows(s)
    BY <1>b, <1>18, RowIds DEF ReschedulePrice, AimedAt, FreeRows
  <2>2. Become(s, r) /\ UNCHANGED rows
    BY <1>18 DEF ReschedulePrice
  <2>3. /\ r \in SessionState
        /\ r.pc = "resch.qr"
        /\ r.inv = i
        /\ r.locks = sess[s].locks \cup {InvoiceRow(i)}
    BY <1>b, <2>1, RowIds DEF SessionState, PC
  <2>4. /\ BookingRow(i) \in sess[s].locks
        /\ booking[i] \in {"pending_payment", "confirmed"}
        /\ Repricing
    BY <1>b, <1>18 DEF ReschedulePrice, Promise, BookingPromise, PricePromise
  <2> HIDE DEF r
  <2>5. Promise(r)
    BY <2>3, <2>4 DEF Promise, RefundPromise, GatewayPromise, PayPromise,
                      BookingPromise, ExpiryPromise, PricePromise
  <2>6. r.locks \subseteq FreeRows(s)
    BY <1>b, <2>1, <2>3
  <2> QED BY <1>a, <2>2, <2>3, <2>5, <2>6, GoOnSafe
<1>19. ASSUME NEW c \in Credential, RescheduleQr(s, c)
       PROVE  Safe' /\ Kept
  <2> DEFINE i == sess[s].inv
  <2>1. /\ total' = IF sess[s].full THEN [total EXCEPT ![i] = sess[s].amt]
                    ELSE total
        /\ End(s)
        /\ UNCHANGED <<invoiceStatus, allocated, refunded, returned, booking,
                       payments, gateway>>
    BY <1>19 DEF RescheduleQr
  <2>2. sess[s].full => InvoiceRow(i) \in FreeRows(s)
    BY <1>b, <1>19 DEF RescheduleQr, Promise, PricePromise
  <2>3. InvoiceFrame(FreeRows(s))
    <3>0. Repricing
      BY <1>b, <1>19 DEF RescheduleQr, Promise, PricePromise
    <3> SUFFICES ASSUME NEW j \in Invoice
                 PROVE  \/ total'[j] = total[j] /\ Reopened(j) <= Reopened(j)'
                        \/ InvoiceRow(j) \in FreeRows(s)
      BY <2>1, <3>0 DEF InvoiceFrame
    <3>1. Reopened(j) <= Reopened(j)'
      BY <2>1 DEF Reopened, Safe, Shape, RowsOK
    <3> HIDE DEF i
    <3> QED BY <2>1, <2>2, <3>1 DEF Safe, Shape, RowsOK
  <2>m. MoneyFrame
    BY <1>b, <1>19 DEF RescheduleQr, Promise, PricePromise, MoneyFrame
  <2>4. GatewayFrame(FreeRows(s)) /\ BookingFrame(FreeRows(s))
    BY <2>1 DEF GatewayFrame, BookingFrame
  <2>5. RowsSafe' /\ PaymentFrame(FreeRows(s))
    BY <2>1, PaymentsAsTheyAre
  <2> QED BY <1>a, <2>1, <2>3, <2>m, <2>4, <2>5, EndSafe DEF Frame
<1> QED BY <1>2, <1>3, <1>5, <1>6, <1>7, <1>8, <1>10, <1>11, <1>12, <1>13,
           <1>14, <1>15, <1>16, <1>17, <1>18, <1>19
        DEF BookingBegin, BookingStep

-----------------------------------------------------------------------------
(* New invoices, checkouts and holds.                                      *)

\* A new checkout only adds a transaction.
LEMMA CheckoutSafe ==
    ASSUME Safe, Shape', NEW i \in Invoice, NEW t \in Txn, NEW amt,
           NEW key, StartCheckout(i, t, amt, key)
    PROVE  Safe' /\ Kept
<1>1. UNCHANGED <<invoiceStatus, money, booking, payments, sess>>
    BY DEF StartCheckout
<1>2. GatewayFrame({}) /\ BookingFrame({})
    BY DEF StartCheckout, GatewayFrame, BookingFrame, Safe, Shape, RowsOK
<1>3. InvoiceFrame({}) /\ MoneyFrame
    BY <1>1 DEF InvoiceFrame, MoneyFrame, money, Reopened, Safe, Shape, RowsOK
<1>4. RowsSafe' /\ PaymentFrame({})
    BY <1>1, PaymentsAsTheyAre DEF money
<1>5. Frame({})
    BY <1>2, <1>3, <1>4 DEF Frame
<1> QED BY <1>1, <1>4, <1>5, WriteSafe

\* Issuing an invoice, with or without a payment.
LEMMA IssueSafe ==
    ASSUME Safe, Shape', NEW i \in Invoice, NEW price \in Price,
           Issue(i, price), UNCHANGED <<refunded, returned, gateway, sess>>,
           \A j \in Invoice \ {i} : booking'[j] = booking[j],
           \/ UNCHANGED <<allocated, payments>>
           \/ \E p \in Payment, amt \in Amount, key \in Key \cup {None} :
                  amt <= price /\ InsertPayment(p, i, amt, key)
    PROVE  Safe' /\ Kept
<1>1. /\ invoiceStatus[i] = "none"
      /\ invoiceStatus'[i] = "issued"
      /\ \A j \in Invoice \ {i} : /\ invoiceStatus'[j] = invoiceStatus[j]
                                  /\ total'[j] = total[j]
    BY DEF Issue, Safe, Shape, RowsOK
<1>2. booking[i] = "none"
    BY <1>1 DEF Safe, RowsSafe, Fresh
<1>3. GatewayFrame({}) /\ BookingFrame({})
    BY <1>2 DEF GatewayFrame, BookingFrame
<1>4. \A j \in Invoice \ {i} : allocated'[j] = allocated[j]
    BY DEF InsertPayment, Safe, Shape, RowsOK
<1>5. InvoiceFrame({}) /\ MoneyFrame
  <2>1. \A j \in Invoice : Reopened(j) <= Reopened(j)'
    BY DEF Reopened, Safe, Shape, RowsOK
  <2>2. allocated'[i] <= total'[i] + Reopened(i)'
    <3>1. /\ allocated[i] = 0
          /\ Reopened(i)' = 0
          /\ total'[i] = price
      BY <1>1 DEF Issue, Reopened, Safe, RowsSafe, Fresh, Shape, RowsOK
    <3>2. price \in Nat
      BY PriceAssumption
    <3>3. allocated'[i] = 0
            \/ \E amt \in Amount : amt <= price /\ allocated'[i] = amt
      BY <3>1, AmountAssumption DEF InsertPayment, Safe, Shape, RowsOK
    <3> QED BY <3>1, <3>2, <3>3, AmountAssumption
  <2> QED BY <1>1, <1>4, <2>1, <2>2 DEF InvoiceFrame, MoneyFrame
<1>6. \A j \in Invoice :
            /\ invoiceStatus[j] # "none" => invoiceStatus'[j] # "none"
            /\ invoiceStatus'[j] = "none" => booking'[j] = "none"
    BY <1>1 DEF Safe, RowsSafe, Fresh
<1>7. RowsSafe' /\ PaymentFrame({})
  <2>1. CASE UNCHANGED <<allocated, payments>>
    <3>1. RefundsCovered'
      BY <2>1 DEF Safe, RowsSafe, RefundsCovered
    <3>2. PaidOnIssued'
      <4>1. \A p \in Recorded : payments[p].invoice \in Invoice
        BY DEF Recorded, Safe, Shape, RowsOK, PaymentRow
      <4> QED BY <1>6, <2>1, <4>1 DEF Safe, RowsSafe, PaidOnIssued, Recorded
    <3>3. Fresh'
      BY <1>1, <1>6, <2>1 DEF Safe, RowsSafe, Fresh
    <3>4. PaymentFrame({})
      BY <2>1 DEF PaymentFrame
    <3> QED BY <3>1, <3>2, <3>3, <3>4 DEF RowsSafe
  <2>2. ASSUME NEW p \in Payment, NEW amt \in Amount,
               NEW key \in Key \cup {None}, InsertPayment(p, i, amt, key)
        PROVE  RowsSafe' /\ PaymentFrame({})
    <3>1. amt \in Nat /\ invoiceStatus'[i] # "none"
      BY <1>1, AmountAssumption
    <3> QED BY <1>6, <2>2, <3>1, InsertSafe
  <2> QED BY <2>1, <2>2
<1>8. Frame({})
    BY <1>3, <1>5, <1>7 DEF Frame
<1> QED BY <1>7, <1>8, WriteSafe

\* Every step that issues an invoice keeps the invariant.
LEMMA IssuingSafe ==
    ASSUME Safe, Issuing
    PROVE  Safe' /\ Kept
<1>a. Shape'
    BY IssuingShape DEF Safe
<1>1. ASSUME NEW i \in Invoice, NEW price \in Price, NEW c \in Credential,
             CreateBookingUnpaid(i, price, c)
      PROVE  Safe' /\ Kept
  <2>1. /\ Issue(i, price)
        /\ \A j \in Invoice \ {i} : booking'[j] = booking[j]
        /\ UNCHANGED <<refunded, returned, gateway, sess>>
        /\ UNCHANGED <<allocated, payments>>
    BY <1>1 DEF CreateBookingUnpaid, Safe, Shape, RowsOK
  <2> QED BY <1>a, <2>1, IssueSafe
<1>2. ASSUME NEW i \in Invoice, NEW price \in Price, NEW p \in Payment,
             NEW amt \in Amount, NEW c \in Credential,
             CreateBookingPaid(i, price, p, amt, c)
      PROVE  Safe' /\ Kept
  <2>1. /\ Issue(i, price)
        /\ \A j \in Invoice \ {i} : booking'[j] = booking[j]
        /\ UNCHANGED <<refunded, returned, gateway, sess>>
        /\ amt <= price /\ InsertPayment(p, i, amt, None)
    BY <1>2 DEF CreateBookingPaid, Safe, Shape, RowsOK
  <2> QED BY <1>a, <2>1, IssueSafe
<1>3. ASSUME NEW i \in Invoice, NEW price \in Price,
             SellPlan(i, price) \/ CreateShopSaleUnpaid(i, price)
      PROVE  Safe' /\ Kept
  <2>1. /\ Issue(i, price)
        /\ \A j \in Invoice \ {i} : booking'[j] = booking[j]
        /\ UNCHANGED <<refunded, returned, gateway, sess>>
        /\ UNCHANGED <<allocated, payments>>
    BY <1>3 DEF SellPlan, CreateShopSaleUnpaid
  <2> QED BY <1>a, <2>1, IssueSafe
<1>4. ASSUME NEW i \in Invoice, NEW price \in Price, NEW p \in Payment,
             NEW amt \in Amount, NEW key \in Key \cup {None},
             CreateShopSale(i, price, p, amt, key)
      PROVE  Safe' /\ Kept
  <2>1. /\ Issue(i, price)
        /\ \A j \in Invoice \ {i} : booking'[j] = booking[j]
        /\ UNCHANGED <<refunded, returned, gateway, sess>>
        /\ amt <= price /\ InsertPayment(p, i, amt, key)
    BY <1>4 DEF CreateShopSale
  <2> QED BY <1>a, <2>1, IssueSafe
<1>5. ASSUME NEW i \in Invoice, HoldExpires(i) \/ ActivateSubscription(i)
      PROVE  Safe' /\ Kept
  <2>1. UNCHANGED <<invoiceStatus, money, booking, payments, gateway, sess>>
    BY <1>5 DEF HoldExpires, ActivateSubscription
  <2>2. GatewayFrame({}) /\ BookingFrame({}) /\ InvoiceFrame({}) /\ MoneyFrame
    BY <2>1 DEF GatewayFrame, BookingFrame, InvoiceFrame, MoneyFrame, money,
                Reopened,
                Safe, Shape, RowsOK
  <2>3. RowsSafe' /\ PaymentFrame({})
    BY <2>1, PaymentsAsTheyAre DEF money
  <2> QED BY <1>a, <2>1, <2>2, <2>3, WriteSafe DEF Frame
<1> QED BY <1>1, <1>2, <1>3, <1>4, <1>5 DEF Issuing

-----------------------------------------------------------------------------
(* The invariant and what follows from it.                                 *)

\* A rollback changes no row and releases every lock.
LEMMA RollbackSafe ==
    ASSUME Safe, Shape', NEW s \in Session, Rollback(s)
    PROVE  Safe' /\ Kept
<1>1. Idle.locks \subseteq FreeRows(s)
    BY DEF Idle
<1> QED BY <1>1, IdleShape, IdlePromise, GoOnSafe DEF Rollback, End

\* Every step keeps the invariant, and does what Kept says.
LEMMA SafeStep ==
    ASSUME Safe, [Next]_vars
    PROVE  Safe' /\ Kept
<1>a. Shape'
    BY ShapeStep DEF Safe
<1>1. CASE UNCHANGED vars
  <2>1. UNCHANGED <<rows, sess>>
    BY <1>1 DEF vars
  <2>2. Frame({})
    BY <2>1 DEF rows, money, Frame, PaymentFrame, GatewayFrame, InvoiceFrame,
                BookingFrame, MoneyFrame, Reopened, Safe, Shape, RowsOK
  <2>3. RowsSafe'
    BY <2>1, PaymentsAsTheyAre DEF rows, money
  <2> QED BY <1>a, <2>1, <2>2, <2>3, WriteSafe
<1>2. ASSUME NEW i \in Invoice, NEW t \in Txn, NEW amt \in Amount,
             NEW key \in Key \cup {None}, StartCheckout(i, t, amt, key)
      PROVE  Safe' /\ Kept
    BY <1>a, <1>2, CheckoutSafe
<1>3. ASSUME NEW s \in Session, Rollback(s)
      PROVE  Safe' /\ Kept
    BY <1>a, <1>3, RollbackSafe
<1> QED BY <1>1, <1>2, <1>3, IssuingSafe, PaymentSafe, BookingSafe
        DEF Next, Step, DeadlockVictim, Disconnect

\* Nobody holds a lock at first, and there is no money.
LEMMA SafeInit == Init => Safe
<1> SUFFICES ASSUME Init PROVE Safe
    OBVIOUS
<1>1. Exclusive /\ Promises
    BY IdlePromise DEF Init, Exclusive, Promises, Idle
<1>2. RowsSafe
    BY DEF Init, RowsSafe, RefundsCovered, Fresh, PaidOnIssued, Recorded,
           NoPayment
<1> QED BY <1>1, <1>2, ShapeInit DEF Safe

\* The invariant holds in every reachable state.
LEMMA SafeInvariant == Spec => []Safe
<1>1. Init => Safe
    BY SafeInit
<1>2. Safe /\ [Next]_vars => Safe'
    BY SafeStep
<1> QED BY <1>1, <1>2, PTL DEF Spec

\* Refunds never give back more than the payment brought in, whatever staff,
\* gateways and shop returns do at once (create_refund:75-81).
THEOREM RefundsNeverExceed == Spec => []RefundsCovered
<1>1. Safe => RefundsCovered
    BY DEF Safe, RowsSafe
<1> QED BY <1>1, SafeInvariant, PTL

\* No two transactions hold the lock of the same row.
THEOREM LocksExclude == Spec => []Exclusive
<1>1. Safe => Exclusive
    BY DEF Safe
<1> QED BY <1>1, SafeInvariant, PTL

\* As long as no booking is rescheduled, no invoice is collected beyond its
\* price; rescheduling does break it (record_payment:333-361).
THEOREM CollectedOnce ==
    ASSUME ~Repricing
    PROVE  Spec => []NoOverCollection
<1>1. Init => NoOverCollection
    BY DEF Init, NoOverCollection, Reopened
<1>2. Safe /\ NoOverCollection /\ [Next]_vars => NoOverCollection'
    BY SafeStep DEF Kept
<1> QED BY <1>1, <1>2, SafeInvariant, PTL DEF Spec

\* A settled gateway transaction is final, however webhooks, failure reports
\* and replays interleave (record_gateway_payment_service:56-80).
THEOREM SettledIsFinal == Spec => SettledTxnIsFinal
<1>1. Safe /\ [Next]_vars =>
        [\A t \in Txn : gateway[t].status \in {"succeeded", "failed"}
            => gateway'[t] = gateway[t]]_vars
    BY SafeStep DEF Kept
<1> QED BY <1>1, SafeInvariant, PTL DEF Spec, SettledTxnIsFinal

\* A booking that was cancelled, missed or completed is never revived
\* (record_payment:406-414, expire_stale_booking_holds:175-179).
THEOREM EndedStaysEnded == Spec => EndedBookingStaysEnded
<1>1. Safe /\ [Next]_vars =>
        [\A i \in Invoice :
            booking[i] \in {"cancelled", "no_show", "completed"}
                => booking'[i] = booking[i]]_vars
    BY SafeStep DEF Kept
<1> QED BY <1>1, SafeInvariant, PTL DEF Spec, EndedBookingStaysEnded

\* A step of one session leaves the others where they are.
LEMMA OthersWait ==
    ASSUME Safe, NEW s \in Session, NEW t \in Session, t # s,
           PaymentBegin(s) \/ BookingBegin(s) \/ PaymentStep(s)
                \/ BookingStep(s) \/ Rollback(s)
    PROVE  sess'[t] = sess[t]
<1>1. ASSUME NEW state, Become(s, state) PROVE sess'[t] = sess[t]
    BY <1>1 DEF Become, Safe, Shape
<1>2. CASE PaymentBegin(s)
    BY <1>1, <1>2 DEF PaymentBegin, PayBegin, MarkFailed, GatewayMismatch,
        GatewayLock, CreateRefund, CreateGatewayRefund, ReturnShopSale,
        RefundLock
<1>3. CASE PaymentStep(s)
    BY <1>1, <1>3 DEF PaymentStep, PayLock, PayRefuse, PayPost, PayDuplicate,
        GatewayLockInvoice, GatewayReject, GatewayPost, GatewayLink,
        RefundPost, End
<1>4. CASE BookingBegin(s)
    BY <1>1, <1>4 DEF BookingBegin, VoidRead, CancelBook, ExpireBegin,
        RescheduleBook, EnsureQr, ScanCredential, MarkNoShow, MarkCompleted,
        AutoComplete, Mark
<1>5. CASE BookingStep(s)
    BY <1>1, <1>5 DEF BookingStep, VoidWrite, CancelQr, CancelInvoice,
        ExpireBook, ExpireTake, ExpireVoid, ExpireCommit, ReschedulePrice,
        RescheduleQr, EnsureMint, ScanBooking, End
<1>6. CASE Rollback(s)
    BY <1>1, <1>6 DEF Rollback, End
<1> QED BY <1>2, <1>3, <1>4, <1>5, <1>6

\* The expiry job never cancels a booking that was confirmed after the job
\* had read it as stale (expire_stale_booking_holds:175-179).
THEOREM ConfirmedOutlives == Spec => ConfirmedOutlivesExpiry
<1> DEFINE Outlives(s, i) ==
        sess[s].pc = "expire.book" /\ sess'[s] = Idle /\ sess[s].todo = {}
            => (booking[i] = "confirmed" => booking'[i] # "cancelled")
<1>1. ASSUME Safe, [Next]_vars, NEW s \in Session, NEW i \in Invoice
      PROVE  Outlives(s, i)
  <2> SUFFICES ASSUME sess[s].pc = "expire.book", sess'[s] # sess[s],
                      sess[s].todo = {}, booking[i] = "confirmed"
               PROVE  booking'[i] # "cancelled"
    BY DEF Idle
  <2>1. CASE PaymentBegin(s) \/ BookingBegin(s) \/ PaymentStep(s)
    BY <2>1 DEF PaymentBegin, PayBegin, MarkFailed, GatewayMismatch,
        GatewayLock, CreateRefund, CreateGatewayRefund, ReturnShopSale,
        RefundLock, PaymentStep, PayLock, PayRefuse, PayPost, PayDuplicate,
        GatewayLockInvoice, GatewayReject, GatewayPost, GatewayLink,
        RefundPost, BookingBegin, VoidRead, CancelBook, ExpireBegin,
        RescheduleBook, EnsureQr, ScanCredential, MarkNoShow, MarkCompleted,
        AutoComplete, Mark, IsIdle
  <2>2. CASE BookingStep(s)
    <3>1. ExpireCommit(s)
      BY <2>2 DEF BookingStep, VoidWrite, CancelQr, CancelInvoice, ExpireBook,
          ExpireTake, ExpireVoid, ReschedulePrice, RescheduleQr, EnsureMint,
          ScanBooking
    <3>2. i \notin sess[s].cancels
      BY <1>1, OfSession DEF Promise, ExpiryPromise
    <3> QED BY <3>1, <3>2 DEF ExpireCommit
  <2>3. CASE Rollback(s)
    BY <2>3 DEF Rollback, rows
  <2>4. ASSUME NEW t \in Session, t # s,
               PaymentBegin(t) \/ BookingBegin(t) \/ PaymentStep(t)
                    \/ BookingStep(t) \/ Rollback(t)
        PROVE  FALSE
    BY <1>1, <2>4, OthersWait
  <2>5. CASE UNCHANGED sess
    BY <2>5
  <2>6. CASE Issuing \/ \E j \in Invoice, t \in Txn, amt \in Amount,
                             key \in Key \cup {None} :
                             StartCheckout(j, t, amt, key)
    BY <2>5, <2>6 DEF Issuing, CreateBookingUnpaid, CreateBookingPaid,
        SellPlan,
        ActivateSubscription, CreateShopSaleUnpaid, CreateShopSale,
        HoldExpires,
        StartCheckout
  <2> QED BY <1>1, <2>1, <2>2, <2>3, <2>4, <2>5, <2>6
          DEF Next, Step, DeadlockVictim, Disconnect, vars
<1>2. Safe /\ [Next]_vars =>
        [\A s \in Session, i \in Invoice : Outlives(s, i)]_vars
    BY <1>1
<1> QED BY <1>2, SafeInvariant, PTL DEF Spec, ConfirmedOutlivesExpiry
=============================================================================
