------------------------ MODULE BillingLedgerContract ------------------------
(***************************************************************************)
(* Proofs of the two abstract specifications the ledger implements.        *)
(*                                                                         *)
(* To the payment providers' functions it is GatewayContract: a staged     *)
(* transaction is posted once, under its own key.  The rows say which      *)
(* payment belongs to which transaction (Posted), the sessions carry the   *)
(* keys and amounts they have read (Carries), and every step does one of   *)
(* seven things to payments and transactions (Effect).                     *)
(*                                                                         *)
(* Seen through its price and what it has collected, every invoice is an   *)
(* account of InvoiceAccount.  What is left of one payment bounds a refund *)
(* of it; that this is no more than what the whole invoice holds needs the *)
(* invoice's totals to be the sums of its payments' rows (Balanced).       *)
(***************************************************************************)
EXTENDS BillingLedgerSafety, FiniteSetTheorems, WellFoundedInduction

-----------------------------------------------------------------------------
(* The rows.                                                               *)

KeyedOnce ==
    \A p, q \in Recorded :
        payments[p].key # None /\ payments[p].key = payments[q].key => p = q

Worthy == \A p \in Recorded : payments[p].amount \in Amount

KeysApart ==
    \A t, u \in Txn :
        t # u /\ gateway[t].key # None => gateway[t].key # gateway[u].key

TxnOK(t) ==
    /\ gateway[t].status = "none" => gateway[t].key = None
    /\ gateway[t].status # "none" => gateway[t].amount \in Amount
    /\ gateway[t].status = "succeeded" <=> gateway[t].payment # None
    /\ gateway[t].payment # None =>
        /\ gateway[t].payment \in Recorded
        /\ payments[gateway[t].payment].key = GatewayIdempotencyKey(t)

TxnPosted == \A t \in Txn : TxnOK(t)

Posted == KeyedOnce /\ Worthy /\ KeysApart /\ TxnPosted

\* What a session in state r has read and still holds when it writes.
Carry(r) ==
    /\ r.pc \in Posting \cup {"refund.post"} => r.amt \in Amount
    /\ r.pc = "refund.post" => r.key \notin payments[r.pay].refundKeys
    /\ r.pc \in {"gw.invoice", "gw.post"} =>
            r.key = GatewayIdempotencyKey(r.txn)

Carries == \A s \in Session : Carry(sess[s])

Once == Safe /\ Posted /\ Carries

-----------------------------------------------------------------------------
(* What a step does to payments and transactions.                          *)

Staging(t) ==
    \E i \in Invoice, amt \in Amount, key \in Key \cup {None} :
        /\ gateway[t].status = "none"
        /\ key = None \/ \A u \in Txn : gateway[u].key # key
        /\ gateway' = [gateway EXCEPT ![t] = [status |-> "pending",
                invoice |-> i, amount |-> amt, key |-> key, payment |-> None]]
        /\ UNCHANGED payments

Failing(t) ==
    /\ gateway[t].status = "pending"
    /\ FailTxn(t)
    /\ UNCHANGED payments

\* A payment of amt with the key is recorded.
Receiving(p, amt, key) ==
    /\ amt \in Amount
    /\ \E i \in Invoice : InsertPayment(p, i, amt, key)

Settling(t, p) ==
    /\ gateway[t].status = "pending"
    /\ Succeed(t, p)

Posts(t, p) ==
    /\ Settling(t, p)
    /\ \E amt \in Amount : Receiving(p, amt, GatewayIdempotencyKey(t))

Links(t, p) ==
    /\ Settling(t, p)
    /\ p \in PaidWith(GatewayIdempotencyKey(t))
    /\ UNCHANGED payments

\* The payment is one of free, the rows nobody else has locked.
Refunding(p, amt, key, free) ==
    /\ p \in Recorded
    /\ PayRow(p) \in free
    /\ key \notin payments[p].refundKeys
    /\ amt <= payments[p].amount - payments[p].refunded
    /\ payments' = [payments EXCEPT
            ![p].refunded = @ + amt,
            ![p].refundKeys = @ \cup ({key} \ {None})]
    /\ UNCHANGED gateway

Effect(free) ==
    \/ UNCHANGED <<payments, gateway>>
    \/ \E t \in Txn : Staging(t)
    \/ \E t \in Txn : Failing(t)
    \/ \E p \in Payment, amt \in Amount, key \in Key \cup Txn \cup {None} :
            Receiving(p, amt, key) /\ UNCHANGED gateway
    \/ \E t \in Txn, p \in Payment : Posts(t, p)
    \/ \E t \in Txn, p \in Payment : Links(t, p)
    \/ \E p \in Payment, amt \in Amount, key \in Key \cup Txn \cup {None} :
            Refunding(p, amt, key, free)

-----------------------------------------------------------------------------
(* The effects keep the rows and what other sessions carry.                *)

\* Two transactions never have the same idempotency key.
LEMMA OwnKeys ==
    ASSUME Shape, KeysApart, NEW t \in Txn, NEW u \in Txn, t # u
    PROVE  GatewayIdempotencyKey(t) # GatewayIdempotencyKey(u)
<1>1. /\ gateway[t].key \in Key \cup {None}
      /\ gateway[u].key \in Key \cup {None}
    BY DEF Shape, RowsOK, TxnRow
<1> QED BY <1>1, KeyAssumption, NoneAssumption
        DEF GatewayIdempotencyKey, KeysApart

\* A transaction has a key.
LEMMA HasKey ==
    ASSUME Shape, NEW t \in Txn
    PROVE  GatewayIdempotencyKey(t) \in Key \cup Txn
                /\ GatewayIdempotencyKey(t) # None
<1>1. gateway[t].key \in Key \cup {None}
    BY DEF Shape, RowsOK, TxnRow
<1> QED BY <1>1, NoneAssumption DEF GatewayIdempotencyKey

\* What recording a payment leaves and adds.
LEMMA Received ==
    ASSUME Shape, NEW p \in Payment, NEW amt, NEW key, Receiving(p, amt, key)
    PROVE  /\ p \notin Recorded
           /\ Recorded' = Recorded \cup {p}
           /\ payments'[p].key = key
           /\ payments'[p].amount = amt
           /\ payments'[p].refunded = 0
           /\ payments'[p].refundKeys = {}
           /\ \A q \in Payment \ {p} : payments'[q] = payments[q]
           /\ amt \in Amount
<1> PICK i \in Invoice : InsertPayment(p, i, amt, key)
    BY DEF Receiving
<1>1. payments' = [payments EXCEPT ![p] =
            [invoice |-> i, amount |-> amt, refunded |-> 0, key |-> key,
             refundKeys |-> {}]]
    BY DEF InsertPayment
<1>2. /\ payments'[p] = [invoice |-> i, amount |-> amt, refunded |-> 0,
                         key |-> key, refundKeys |-> {}]
      /\ \A q \in Payment \ {p} : payments'[q] = payments[q]
    BY <1>1 DEF Shape, RowsOK
<1>3. Recorded' = Recorded \cup {p}
    BY <1>2, NoneAssumption DEF Recorded
<1> QED BY <1>2, <1>3 DEF Receiving, InsertPayment

\* A new payment's key is new, unless it has none.
LEMMA ReceivedOnce ==
    ASSUME Shape, KeyedOnce, Worthy, NEW p \in Payment, NEW amt, NEW key,
           Receiving(p, amt, key)
    PROVE  (KeyedOnce /\ Worthy)'
<1>1. PaidWith(key) = {}
    BY DEF Receiving, InsertPayment
<1>2. KeyedOnce'
  <2> SUFFICES ASSUME NEW q \in Recorded', NEW r \in Recorded',
                      payments'[q].key # None,
                      payments'[q].key = payments'[r].key
               PROVE  q = r
    BY DEF KeyedOnce
  <2>1. CASE q # p /\ r # p
    BY <2>1, Received DEF KeyedOnce, Recorded
  <2>2. CASE q = p /\ r # p
    BY <1>1, <2>2, Received DEF PaidWith, Recorded
  <2>3. CASE q # p /\ r = p
    BY <1>1, <2>3, Received DEF PaidWith, Recorded
  <2> QED BY <2>1, <2>2, <2>3
<1>3. Worthy'
    BY Received DEF Worthy, Recorded
<1> QED BY <1>2, <1>3

\* What settling a transaction leaves and changes.
LEMMA Settled ==
    ASSUME Shape, NEW t \in Txn, NEW p \in Payment, Settling(t, p)
    PROVE  /\ gateway'[t] = [gateway[t] EXCEPT !.status = "succeeded",
                                               !.payment = p]
           /\ \A u \in Txn \ {t} : gateway'[u] = gateway[u]
           /\ GatewayIdempotencyKey(t)' = GatewayIdempotencyKey(t)
           /\ \A u \in Txn : gateway'[u].key = gateway[u].key
<1>1. /\ gateway \in [Txn -> TxnRow]
      /\ gateway[t] \in TxnRow
    BY DEF Shape, RowsOK
<1>2. /\ gateway'[t] = [gateway[t] EXCEPT !.status = "succeeded",
                                          !.payment = p]
      /\ \A u \in Txn \ {t} : gateway'[u] = gateway[u]
    BY <1>1 DEF Settling, Succeed, TxnRow
<1>3. \A u \in Txn : gateway'[u].key = gateway[u].key
    BY <1>1, <1>2 DEF TxnRow
<1> QED BY <1>2, <1>3 DEF GatewayIdempotencyKey

\* Every effect keeps what the rows say of payments and transactions.
LEMMA PostedKept ==
    ASSUME Shape, Shape', RowsSafe, Posted, NEW free, Effect(free)
    PROVE  Posted'
<1>0. /\ gateway \in [Txn -> TxnRow]
      /\ payments \in [Payment -> PaymentRow]
      /\ \A t \in Txn : gateway[t] \in TxnRow
    BY DEF Shape, RowsOK
<1>1. CASE UNCHANGED <<payments, gateway>>
    BY <1>1 DEF Posted, KeyedOnce, Worthy, KeysApart, TxnPosted, TxnOK, Recorded,
                GatewayIdempotencyKey
<1>2. ASSUME NEW t \in Txn, Staging(t)
      PROVE  Posted'
  <2>1. PICK i \in Invoice, amt \in Amount, key \in Key \cup {None} :
            /\ gateway[t].status = "none"
            /\ key = None \/ \A u \in Txn : gateway[u].key # key
            /\ gateway' = [gateway EXCEPT ![t] = [status |-> "pending",
                    invoice |-> i, amount |-> amt, key |-> key,
                    payment |-> None]]
            /\ UNCHANGED payments
    BY <1>2 DEF Staging
  <2>2. /\ gateway'[t].status = "pending"
        /\ gateway'[t].amount = amt
        /\ gateway'[t].key = key
        /\ gateway'[t].payment = None
        /\ \A u \in Txn \ {t} : gateway'[u] = gateway[u]
    BY <1>0, <2>1
  <2>3. (KeyedOnce /\ Worthy)'
    BY <2>1 DEF Posted, KeyedOnce, Worthy, Recorded
  <2>4. KeysApart'
    BY <2>1, <2>2 DEF Posted, KeysApart
  <2>5. TxnPosted'
    <3> SUFFICES ASSUME NEW u \in Txn
                 PROVE  TxnOK(u)'
      BY DEF TxnPosted
    <3>1. CASE u = t
      BY <2>2, <3>1 DEF TxnOK
    <3>2. CASE u # t
      BY <2>1, <2>2, <3>2
         DEF Posted, TxnPosted, TxnOK, Recorded, GatewayIdempotencyKey
    <3> QED BY <3>1, <3>2
  <2> QED BY <2>3, <2>4, <2>5 DEF Posted
<1>3. ASSUME NEW t \in Txn, Failing(t)
      PROVE  Posted'
  <2>1. /\ gateway[t].status = "pending"
        /\ gateway'[t] = [gateway[t] EXCEPT !.status = "failed"]
        /\ \A u \in Txn \ {t} : gateway'[u] = gateway[u]
        /\ UNCHANGED payments
    BY <1>0, <1>3 DEF Failing, FailTxn
  <2>2. /\ gateway'[t].status = "failed"
        /\ gateway'[t].amount = gateway[t].amount
        /\ gateway'[t].key = gateway[t].key
        /\ gateway'[t].payment = gateway[t].payment
    BY <1>0, <2>1 DEF TxnRow
  <2>3. (KeyedOnce /\ Worthy)'
    BY <2>1 DEF Posted, KeyedOnce, Worthy, Recorded
  <2>k. \A u \in Txn : gateway'[u].key = gateway[u].key
    BY <2>1, <2>2
  <2>4. KeysApart'
    BY <2>k DEF Posted, KeysApart
  <2>5. TxnPosted'
    <3> SUFFICES ASSUME NEW u \in Txn
                 PROVE  TxnOK(u)'
      BY DEF TxnPosted
    <3>1. gateway[t].payment = None
      BY <2>1 DEF Posted, TxnPosted, TxnOK
    <3>2. CASE u = t
      BY <2>1, <2>2, <3>1, <3>2 DEF Posted, TxnPosted, TxnOK
    <3>3. CASE u # t
      BY <2>1, <3>3 DEF Posted, TxnPosted, TxnOK, Recorded, GatewayIdempotencyKey
    <3> QED BY <3>2, <3>3
  <2> QED BY <2>3, <2>4, <2>5 DEF Posted
<1>4. ASSUME NEW p \in Payment, NEW amt, NEW key, Receiving(p, amt, key),
             UNCHANGED gateway
      PROVE  Posted'
  <2>1. (KeyedOnce /\ Worthy)'
    BY <1>4, ReceivedOnce DEF Posted
  <2>2. KeysApart'
    BY <1>4 DEF Posted, KeysApart
  <2>3. Recorded \subseteq Recorded'
            /\ \A q \in Recorded : payments'[q] = payments[q]
    BY <1>4, Received DEF Recorded
  <2>4. TxnPosted'
    BY <1>4, <2>3 DEF Posted, TxnPosted, TxnOK, GatewayIdempotencyKey
  <2> QED BY <2>1, <2>2, <2>4 DEF Posted
\* A transaction is settled with a payment that has its key.
<1>5. ASSUME NEW t \in Txn, NEW p \in Payment, Settling(t, p),
             (KeyedOnce /\ Worthy)', p \in Recorded',
             payments'[p].key = GatewayIdempotencyKey(t),
             \A q \in Recorded : q \in Recorded' /\ payments'[q] = payments[q]
      PROVE  Posted'
  <2>1. /\ gateway[t].status = "pending"
        /\ gateway'[t] = [gateway[t] EXCEPT !.status = "succeeded",
                                            !.payment = p]
        /\ \A u \in Txn \ {t} : gateway'[u] = gateway[u]
        /\ GatewayIdempotencyKey(t)' = GatewayIdempotencyKey(t)
        /\ \A u \in Txn : gateway'[u].key = gateway[u].key
    BY <1>5, Settled DEF Settling
  <2>2. /\ gateway'[t].status = "succeeded"
        /\ gateway'[t].amount = gateway[t].amount
        /\ gateway'[t].payment = p
    BY <1>0, <2>1 DEF TxnRow
  <2>3. KeysApart'
    BY <2>1 DEF Posted, KeysApart
  <2>4. p # None
    BY NoneAssumption
  <2>5. TxnPosted'
    <3> SUFFICES ASSUME NEW u \in Txn
                 PROVE  TxnOK(u)'
      BY DEF TxnPosted
    <3>1. CASE u = t
      BY <1>5, <2>1, <2>2, <2>4, <3>1 DEF Posted, TxnPosted, TxnOK
    <3>2. CASE u # t
      BY <1>5, <2>1, <3>2 DEF Posted, TxnPosted, TxnOK, GatewayIdempotencyKey
    <3> QED BY <3>1, <3>2
  <2> QED BY <1>5, <2>3, <2>5 DEF Posted
<1>6. ASSUME NEW t \in Txn, NEW p \in Payment, Posts(t, p)
      PROVE  Posted'
  <2>1. PICK amt \in Amount : Receiving(p, amt, GatewayIdempotencyKey(t))
    BY <1>6 DEF Posts
  <2>2. (KeyedOnce /\ Worthy)'
    BY <2>1, ReceivedOnce DEF Posted
  <2>3. /\ p \in Recorded'
        /\ payments'[p].key = GatewayIdempotencyKey(t)
        /\ \A q \in Recorded : q \in Recorded' /\ payments'[q] = payments[q]
    BY <2>1, Received DEF Recorded
  <2> QED BY <1>5, <1>6, <2>2, <2>3 DEF Posts
<1>7. ASSUME NEW t \in Txn, NEW p \in Payment, Links(t, p)
      PROVE  Posted'
  <2>1. (KeyedOnce /\ Worthy)'
    BY <1>7 DEF Links, Posted, KeyedOnce, Worthy, Recorded
  <2>2. /\ p \in Recorded'
        /\ payments'[p].key = GatewayIdempotencyKey(t)
        /\ \A q \in Recorded : q \in Recorded' /\ payments'[q] = payments[q]
    BY <1>7 DEF Links, PaidWith, Recorded
  <2> QED BY <1>5, <1>7, <2>1, <2>2 DEF Links
<1>8. ASSUME NEW p \in Payment, NEW amt, NEW key, Refunding(p, amt, key, free)
      PROVE  Posted'
  <2>1. \A q \in Payment : /\ payments'[q].invoice = payments[q].invoice
                            /\ payments'[q].key = payments[q].key
                            /\ payments'[q].amount = payments[q].amount
    BY <1>0, <1>8 DEF Refunding, PaymentRow
  <2>2. Recorded' = Recorded
    BY <2>1 DEF Recorded
  <2>3. (KeyedOnce /\ Worthy)'
    BY <2>1, <2>2 DEF Posted, KeyedOnce, Worthy, Recorded
  <2>4. gateway' = gateway
    BY <1>8 DEF Refunding
  <2>5. KeysApart' /\ TxnPosted'
    BY <2>1, <2>2, <2>4
       DEF Posted, KeysApart, TxnPosted, TxnOK, Recorded, GatewayIdempotencyKey
  <2> QED BY <2>3, <2>5 DEF Posted
<1> QED BY <1>1, <1>2, <1>3, <1>4, <1>6, <1>7, <1>8 DEF Effect

\* A session that waits carries what it did, whatever another one writes.
LEMMA CarryKept ==
    ASSUME Safe, Posted, NEW free, Effect(free), NEW t \in Session,
           sess'[t] = sess[t], sess[t].locks \cap free = {}, Carry(sess[t])
    PROVE  Carry(sess[t])'
<1> DEFINE r == sess[t]
<1>0. /\ r' = r
      /\ r \in SessionState
      /\ AimedAt(r)
      /\ Promise(r)
      /\ Shape
      /\ gateway \in [Txn -> TxnRow]
      /\ payments \in [Payment -> PaymentRow]
    BY DEF Safe, Shape, RowsOK, Promises
<1>1. ASSUME r.pc = "refund.post"
      PROVE  r.key \notin payments'[r.pay].refundKeys
  <2>1. /\ r.pay \in Recorded
        /\ PayRow(r.pay) \in r.locks
        /\ r.key \notin payments[r.pay].refundKeys
    BY <1>0, <1>1 DEF Promise, RefundPromise, Carry
  <2>2. \A p \in Payment : \A amt, key : Receiving(p, amt, key) =>
            payments'[r.pay] = payments[r.pay]
    BY <1>0, <2>1, Received DEF Recorded
  <2>3. \A p \in Payment : \A amt, key : Refunding(p, amt, key, free) =>
            payments'[r.pay] = payments[r.pay]
    BY <1>0, <2>1 DEF Refunding, Recorded
  <2> HIDE DEF r
  <2>4. payments'[r.pay] = payments[r.pay]
    BY <2>2, <2>3 DEF Effect, Staging, Failing, Posts, Links
  <2> QED BY <2>1, <2>4
<1>2. ASSUME r.pc \in {"gw.invoice", "gw.post"}
      PROVE  GatewayIdempotencyKey(r.txn)' = GatewayIdempotencyKey(r.txn)
  <2>1. r.txn \in Txn /\ gateway[r.txn].status # "none"
    BY <1>0, <1>2 DEF AimedAt
  <2>2. \A u \in Txn : Staging(u) => gateway'[r.txn] = gateway[r.txn]
    BY <1>0, <2>1 DEF Staging
  <2>3. \A u \in Txn : Failing(u) => gateway'[r.txn].key = gateway[r.txn].key
    BY <1>0, <2>1 DEF Failing, FailTxn, TxnRow
  <2>4. \A u \in Txn, p \in Payment : Settling(u, p) =>
            gateway'[r.txn].key = gateway[r.txn].key
    BY <1>0, <2>1, Settled
  <2> HIDE DEF r
  <2>5. gateway'[r.txn].key = gateway[r.txn].key
    BY <2>2, <2>3, <2>4 DEF Effect, Refunding, Posts, Links
  <2>6. r.txn' = r.txn
    BY <1>0
  <2> QED BY <1>0, <2>5, <2>6 DEF GatewayIdempotencyKey
<1> QED BY <1>0, <1>1, <1>2 DEF Carry

-----------------------------------------------------------------------------
(* Every step has one of the effects, and its session carries what it has  *)
(* read.                                                                   *)

\* An idle session, and one in a booking RPC, carries nothing.
LEMMA CarryNothing ==
    ASSUME NEW r, r.pc \notin Posting \cup {"refund.post"}
    PROVE  Carry(r) /\ Carry(r)'
BY DEF Carry, Posting

\* A session goes on and writes nothing.
LEMMA CarryOn ==
    ASSUME Shape, NEW s \in Session, NEW r, Become(s, r), UNCHANGED rows,
           Carry(r)
    PROVE  Effect(FreeRows(s)) /\ Carry(sess[s])'
<1>1. sess'[s] = r
    BY DEF Become, Shape
<1>2. UNCHANGED <<payments, gateway>>
    BY DEF rows
<1>3. Carry(r)'
    BY <1>2 DEF Carry, GatewayIdempotencyKey
<1> QED BY <1>1, <1>2, <1>3 DEF Effect

\* A session that ends carries nothing.
LEMMA CarryEnd ==
    ASSUME Shape, NEW s \in Session, End(s)
    PROVE  Carry(sess[s])'
<1>1. sess'[s] = Idle
    BY DEF End, Become, Shape
<1> QED BY <1>1 DEF Idle, Carry, Posting

\* A refund that starts has an amount and a key the payment has not had.
LEMMA CarryRefund ==
    ASSUME Shape, NEW s \in Session, NEW p \in Payment, NEW amt \in Amount,
           NEW key, NEW ret, NEW held, RefundLock(s, p, amt, key, ret, held)
    PROVE  Effect(FreeRows(s)) /\ Carry(sess[s])'
<1> DEFINE r == [Idle EXCEPT
            !.pc = "refund.post", !.pay = p, !.inv = payments[p].invoice,
            !.amt = amt, !.key = key, !.ret = ret,
            !.locks = held \cup {PayRow(p)}]
<1>1. r.pc = "refund.post" /\ r.pay = p /\ r.amt = amt /\ r.key = key
    BY DEF Idle
<1>2. Become(s, r) /\ UNCHANGED rows
    BY DEF RefundLock
<1> HIDE DEF r
<1>3. Carry(r)
    BY <1>1 DEF Carry, RefundLock
<1> QED BY <1>2, <1>3, CarryOn

\* Every step of a payment RPC has one of the effects.
LEMMA PaymentEffect ==
    ASSUME Once, NEW s \in Session, PaymentBegin(s) \/ PaymentStep(s)
    PROVE  Effect(FreeRows(s)) /\ Carry(sess[s])'
<1>a. Safe /\ Shape /\ Posted /\ RowsOK
    BY DEF Once, Safe, Shape
<1>b. /\ sess[s] \in SessionState
      /\ AimedAt(sess[s])
      /\ Promise(sess[s])
      /\ sess[s].locks \subseteq FreeRows(s)
      /\ Carry(sess[s])
    BY <1>a, OfSession DEF Once, Carries
<1>1. ASSUME NEW i \in Invoice, NEW amt \in Amount, NEW key \in Key \cup {None},
             PayBegin(s, i, amt, key)
      PROVE  Effect(FreeRows(s)) /\ Carry(sess[s])'
  <2> DEFINE r == [Idle EXCEPT !.pc = "pay.lock", !.inv = i, !.amt = amt,
                               !.key = key, !.price = total[i]]
  <2>1. Carry(r)
    BY DEF Carry, Idle
  <2>2. Become(s, r) /\ UNCHANGED rows
    BY <1>1 DEF PayBegin
  <2> HIDE DEF r
  <2> QED BY <1>a, <2>1, <2>2, CarryOn
<1>2. ASSUME NEW t \in Txn, MarkFailed(s, t) \/ GatewayMismatch(s, t)
      PROVE  Effect(FreeRows(s)) /\ Carry(sess[s])'
  <2>1. Failing(t) /\ UNCHANGED sess /\ IsIdle(s)
    BY <1>2 DEF MarkFailed, GatewayMismatch, Failing, FailTxn
  <2>2. Carry(sess[s])'
    BY <2>1 DEF Carry, IsIdle, Posting
  <2> QED BY <2>1, <2>2 DEF Effect
<1>3. ASSUME NEW t \in Txn, GatewayLock(s, t)
      PROVE  Effect(FreeRows(s)) /\ Carry(sess[s])'
  <2> DEFINE r == [Idle EXCEPT
            !.pc = "gw.invoice", !.txn = t, !.inv = gateway[t].invoice,
            !.amt = gateway[t].amount, !.key = GatewayIdempotencyKey(t),
            !.locks = {GatewayRow(t)}]
  <2>1. gateway[t].amount \in Amount
    BY <1>3, <1>a DEF GatewayLock, Posted, TxnPosted, TxnOK
  <2>2. /\ r.pc = "gw.invoice"
        /\ r.txn = t
        /\ r.amt = gateway[t].amount
        /\ r.key = GatewayIdempotencyKey(t)
    BY DEF Idle
  <2>3. Become(s, r) /\ UNCHANGED rows
    BY <1>3 DEF GatewayLock
  <2> HIDE DEF r
  <2>4. Carry(r)
    BY <2>1, <2>2 DEF Carry
  <2> QED BY <1>a, <2>3, <2>4, CarryOn
<1>4. ASSUME NEW p \in Payment, NEW amt \in Amount, NEW key \in Key \cup {None},
             CreateRefund(s, p, amt, key)
      PROVE  Effect(FreeRows(s)) /\ Carry(sess[s])'
    BY <1>a, <1>4, CarryRefund DEF CreateRefund
<1>5. ASSUME NEW p \in Payment, NEW t \in Txn, NEW amt \in Amount,
             NEW key \in Key \cup {None},
             CreateGatewayRefund(s, p, t, amt, key)
      PROVE  Effect(FreeRows(s)) /\ Carry(sess[s])'
    BY <1>a, <1>5, CarryRefund DEF CreateGatewayRefund
<1>6. ASSUME NEW p \in Payment, NEW amt \in Amount, ReturnShopSale(s, p, amt)
      PROVE  Effect(FreeRows(s)) /\ Carry(sess[s])'
    BY <1>a, <1>6, CarryRefund DEF ReturnShopSale
<1>7. ASSUME PayLock(s)
      PROVE  Effect(FreeRows(s)) /\ Carry(sess[s])'
  <2> DEFINE r == [sess[s] EXCEPT
            !.pc = "pay.post", !.full = PayBalance(s) <= sess[s].amt,
            !.locks = @ \cup {InvoiceRow(sess[s].inv)}]
  <2>1. r.pc = "pay.post" /\ r.amt = sess[s].amt /\ sess[s].pc = "pay.lock"
    BY <1>7, <1>b DEF PayLock, SessionState
  <2>2. Become(s, r) /\ UNCHANGED rows
    BY <1>7 DEF PayLock
  <2> HIDE DEF r
  <2>3. Carry(r)
    BY <1>b, <2>1 DEF Carry, Posting
  <2> QED BY <1>a, <2>2, <2>3, CarryOn
<1>8. ASSUME PayRefuse(s) \/ PayDuplicate(s)
      PROVE  Effect(FreeRows(s)) /\ Carry(sess[s])'
  <2>1. End(s) /\ UNCHANGED rows
    BY <1>8 DEF PayRefuse, PayDuplicate
  <2> QED BY <1>a, <2>1, CarryEnd DEF Effect, rows
<1>9. ASSUME GatewayLockInvoice(s)
      PROVE  Effect(FreeRows(s)) /\ Carry(sess[s])'
  <2> DEFINE r == [sess[s] EXCEPT
            !.pc = "gw.post", !.full = Outstanding(sess[s].inv) <= sess[s].amt,
            !.locks = @ \cup {InvoiceRow(sess[s].inv)}]
  <2>1. /\ r.pc = "gw.post"
        /\ r.amt = sess[s].amt
        /\ r.key = sess[s].key
        /\ r.txn = sess[s].txn
        /\ sess[s].pc = "gw.invoice"
    BY <1>9, <1>b DEF GatewayLockInvoice, SessionState
  <2>2. Become(s, r) /\ UNCHANGED rows
    BY <1>9 DEF GatewayLockInvoice
  <2> HIDE DEF r
  <2>3. Carry(r)
    BY <1>b, <2>1 DEF Carry, Posting
  <2> QED BY <1>a, <2>2, <2>3, CarryOn
<1>10. ASSUME GatewayReject(s)
       PROVE  Effect(FreeRows(s)) /\ Carry(sess[s])'
  <2>1. sess[s].txn \in Txn /\ Failing(sess[s].txn) /\ End(s)
    BY <1>10, <1>b DEF GatewayReject, AimedAt, Promise, GatewayPromise, Failing
  <2> QED BY <1>a, <2>1, CarryEnd DEF Effect
<1>11. ASSUME NEW p \in Payment, PayPost(s, p)
       PROVE  Effect(FreeRows(s)) /\ Carry(sess[s])'
  <2>1. /\ sess[s].inv \in Invoice
        /\ sess[s].amt \in Amount
        /\ sess[s].key \in Key \cup Txn \cup {None}
    BY <1>11, <1>b DEF PayPost, AimedAt, Carry, Posting, SessionState
  <2>2. Receiving(p, sess[s].amt, sess[s].key) /\ UNCHANGED gateway /\ End(s)
    BY <1>11, <2>1 DEF PayPost, Receiving
  <2> QED BY <1>a, <2>1, <2>2, CarryEnd DEF Effect
<1>12. ASSUME NEW p \in Payment, GatewayPost(s, p) \/ GatewayLink(s, p)
       PROVE  Effect(FreeRows(s)) /\ Carry(sess[s])'
  <2>1. /\ sess[s].inv \in Invoice
        /\ sess[s].txn \in Txn
        /\ sess[s].amt \in Amount
        /\ sess[s].key = GatewayIdempotencyKey(sess[s].txn)
        /\ gateway[sess[s].txn].status = "pending"
    BY <1>12, <1>b DEF GatewayPost, GatewayLink, AimedAt, Carry, Posting,
                       Promise, GatewayPromise
  <2>2. Settling(sess[s].txn, p) /\ End(s)
    BY <1>12, <2>1 DEF GatewayPost, GatewayLink, Settling
  <2>3. Posts(sess[s].txn, p) \/ Links(sess[s].txn, p)
    BY <1>12, <2>1, <2>2 DEF GatewayPost, GatewayLink, Posts, Links, Receiving
  <2> QED BY <1>a, <2>1, <2>2, <2>3, CarryEnd DEF Effect
<1>13. ASSUME RefundPost(s)
       PROVE  Effect(FreeRows(s)) /\ Carry(sess[s])'
  <2>1. /\ sess[s].pay \in Recorded
        /\ PayRow(sess[s].pay) \in FreeRows(s)
        /\ sess[s].amt \in Amount
        /\ sess[s].key \in Key \cup Txn \cup {None}
        /\ sess[s].key \notin payments[sess[s].pay].refundKeys
        /\ payments[sess[s].pay].refunded + sess[s].amt
                <= payments[sess[s].pay].amount
    BY <1>13, <1>b DEF RefundPost, Promise, RefundPromise, Carry, SessionState
  <2>2. /\ payments[sess[s].pay].refunded \in Nat
        /\ payments[sess[s].pay].amount \in Nat
        /\ sess[s].amt \in Nat
        /\ sess[s].pay \in Payment
    BY <1>a, <2>1, AmountAssumption DEF RowsOK, PaymentRow, Recorded
  <2>3. sess[s].amt <= payments[sess[s].pay].amount
                            - payments[sess[s].pay].refunded
    BY <2>1, <2>2
  <2>4. Refunding(sess[s].pay, sess[s].amt, sess[s].key, FreeRows(s)) /\ End(s)
    BY <1>13, <2>1, <2>3 DEF RefundPost, Refunding
  <2> QED BY <1>a, <2>1, <2>2, <2>4, CarryEnd DEF Effect
<1> QED BY <1>1, <1>2, <1>3, <1>4, <1>5, <1>6, <1>7, <1>8, <1>9, <1>10, <1>11,
           <1>12, <1>13 DEF PaymentBegin, PaymentStep

\* The booking RPCs touch neither payments nor transactions.
LEMMA BookingEffect ==
    ASSUME Once, NEW s \in Session, BookingBegin(s) \/ BookingStep(s)
    PROVE  Effect(FreeRows(s)) /\ Carry(sess[s])'
<1>a. Shape /\ sess[s] \in SessionState
    BY DEF Once, Safe, Shape
<1>1. UNCHANGED <<payments, gateway>>
    BY DEF BookingBegin, VoidRead, CancelBook, ExpireBegin, RescheduleBook,
           EnsureQr, ScanCredential, MarkNoShow, MarkCompleted, AutoComplete,
           Mark, BookingStep, VoidWrite, CancelQr, CancelInvoice, ExpireBook,
           ExpireTake, ExpireVoid, ExpireCommit, ReschedulePrice, RescheduleQr,
           EnsureMint, ScanBooking, rows
<1> SUFFICES Carry(sess[s])'
    BY <1>1 DEF Effect
<1>2. ASSUME NEW r, Become(s, r), r.pc \notin Posting \cup {"refund.post"}
      PROVE  Carry(sess[s])'
    BY <1>a, <1>2, CarryNothing DEF Become, Shape
<1>3. CASE BookingBegin(s)
  <2>1. CASE UNCHANGED sess /\ IsIdle(s)
    BY <2>1 DEF IsIdle, Carry, Posting
  <2>2. ASSUME NEW i \in Invoice,
               VoidRead(s, i) \/ CancelBook(s, i) \/ EnsureQr(s, i)
        PROVE  Carry(sess[s])'
    BY <1>2, <2>2 DEF VoidRead, CancelBook, EnsureQr, Idle, Posting
  <2>3. CASE ExpireBegin(s)
    BY <1>2, <2>3 DEF ExpireBegin, Idle, Posting
  <2>4. ASSUME NEW i \in Invoice, NEW price \in Price,
               RescheduleBook(s, i, price)
        PROVE  Carry(sess[s])'
    BY <1>2, <2>4 DEF RescheduleBook, Idle, Posting
  <2>5. ASSUME NEW c \in Credential, ScanCredential(s, c)
        PROVE  Carry(sess[s])'
    BY <1>2, <2>5 DEF ScanCredential, Idle, Posting
  <2>6. ASSUME NEW i \in Invoice,
               MarkNoShow(s, i) \/ MarkCompleted(s, i) \/ AutoComplete(s, i)
        PROVE  UNCHANGED sess /\ IsIdle(s)
    BY <2>6 DEF MarkNoShow, MarkCompleted, AutoComplete, Mark
  <2> QED BY <1>3, <2>1, <2>2, <2>3, <2>4, <2>5, <2>6 DEF BookingBegin
<1>4. CASE BookingStep(s)
  <2>1. CASE End(s)
    BY <1>a, <2>1, CarryEnd
  <2>2. CASE CancelQr(s) \/ ReschedulePrice(s) \/ ExpireVoid(s)
    BY <1>a, <1>2, <2>2 DEF CancelQr, ReschedulePrice, ExpireVoid, Posting,
                            SessionState
  <2>3. ASSUME NEW i \in Invoice, ExpireBook(s, i)
        PROVE  Carry(sess[s])'
    <3> DEFINE still == booking[i] = "pending_payment"
               r == [sess[s] EXCEPT
            !.todo = sess[s].todo \ {i},
            !.inv = i,
            !.pc = IF still /\ allocated[i] = 0 THEN "expire.void" ELSE @,
            !.locks = IF still THEN @ \cup {BookingRow(i)} ELSE @,
            !.cancels = IF still THEN @ \cup {i} ELSE @]
    <3>1. Become(s, r) /\ sess[s].pc = "expire.book"
      BY <2>3 DEF ExpireBook, ExpireTake
    <3>2. r.pc \in {"expire.book", "expire.void"}
      BY <1>a, <3>1 DEF SessionState
    <3> HIDE DEF r
    <3> QED BY <1>2, <3>1, <3>2 DEF Posting
  <2> QED BY <1>4, <2>1, <2>2, <2>3
          DEF BookingStep, VoidWrite, CancelInvoice, ExpireCommit,
              RescheduleQr, EnsureMint, ScanBooking
<1> QED BY <1>3, <1>4

\* Issuing an invoice may record a payment on it.
LEMMA IssuingEffect ==
    ASSUME Issuing
    PROVE  Effect({}) /\ UNCHANGED sess
<1>1. ASSUME NEW i \in Invoice, NEW price \in Price, NEW p \in Payment,
             NEW amt \in Amount, NEW c \in Credential,
             CreateBookingPaid(i, price, p, amt, c)
      PROVE  Effect({}) /\ UNCHANGED sess
  <2>1. Receiving(p, amt, None) /\ UNCHANGED <<gateway, sess>>
    BY <1>1 DEF CreateBookingPaid, Receiving
  <2> QED BY <2>1 DEF Effect
<1>2. ASSUME NEW i \in Invoice, NEW price \in Price, NEW p \in Payment,
             NEW amt \in Amount, NEW key \in Key \cup {None},
             CreateShopSale(i, price, p, amt, key)
      PROVE  Effect({}) /\ UNCHANGED sess
  <2>1. Receiving(p, amt, key) /\ UNCHANGED <<gateway, sess>>
    BY <1>2 DEF CreateShopSale, Receiving
  <2> QED BY <2>1 DEF Effect
<1>3. CASE UNCHANGED <<payments, gateway, sess>>
    BY <1>3 DEF Effect
<1> QED BY <1>1, <1>2, <1>3 DEF Issuing, CreateBookingUnpaid, SellPlan,
           ActivateSubscription, CreateShopSaleUnpaid, HoldExpires

\* Every step keeps the rows and the sessions right, by one of the effects.
LEMMA OnceStep ==
    ASSUME Once, [Next]_vars
    PROVE  Once' /\ \E free : Effect(free)
<1>a. /\ Safe
      /\ Safe'
      /\ Shape
      /\ Shape'
      /\ RowsSafe
      /\ Posted
      /\ Carries
    BY SafeStep DEF Once, Safe
\* A session that moves leaves the others to carry what they did.
<1>1. ASSUME NEW s \in Session, Effect(FreeRows(s)), Carry(sess[s])',
             \A t \in Session \ {s} : sess'[t] = sess[t]
      PROVE  Once' /\ \E free : Effect(free)
  <2>1. Posted'
    BY <1>a, <1>1, PostedKept
  <2>2. ASSUME NEW t \in Session, t # s PROVE Carry(sess[t])'
    BY <1>a, <1>1, <2>2, OthersHold, CarryKept DEF Carries
  <2> QED BY <1>a, <1>1, <2>1, <2>2 DEF Once, Carries
<1>2. ASSUME Effect({}), UNCHANGED sess
      PROVE  Once' /\ \E free : Effect(free)
  <2>1. Posted'
    BY <1>a, <1>2, PostedKept
  <2>2. ASSUME NEW t \in Session PROVE Carry(sess[t])'
    <3>1. sess'[t] = sess[t] /\ sess[t].locks \cap {} = {} /\ Carry(sess[t])
      BY <1>a, <1>2 DEF Carries
    <3> QED BY <1>a, <1>2, <3>1, CarryKept
  <2> QED BY <1>a, <1>2, <2>1, <2>2 DEF Once, Carries
<1>3. ASSUME NEW s \in Session,
             PaymentBegin(s) \/ BookingBegin(s) \/ PaymentStep(s)
                \/ BookingStep(s) \/ Rollback(s)
      PROVE  Once' /\ \E free : Effect(free)
  <2>1. \A t \in Session \ {s} : sess'[t] = sess[t]
    BY <1>a, <1>3, OthersWait
  <2>2. CASE Rollback(s)
    <3>1. Effect(FreeRows(s)) /\ Carry(sess[s])'
      BY <1>a, <2>2, CarryEnd DEF Rollback, rows, Effect
    <3> QED BY <1>1, <2>1, <3>1
  <2> QED BY <1>1, <1>3, <2>1, <2>2, PaymentEffect, BookingEffect
<1>4. ASSUME NEW i \in Invoice, NEW t \in Txn, NEW amt \in Amount,
             NEW key \in Key \cup {None}, StartCheckout(i, t, amt, key)
      PROVE  Once' /\ \E free : Effect(free)
  <2>1. Staging(t) /\ UNCHANGED sess
    BY <1>4 DEF StartCheckout, Staging
  <2> QED BY <1>2, <2>1 DEF Effect
<1>5. CASE UNCHANGED vars
    BY <1>2, <1>5 DEF vars, rows, Effect
<1>6. CASE Issuing
    BY <1>2, <1>6, IssuingEffect
<1> QED BY <1>3, <1>4, <1>5, <1>6 DEF Next, Step, DeadlockVictim, Disconnect

\* There is no payment and no transaction at first.
LEMMA OnceInit == Init => Once
<1> SUFFICES ASSUME Init PROVE Once
    OBVIOUS
<1>1. Safe
    BY SafeInit
<1>2. Recorded = {}
    BY DEF Init, Recorded, NoPayment
<1>3. Posted
    BY <1>2 DEF Init, Posted, KeyedOnce, Worthy, KeysApart, TxnPosted, TxnOK,
                NoTxn
<1>4. Carries
    BY DEF Init, Carries, Carry, Idle, Posting
<1> QED BY <1>1, <1>3, <1>4 DEF Once

\* The invariant holds in every reachable state.
LEMMA OnceInvariant == Spec => []Once
<1>1. Init => Once
    BY OnceInit
<1>2. Once /\ [Next]_vars => Once'
    BY OnceStep
<1> QED BY <1>1, <1>2, PTL DEF Spec

\* One transaction, one payment, under the transaction's own key, however
\* often and however concurrently confirmations, staff payments with the same
\* key and failure reports arrive (record_gateway_payment_service:56-80,
\* 193-230).
THEOREM PostsOnce == Spec => []GatewayPostsOnce
<1>1. ASSUME Once PROVE GatewayPostsOnce
  <2> SUFFICES ASSUME NEW t \in Txn
               PROVE  /\ gateway[t].status = "succeeded"
                            <=> gateway[t].payment # None
                      /\ gateway[t].payment # None =>
                          /\ payments[gateway[t].payment].key
                                = GatewayIdempotencyKey(t)
                          /\ \A u \in Txn \ {t} :
                                gateway[u].payment # gateway[t].payment
                      /\ Cardinality(PaidWith(GatewayIdempotencyKey(t))) <= 1
    BY DEF GatewayPostsOnce
  <2>1. Shape /\ Posted
    BY <1>1 DEF Once, Safe
  <2>2. TxnOK(t)
    BY <2>1 DEF Posted, TxnPosted
  <2>3. ASSUME gateway[t].payment # None, NEW u \in Txn, u # t
        PROVE  gateway[u].payment # gateway[t].payment
    <3>1. TxnOK(u)
      BY <2>1 DEF Posted, TxnPosted
    <3>2. GatewayIdempotencyKey(u) # GatewayIdempotencyKey(t)
      BY <2>1, <2>3, OwnKeys DEF Posted
    <3> QED BY <2>2, <2>3, <3>1, <3>2 DEF TxnOK
  <2>4. Cardinality(PaidWith(GatewayIdempotencyKey(t))) <= 1
    <3> DEFINE paid == PaidWith(GatewayIdempotencyKey(t))
    <3>1. CASE paid = {}
      BY <3>1, FS_EmptySet
    <3>2. ASSUME NEW p \in paid PROVE Cardinality(paid) = 1
      <4>1. paid = {p}
        BY <2>1, <3>2 DEF PaidWith, Posted, KeyedOnce
      <4> QED BY <4>1, FS_Singleton
    <3> HIDE DEF paid
    <3>3. Cardinality(paid) <= 1
      BY <3>1, <3>2, FS_EmptySet
    <3> QED BY <3>3 DEF paid
  <2> QED BY <2>2, <2>3, <2>4 DEF TxnOK
<1> QED BY <1>1, OnceInvariant, PTL

-----------------------------------------------------------------------------
(* The ledger implements the contract.                                     *)

\* What the functions outside see of a transaction.
Worth(t) == IF PaidBy(t) = None THEN 0 ELSE payments[PaidBy(t)].amount
Given(t) == IF PaidBy(t) = None THEN 0 ELSE payments[PaidBy(t)].refunded
Keys(t)  == IF PaidBy(t) = None THEN {} ELSE payments[PaidBy(t)].refundKeys

\* A transaction whose row and payment stay looks as before.
LEMMA Looks ==
    ASSUME TxnPosted, NEW t \in Txn,
           gateway'[t].payment = gateway[t].payment,
           \A p \in Recorded : payments'[p] = payments[p]
    PROVE  Worth(t)' = Worth(t) /\ Given(t)' = Given(t) /\ Keys(t)' = Keys(t)
BY DEF TxnPosted, TxnOK, Worth, Given, Keys, PaidBy

\* Every step is a step of the contract, or one its user does not see.
LEMMA ContractStep ==
    ASSUME Once, Shape', NEW free, Effect(free)
    PROVE  [Contract!Next]_(Contract!contract)
<1>0. /\ gateway \in [Txn -> TxnRow]
      /\ payments \in [Payment -> PaymentRow]
      /\ \A t \in Txn : gateway[t] \in TxnRow
      /\ TxnPosted
      /\ KeysApart
      /\ Worthy
      /\ RefundsCovered
      /\ Shape
    BY DEF Once, Safe, Shape, RowsOK, Posted, RowsSafe
\* The step in terms of the contract's variables.
<1> DEFINE Status(t) == gateway[t].status
           Same(t) == /\ Worth(t)' = Worth(t)
                      /\ Given(t)' = Given(t)
                      /\ Keys(t)' = Keys(t)
<1>s. ASSUME \A t \in Txn : Status(t)' = Status(t) /\ Same(t)
      PROVE  UNCHANGED Contract!contract
    BY <1>s DEF Contract!contract, Worth, Given, Keys
<1>1. CASE UNCHANGED <<payments, gateway>>
  <2>1. \A t \in Txn : Status(t)' = Status(t) /\ Same(t)
    BY <1>0, <1>1, Looks
  <2> QED BY <1>s, <2>1
<1>2. ASSUME NEW t \in Txn, Staging(t) \/ Failing(t)
      PROVE  Contract!Next
  <2>1. /\ \A u \in Txn \ {t} : gateway'[u] = gateway[u]
        /\ gateway'[t].payment = gateway[t].payment
        /\ \/ gateway[t].status = "none" /\ gateway'[t].status = "pending"
           \/ gateway[t].status = "pending" /\ gateway'[t].status = "failed"
        /\ UNCHANGED payments
    BY <1>0, <1>2 DEF Staging, Failing, FailTxn, TxnRow, TxnPosted, TxnOK
  <2>2. \A u \in Txn : Same(u)
    BY <1>0, <2>1, Looks
  <2>3. Contract!Stage(t) \/ Contract!Fail(t)
    BY <2>1, <2>2 DEF Contract!Stage, Contract!Fail, Worth, Given, Keys
  <2> QED BY <2>3 DEF Contract!Next
<1>3. ASSUME NEW p \in Payment, NEW amt, NEW key, Receiving(p, amt, key),
             UNCHANGED gateway
      PROVE  UNCHANGED Contract!contract
  <2>1. \A q \in Recorded : payments'[q] = payments[q]
    BY <1>0, <1>3, Received DEF Recorded
  <2>2. \A t \in Txn : Status(t)' = Status(t) /\ Same(t)
    BY <1>0, <1>3, <2>1, Looks
  <2> QED BY <1>s, <2>2
\* A transaction is settled: the others look as before.
<1>4. ASSUME NEW t \in Txn, NEW p \in Payment, Settling(t, p),
             \A q \in Recorded : payments'[q] = payments[q]
      PROVE  /\ \A u \in Txn \ {t} : Status(u)' = Status(u) /\ Same(u)
             /\ Status(t) = "pending" /\ Status(t)' = "succeeded"
             /\ Worth(t) = 0 /\ Given(t) = 0 /\ Keys(t) = {}
             /\ Worth(t)' = payments'[p].amount
             /\ Given(t)' = payments'[p].refunded
             /\ Keys(t)' = payments'[p].refundKeys
  <2>1. /\ \A u \in Txn \ {t} : gateway'[u] = gateway[u]
        /\ gateway[t].status = "pending"
        /\ gateway'[t].status = "succeeded"
        /\ gateway'[t].payment = p
    BY <1>0, <1>4, Settled DEF Settling, TxnRow
  <2>2. gateway[t].payment = None
    BY <1>0, <2>1 DEF TxnPosted, TxnOK
  <2>3. p # None
    BY NoneAssumption
  <2> QED BY <1>0, <1>4, <2>1, <2>2, <2>3, Looks DEF Worth, Given, Keys, PaidBy
<1>5. ASSUME NEW t \in Txn, NEW p \in Payment, Posts(t, p)
      PROVE  Contract!Next
  <2>1. PICK amt \in Amount : Receiving(p, amt, GatewayIdempotencyKey(t))
    BY <1>5 DEF Posts
  <2>2. /\ \A q \in Recorded : payments'[q] = payments[q]
        /\ payments'[p].amount = amt
        /\ payments'[p].refunded = 0
        /\ payments'[p].refundKeys = {}
    BY <1>0, <2>1, Received DEF Recorded
  <2>3. /\ \A u \in Txn \ {t} : Status(u)' = Status(u) /\ Same(u)
        /\ Status(t) = "pending" /\ Status(t)' = "succeeded"
        /\ Given(t)' = Given(t) /\ Keys(t)' = Keys(t)
        /\ Worth(t)' = amt
    BY <1>4, <1>5, <2>2 DEF Posts
  <2>4. Contract!Post(t, amt)
    BY <2>3 DEF Contract!Post, Worth, Given, Keys
  <2> QED BY <2>4 DEF Contract!Next
<1>6. ASSUME NEW t \in Txn, NEW p \in Payment, Links(t, p)
      PROVE  Contract!Next
  <2>1. UNCHANGED payments /\ p \in Recorded
    BY <1>6 DEF Links, PaidWith
  <2>2. /\ \A u \in Txn \ {t} : Status(u)' = Status(u) /\ Same(u)
        /\ Status(t) = "pending" /\ Status(t)' = "succeeded"
        /\ Worth(t)' = payments[p].amount
        /\ Given(t)' = payments[p].refunded
        /\ Keys(t)' = payments[p].refundKeys
    BY <1>4, <1>6, <2>1 DEF Links
  <2>3. /\ payments[p].amount \in Amount
        /\ payments[p].amount \in Nat
        /\ payments[p].refunded \in 0 .. payments[p].amount
        /\ payments[p].refundKeys \in SUBSET (Key \cup Txn)
    BY <1>0, <2>1 DEF Worthy, RefundsCovered, PaymentRow
  <2>4. Contract!Link(t)
    <3> DEFINE given == [u \in Txn |-> Given(u)]
               keys == [u \in Txn |-> Keys(u)]
               worth == [u \in Txn |-> Worth(u)]
    <3>1. /\ worth' = [worth EXCEPT ![t] = payments[p].amount]
          /\ given' = [given EXCEPT ![t] = payments[p].refunded]
          /\ keys' = [keys EXCEPT ![t] = payments[p].refundKeys]
      BY <2>2
    <3>2. \E w \in Amount, used \in SUBSET (Key \cup Txn) : \E g \in 0 .. w :
            /\ worth' = [worth EXCEPT ![t] = w]
            /\ given' = [given EXCEPT ![t] = g]
            /\ keys' = [keys EXCEPT ![t] = used]
      BY <2>3, <3>1
    <3> QED BY <2>2, <3>2 DEF Contract!Link, Worth, Given, Keys
  <2> QED BY <2>4 DEF Contract!Next
<1>7. ASSUME NEW p \in Payment, NEW amt \in Amount,
             NEW key \in Key \cup Txn \cup {None},
             Refunding(p, amt, key, free)
      PROVE  [Contract!Next]_(Contract!contract)
  <2>1. /\ UNCHANGED gateway
        /\ \A q \in Payment \ {p} : payments'[q] = payments[q]
        /\ payments'[p].amount = payments[p].amount
        /\ payments'[p].refunded = payments[p].refunded + amt
        /\ payments'[p].refundKeys
                = payments[p].refundKeys \cup ({key} \ {None})
        /\ key \notin payments[p].refundKeys
        /\ amt <= payments[p].amount - payments[p].refunded
    BY <1>0, <1>7 DEF Refunding, PaymentRow
  <2>2. ASSUME NEW t \in Txn, gateway[t].payment # p
        PROVE  Status(t)' = Status(t) /\ Same(t)
    BY <1>0, <2>1, <2>2
       DEF TxnPosted, TxnOK, Recorded, Worth, Given, Keys, PaidBy
  <2>3. CASE \A t \in Txn : gateway[t].payment # p
    BY <1>s, <2>2, <2>3
  <2>4. ASSUME NEW t \in Txn, gateway[t].payment = p
        PROVE  Contract!Next
    <3>1. p # None /\ gateway[t].status = "succeeded"
      BY <1>0, <2>4, NoneAssumption DEF TxnPosted, TxnOK
    <3>2. \A u \in Txn \ {t} : gateway[u].payment # p
      BY <1>0, <2>4, <3>1, OwnKeys DEF TxnPosted, TxnOK
    <3>3. \A u \in Txn \ {t} : Status(u)' = Status(u) /\ Same(u)
      BY <2>2, <3>2
    <3>4. /\ Status(t)' = Status(t) /\ Status(t) = "succeeded"
          /\ Worth(t)' = Worth(t)
          /\ Given(t)' = Given(t) + amt
          /\ Keys(t)' = Keys(t) \cup ({key} \ {None})
          /\ key \notin Keys(t)
          /\ amt <= Worth(t) - Given(t)
      BY <2>1, <2>4, <3>1 DEF Worth, Given, Keys, PaidBy
    <3>5. Contract!Refund(t, key, amt)
      BY <3>3, <3>4 DEF Contract!Refund, Worth, Given, Keys
    <3> QED BY <3>5 DEF Contract!Next
  <2> QED BY <2>3, <2>4
<1> QED BY <1>1, <1>2, <1>3, <1>5, <1>6, <1>7 DEF Effect

\* All the payment functions see of the ledger is GatewayContract: however
\* staff, confirmations, cancellations and refunds interleave, a transaction
\* is settled once, and the refunds of its payment use a key once and fit
\* what is left of it.
THEOREM LedgerKeepsContract == Spec => ImplementsContract
<1>1. Init => Contract!Init
    BY DEF Init, Contract!Init, NoTxn, PaidBy
<1>2. Once /\ [Next]_vars => [Contract!Next]_(Contract!contract)
  <2> SUFFICES ASSUME Once, [Next]_vars
               PROVE  [Contract!Next]_(Contract!contract)
    OBVIOUS
  <2>1. Once' /\ \E free : Effect(free)
    BY OnceStep
  <2>2. Shape'
    BY <2>1 DEF Once, Safe
  <2> QED BY <2>1, <2>2, ContractStep
<1> QED BY <1>1, <1>2, OnceInvariant, PTL
        DEF Spec, ImplementsContract, Contract!Spec

-----------------------------------------------------------------------------
(* The steps that write what else the properties look at.                  *)

seen == <<invoiceStatus, money, booking, qr, plan, payments>>

Collects(s) == \E p \in Payment : PayPost(s, p) \/ GatewayPost(s, p)

Marks(s) ==
    \E i \in Invoice :
        MarkNoShow(s, i) \/ MarkCompleted(s, i) \/ AutoComplete(s, i)

\* A booking or its invoice comes to an end.
Ends(s) == VoidWrite(s) \/ CancelInvoice(s) \/ ExpireCommit(s) \/ Marks(s)

\* Only these steps write what the properties below look at.
LEMMA Writers ==
    ASSUME [Next]_vars
    PROVE  \/ UNCHANGED seen
           \/ Issuing
           \/ \E s \in Session :
                \/ Collects(s)
                \/ RefundPost(s)
                \/ Ends(s)
                \/ \E c \in Credential : RescheduleQr(s, c)
                \/ \E c \in Credential : EnsureMint(s, c)
                \/ ScanBooking(s)
<1>1. CASE UNCHANGED vars
    BY <1>1 DEF vars, rows, seen
<1>2. ASSUME NEW i \in Invoice, NEW t \in Txn, NEW amt \in Amount,
             NEW key \in Key \cup {None}, StartCheckout(i, t, amt, key)
      PROVE  UNCHANGED seen
    BY <1>2 DEF StartCheckout, seen
<1>3. ASSUME NEW s \in Session, PaymentBegin(s) \/ Rollback(s)
      PROVE  UNCHANGED seen
    BY <1>3 DEF PaymentBegin, PayBegin, MarkFailed, GatewayMismatch,
        GatewayLock, CreateRefund, CreateGatewayRefund, ReturnShopSale,
        RefundLock, Rollback, rows, seen
<1>4. ASSUME NEW s \in Session, PaymentStep(s)
      PROVE  UNCHANGED seen \/ Collects(s) \/ RefundPost(s)
    BY <1>4 DEF PaymentStep, PayLock, PayRefuse, PayDuplicate,
        GatewayLockInvoice, GatewayReject, GatewayLink, Collects, rows, seen
<1>5. ASSUME NEW s \in Session, BookingBegin(s)
      PROVE  UNCHANGED seen \/ Ends(s)
    BY <1>5 DEF BookingBegin, VoidRead, CancelBook, ExpireBegin,
        RescheduleBook, EnsureQr, ScanCredential, Ends, Marks, rows, seen
<1>6. ASSUME NEW s \in Session, BookingStep(s)
      PROVE  \/ UNCHANGED seen
             \/ Ends(s)
             \/ \E c \in Credential : RescheduleQr(s, c)
             \/ \E c \in Credential : EnsureMint(s, c)
             \/ ScanBooking(s)
    BY <1>6 DEF BookingStep, CancelQr, ExpireBook, ExpireTake, ExpireVoid,
        ReschedulePrice, Ends, rows, seen
<1> QED BY <1>1, <1>2, <1>3, <1>4, <1>5, <1>6
        DEF Next, Step, DeadlockVictim, Disconnect

-----------------------------------------------------------------------------
(* Sums.  f summed over the set S is x when S can be listed without        *)
(* repetition as e[1], .., e[n] and a[k], what the first k give together,  *)
(* ends at x.                                                              *)

Lists(S, n, e) ==
    /\ e \in [1 .. n -> S]
    /\ \A p \in S : \E k \in 1 .. n : e[k] = p
    /\ \A j, k \in 1 .. n : e[j] = e[k] => j = k

AddsUp(f, n, e, a) ==
    /\ a \in [0 .. n -> Nat]
    /\ a[0] = 0
    /\ \A k \in 1 .. n : a[k] = a[k - 1] + f[e[k]]
    /\ \A j, k \in 0 .. n : j <= k => a[j] <= a[k]

SumsTo(S, f, x) ==
    \E n, e, a :
        n \in Nat /\ Lists(S, n, e) /\ AddsUp(f, n, e, a) /\ a[n] = x

\* Nothing sums to nothing.
LEMMA SumEmpty == ASSUME NEW f PROVE SumsTo({}, f, 0)
<1> DEFINE e == [k \in 1 .. 0 |-> k]
           a == [k \in 0 .. 0 |-> 0]
<1>1. Lists({}, 0, e)
    BY DEF Lists
<1>2. AddsUp(f, 0, e, a) /\ a[0] = 0
    BY DEF AddsUp
<1> QED BY <1>1, <1>2 DEF SumsTo

\* A sum is a natural number no less than any of its parts.
LEMMA SumMember ==
    ASSUME NEW S, NEW f, NEW x, SumsTo(S, f, x), \A p \in S : f[p] \in Nat
    PROVE  x \in Nat /\ \A p \in S : f[p] <= x
<1>1. PICK n, e, a :
        n \in Nat /\ Lists(S, n, e) /\ AddsUp(f, n, e, a) /\ a[n] = x
    BY DEF SumsTo
<1>2. x \in Nat
    BY <1>1 DEF AddsUp
<1>3. ASSUME NEW p \in S PROVE f[p] <= x
  <2>1. PICK k \in 1 .. n : e[k] = p
    BY <1>1 DEF Lists
  <2>2. /\ a[k] = a[k - 1] + f[p]
        /\ a[k - 1] \in Nat
        /\ a[k] \in Nat
        /\ a[k] <= a[n]
    BY <1>1, <2>1 DEF AddsUp
  <2>3. f[p] \in Nat
    OBVIOUS
  <2> QED BY <1>1, <1>2, <2>2, <2>3
<1> QED BY <1>2, <1>3

\* Only the values on the set count.
LEMMA SumSame ==
    ASSUME NEW S, NEW f, NEW g, NEW x, SumsTo(S, f, x),
           \A p \in S : g[p] = f[p]
    PROVE  SumsTo(S, g, x)
<1>1. PICK n, e, a :
        n \in Nat /\ Lists(S, n, e) /\ AddsUp(f, n, e, a) /\ a[n] = x
    BY DEF SumsTo
<1>2. \A k \in 1 .. n : g[e[k]] = f[e[k]]
    BY <1>1 DEF Lists
<1>3. AddsUp(g, n, e, a)
    BY <1>1, <1>2 DEF AddsUp
<1> QED BY <1>1, <1>3 DEF SumsTo

\* A new element adds its value.
LEMMA SumAdd ==
    ASSUME NEW S, NEW f, NEW x, SumsTo(S, f, x), NEW p, p \notin S,
           NEW v \in Nat, f[p] = v
    PROVE  SumsTo(S \cup {p}, f, x + v)
<1>1. PICK n, e, a :
        n \in Nat /\ Lists(S, n, e) /\ AddsUp(f, n, e, a) /\ a[n] = x
    BY DEF SumsTo
<1> DEFINE T == S \cup {p}
           d == [k \in 1 .. n + 1 |-> IF k = n + 1 THEN p ELSE e[k]]
           b == [k \in 0 .. n + 1 |-> IF k = n + 1 THEN x + v ELSE a[k]]
<1>2. /\ n + 1 \in Nat
      /\ \A k \in 1 .. n : k \in 1 .. n + 1 /\ k # n + 1 /\ e[k] \in S
      /\ \A k \in 1 .. n + 1 : k = n + 1 \/ k \in 1 .. n
      /\ n + 1 \in 1 .. n + 1
    BY <1>1 DEF Lists
<1>3. Lists(T, n + 1, d)
  <2>1. d \in [1 .. n + 1 -> T]
    BY <1>2
  <2>2. \A q \in T : \E k \in 1 .. n + 1 : d[k] = q
    BY <1>1, <1>2 DEF Lists
  <2>3. \A j, k \in 1 .. n + 1 : d[j] = d[k] => j = k
    BY <1>1, <1>2 DEF Lists
  <2> QED BY <2>1, <2>2, <2>3 DEF Lists
<1>4. AddsUp(f, n + 1, d, b)
  <2>1. /\ x \in Nat
        /\ \A k \in 0 .. n : a[k] \in Nat /\ a[k] <= x
    BY <1>1 DEF AddsUp
  <2>2. b \in [0 .. n + 1 -> Nat] /\ b[0] = 0
    BY <1>1, <2>1 DEF AddsUp
  <2>3. ASSUME NEW k \in 1 .. n + 1
        PROVE  b[k] = b[k - 1] + f[d[k]]
    BY <1>1, <1>2, <2>1 DEF AddsUp
  <2>4. ASSUME NEW j \in 0 .. n + 1, NEW k \in 0 .. n + 1, j <= k
        PROVE  b[j] <= b[k]
    <3>1. CASE k = n + 1
      BY <1>1, <2>1, <2>4, <3>1
    <3>2. CASE k # n + 1
      BY <1>1, <2>4, <3>2 DEF AddsUp
    <3> QED BY <3>1, <3>2
  <2> QED BY <2>2, <2>3, <2>4 DEF AddsUp
<1>5. b[n + 1] = x + v
    BY <1>1
<1> HIDE DEF b, d
<1> QED BY <1>2, <1>3, <1>4, <1>5 DEF SumsTo

\* A value that changes changes the sum by as much.
LEMMA SumChange ==
    ASSUME NEW S, NEW f, NEW g, NEW x, SumsTo(S, f, x), NEW p \in S,
           \A q \in S : f[q] \in Nat,
           NEW u \in Nat, NEW v \in Nat, f[p] = u, g[p] = v,
           \A q \in S \ {p} : g[q] = f[q]
    PROVE  SumsTo(S, g, x - u + v)
<1>1. PICK n, e, a :
        n \in Nat /\ Lists(S, n, e) /\ AddsUp(f, n, e, a) /\ a[n] = x
    BY DEF SumsTo
<1>2. PICK m \in 1 .. n : e[m] = p
    BY <1>1 DEF Lists
<1> DEFINE b == [k \in 0 .. n |-> IF k < m THEN a[k] ELSE a[k] - u + v]
<1>3. /\ n \in Nat
      /\ m \in 1 .. n
      /\ \A k \in 0 .. n : a[k] \in Nat
      /\ a[m] = a[m - 1] + u
      /\ \A k \in 0 .. n : m <= k => a[m] <= a[k]
      /\ \A k \in 0 .. n : k < m => a[k] <= a[m - 1]
  <2>1. n \in Nat /\ m - 1 \in 0 .. n /\ m \in 0 .. n
    BY <1>1
  <2>2. /\ \A k \in 0 .. n : a[k] \in Nat
        /\ \A j, k \in 0 .. n : j <= k => a[j] <= a[k]
        /\ a[m] = a[m - 1] + u
    BY <1>1, <1>2 DEF AddsUp
  <2> QED BY <2>1, <2>2
<1>4. \A k \in 0 .. n : m <= k => u <= a[k]
    BY <1>3
<1>5. AddsUp(g, n, e, b)
  <2>1. b \in [0 .. n -> Nat] /\ b[0] = 0
    BY <1>1, <1>3, <1>4 DEF AddsUp
  <2>2. ASSUME NEW k \in 1 .. n
        PROVE  b[k] = b[k - 1] + g[e[k]]
    <3>1. /\ a[k] = a[k - 1] + f[e[k]]
          /\ e[k] \in S
          /\ k # m => e[k] # p
      BY <1>1, <1>2 DEF AddsUp, Lists
    <3>2. f[e[k]] \in Nat
      BY <3>1
    <3>3. CASE k = m
      BY <1>2, <1>3, <3>1, <3>3
    <3>4. CASE k # m
      <4>1. PICK w \in Nat : f[e[k]] = w /\ g[e[k]] = w
        BY <3>1, <3>2, <3>4
      <4>2. a[k] = a[k - 1] + w
        BY <3>1, <4>1
      <4>3. b[k] = b[k - 1] + w
        <5>1. k \in 0 .. n /\ k - 1 \in 0 .. n
          BY <1>3
        <5>2. CASE k < m
          BY <1>3, <4>2, <5>1, <5>2
        <5>3. CASE m < k
          BY <1>3, <4>2, <5>1, <5>3
        <5> QED BY <1>3, <3>4, <5>2, <5>3
      <4> QED BY <4>1, <4>3
    <3> QED BY <3>3, <3>4
  <2>3. ASSUME NEW j \in 0 .. n, NEW k \in 0 .. n, j <= k
        PROVE  b[j] <= b[k]
    <3>1. a[j] <= a[k]
      BY <1>1, <2>3 DEF AddsUp
    <3>2. CASE k < m \/ m <= j
      BY <1>3, <2>3, <3>1, <3>2
    <3>3. CASE j < m /\ m <= k
      BY <1>3, <3>3
    <3> QED BY <3>2, <3>3
  <2> QED BY <2>1, <2>2, <2>3 DEF AddsUp
<1>6. b[n] = x - u + v
    BY <1>1
<1> HIDE DEF b
<1> QED BY <1>1, <1>5, <1>6 DEF SumsTo

\* A sum without one of its elements.
LEMMA SumWithout ==
    ASSUME NEW S, NEW f, NEW x, SumsTo(S, f, x), \A q \in S : f[q] \in Nat,
           NEW p \in S, NEW u \in Nat, f[p] = u
    PROVE  SumsTo(S \ {p}, f, x - u)
<1>1. PICK n, e, a :
        n \in Nat /\ Lists(S, n, e) /\ AddsUp(f, n, e, a) /\ a[n] = x
    BY DEF SumsTo
<1>2. PICK m \in 1 .. n : e[m] = p
    BY <1>1 DEF Lists
<1> DEFINE d == [k \in 1 .. n - 1 |-> IF k < m THEN e[k] ELSE e[k + 1]]
           b == [k \in 0 .. n - 1 |-> IF k < m THEN a[k] ELSE a[k + 1] - u]
<1>3. /\ n \in Nat
      /\ n - 1 \in Nat
      /\ m \in 1 .. n
      /\ \A k \in 0 .. n : a[k] \in Nat
      /\ a[m] = a[m - 1] + u
      /\ \A j, k \in 0 .. n : j <= k => a[j] <= a[k]
  <2>1. n \in Nat /\ n - 1 \in Nat
    BY <1>1
  <2>2. /\ \A k \in 0 .. n : a[k] \in Nat
        /\ \A j, k \in 0 .. n : j <= k => a[j] <= a[k]
        /\ a[m] = a[m - 1] + u
    BY <1>1, <1>2 DEF AddsUp
  <2> QED BY <2>1, <2>2
<1>4. Lists(S \ {p}, n - 1, d)
  <2>1. /\ \A k \in 1 .. n : e[k] \in S
        /\ \A j, k \in 1 .. n : e[j] = e[k] => j = k
        /\ \A q \in S : \E k \in 1 .. n : e[k] = q
    BY <1>1 DEF Lists
  <2>2. ASSUME NEW k \in 1 .. n - 1
        PROVE  /\ d[k] \in S \ {p}
               /\ \/ k < m /\ d[k] = e[k] /\ k \in 1 .. n
                  \/ k >= m /\ d[k] = e[k + 1] /\ k + 1 \in 1 .. n
    <3>1. k \in 1 .. n /\ k + 1 \in 1 .. n
      BY <1>3, <2>2
    <3>2. CASE k < m
      BY <1>2, <1>3, <2>1, <3>1, <3>2
    <3>3. CASE ~(k < m)
      BY <1>2, <1>3, <2>1, <3>1, <3>3
    <3> QED BY <3>2, <3>3
  <2>3. d \in [1 .. n - 1 -> S \ {p}]
    <3> HIDE DEF d
    <3>1. d = [k \in 1 .. n - 1 |-> d[k]]
      BY DEF d
    <3> QED BY <2>2, <3>1
  <2>4. ASSUME NEW q \in S \ {p} PROVE \E k \in 1 .. n - 1 : d[k] = q
    <3>1. PICK k \in 1 .. n : e[k] = q
      BY <2>1
    <3>2. k # m
      BY <1>2, <3>1
    <3>3. CASE k < m
      <4>1. k \in 1 .. n - 1
        BY <1>3, <3>3
      <4> QED BY <3>1, <3>3, <4>1
    <3>4. CASE k > m
      <4>1. k - 1 \in 1 .. n - 1 /\ ~(k - 1 < m) /\ (k - 1) + 1 = k
        BY <1>3, <3>4
      <4> QED BY <3>1, <4>1
    <3> QED BY <1>3, <3>2, <3>3, <3>4
  <2>5. ASSUME NEW j \in 1 .. n - 1, NEW k \in 1 .. n - 1, d[j] = d[k]
        PROVE  j = k
    <3> HIDE DEF d
    <3>1. \/ j < m /\ d[j] = e[j] /\ j \in 1 .. n
          \/ j >= m /\ d[j] = e[j + 1] /\ j + 1 \in 1 .. n
      BY <2>2
    <3>2. \/ k < m /\ d[k] = e[k] /\ k \in 1 .. n
          \/ k >= m /\ d[k] = e[k + 1] /\ k + 1 \in 1 .. n
      BY <2>2
    <3> QED BY <1>3, <2>1, <2>5, <3>1, <3>2
  <2> QED BY <2>3, <2>4, <2>5 DEF Lists
<1>5. \A k \in 0 .. n : m <= k => u <= a[k]
    BY <1>3
<1>6. AddsUp(f, n - 1, d, b)
  <2>1. b \in [0 .. n - 1 -> Nat] /\ b[0] = 0
    <3>1. ASSUME NEW k \in 0 .. n - 1 PROVE b[k] \in Nat
      <4>1. k \in 0 .. n /\ k + 1 \in 0 .. n
        BY <1>3, <3>1
      <4> QED BY <1>3, <1>5, <4>1
    <3>2. b[0] = 0
      BY <1>1, <1>3 DEF AddsUp
    <3> QED BY <3>1, <3>2
  <2>2. ASSUME NEW k \in 1 .. n - 1
        PROVE  b[k] = b[k - 1] + f[d[k]]
    <3>1. /\ k \in 1 .. n /\ k + 1 \in 1 .. n /\ k - 1 \in 0 .. n - 1
          /\ k \in 0 .. n - 1
          /\ k \in 0 .. n /\ k + 1 \in 0 .. n /\ k - 1 \in 0 .. n
          /\ (k + 1) - 1 = k
      BY <1>3, <2>2
    <3>2. /\ a[k] = a[k - 1] + f[e[k]]
          /\ a[k + 1] = a[k] + f[e[k + 1]]
          /\ e[k] \in S
          /\ e[k + 1] \in S
      BY <1>1, <3>1 DEF AddsUp, Lists
    <3>3. PICK v \in Nat, w \in Nat : f[e[k]] = v /\ f[e[k + 1]] = w
      BY <3>2
    <3>4. CASE k < m
      <4>1. k - 1 < m
        BY <1>3, <3>4
      <4> QED BY <3>1, <3>2, <3>4, <4>1
    <3>5. CASE k = m
      <4>1. b[k - 1] = a[k - 1] /\ b[k] = a[k + 1] - u /\ d[k] = e[k + 1]
        BY <1>3, <3>1, <3>5
      <4>2. a[k] = a[k - 1] + u
        BY <1>3, <3>5
      <4> HIDE DEF b, d
      <4> QED BY <1>3, <3>1, <3>2, <3>3, <4>1, <4>2
    <3>6. CASE k > m
      <4>1. b[k - 1] = a[k] - u /\ b[k] = a[k + 1] - u /\ d[k] = e[k + 1]
        BY <1>3, <3>1, <3>6
      <4> HIDE DEF b, d
      <4> QED BY <1>3, <3>1, <3>2, <3>3, <4>1
    <3> QED BY <1>3, <3>4, <3>5, <3>6
  <2>3. ASSUME NEW j \in 0 .. n - 1, NEW k \in 0 .. n - 1, j <= k
        PROVE  b[j] <= b[k]
    <3>1. /\ j \in 0 .. n /\ k \in 0 .. n
          /\ j + 1 \in 0 .. n /\ k + 1 \in 0 .. n
          /\ m - 1 \in 0 .. n /\ m \in 0 .. n
      BY <1>3, <2>3
    <3>2. CASE k < m
      BY <1>3, <2>3, <3>1, <3>2
    <3>3. CASE ~(j < m)
      BY <1>3, <2>3, <3>1, <3>3
    <3>4. CASE j < m /\ ~(k < m)
      <4>1. a[j] <= a[m - 1] /\ a[m] <= a[k + 1]
        BY <1>3, <3>1, <3>4
      <4>2. b[j] = a[j] /\ b[k] = a[k + 1] - u
        BY <3>4
      <4> HIDE DEF b
      <4> QED BY <1>3, <3>1, <4>1, <4>2
    <3> QED BY <3>2, <3>3, <3>4
  <2> QED BY <2>1, <2>2, <2>3 DEF AddsUp
<1>7. b[n - 1] = x - u
  <2>1. CASE n = m
    BY <1>1, <1>3, <2>1
  <2>2. CASE n # m
    BY <1>1, <1>3, <2>2
  <2> QED BY <2>1, <2>2
<1> HIDE DEF b, d
<1> QED BY <1>3, <1>4, <1>6, <1>7 DEF SumsTo

\* A set of natural numbers that is not empty has a least member.
LEMMA LeastExists ==
    ASSUME NEW N, N \subseteq Nat, N # {}
    PROVE  \E n \in N : \A k \in N : ~(k < n)
<1> DEFINE Less == {p \in Nat \X Nat : p[1] < p[2]}
<1>1. IsWellFoundedOn(Less, Nat)
  <2>1. Less = OpToRel(<, Nat)
    BY Zenon DEF OpToRel
  <2> QED BY <2>1, NatLessThanWellFounded, Zenon
<1>2. PICK n \in N : \A k \in N : ~(<<k, n>> \in Less)
  <2> HIDE DEF Less
  <2> QED BY <1>1, WFMin
<1> QED BY <1>2

\* The values on a set have one sum.  An enumeration that gave a second one,
\* the shortest there is, would give one of the set without its last element.
LEMMA SumUnique ==
    ASSUME NEW S, NEW f, \A q \in S : f[q] \in Nat,
           NEW x, NEW y, SumsTo(S, f, x), SumsTo(S, f, y)
    PROVE  x = y
<1> DEFINE In(T, n, z) == \E e, a :
               n \in Nat /\ Lists(T, n, e) /\ AddsUp(f, n, e, a) /\ a[n] = z
           Differ == {n \in Nat : \E T \in SUBSET S : \E z, w :
                          In(T, n, z) /\ SumsTo(T, f, w) /\ z # w}
<1>1. \A T, z : SumsTo(T, f, z) <=> \E n \in Nat : In(T, n, z)
    BY DEF SumsTo
<1>2. SUFFICES Differ = {}
  <2>1. PICK n \in Nat : In(S, n, x)
    BY <1>1
  <2>2. x # y => n \in Differ
    <3> HIDE DEF In
    <3> QED BY <2>1
  <2> QED BY <2>2
<1>3. SUFFICES ASSUME Differ # {} PROVE FALSE
    OBVIOUS
<1>4. PICK n \in Differ : \A k \in Differ : ~(k < n)
  <2>1. Differ \subseteq Nat
    OBVIOUS
  <2> HIDE DEF Differ
  <2> QED BY <1>3, <2>1, LeastExists
<1>5. PICK T \in SUBSET S :
        \E z, w : In(T, n, z) /\ SumsTo(T, f, w) /\ z # w
  <2> HIDE DEF In
  <2> QED BY <1>4
<1>6. PICK z, w, e, a :
        /\ Lists(T, n, e) /\ AddsUp(f, n, e, a) /\ a[n] = z
        /\ SumsTo(T, f, w) /\ z # w
    BY <1>5
<1>7. n \in Nat /\ \A q \in T : f[q] \in Nat
    BY <1>4, <1>5
<1>8. CASE n = 0
  <2>1. T = {}
    BY <1>6, <1>8 DEF Lists
  <2>2. PICK m, d, b :
          m \in Nat /\ Lists(T, m, d) /\ AddsUp(f, m, d, b) /\ b[m] = w
    BY <1>6 DEF SumsTo
  <2>3. m = 0
    <3>1. m # 0 => 1 \in 1 .. m
      BY <2>2
    <3>2. \A k \in 1 .. m : d[k] \in T
      BY <2>2 DEF Lists
    <3> QED BY <2>1, <3>1, <3>2
  <2> QED BY <1>6, <1>8, <2>2, <2>3 DEF AddsUp
<1>9. CASE n # 0
  <2> DEFINE p == e[n]
             d == [k \in 1 .. n - 1 |-> e[k]]
             b == [k \in 0 .. n - 1 |-> a[k]]
  <2>1. /\ n - 1 \in Nat
        /\ n \in 1 .. n
        /\ \A k \in 1 .. n - 1 : k \in 1 .. n /\ k # n
        /\ \A k \in 0 .. n - 1 : k \in 0 .. n
        /\ \A k \in 1 .. n : k = n \/ k \in 1 .. n - 1
    BY <1>7, <1>9
  <2>2. p \in T /\ f[p] \in Nat
    BY <1>6, <1>7, <2>1 DEF Lists
  <2>3. Lists(T \ {p}, n - 1, d)
    <3>1. d \in [1 .. n - 1 -> T \ {p}]
      BY <1>6, <2>1 DEF Lists
    <3>2. \A q \in T \ {p} : \E k \in 1 .. n - 1 : d[k] = q
      BY <1>6, <2>1 DEF Lists
    <3>3. \A j, k \in 1 .. n - 1 : d[j] = d[k] => j = k
      BY <1>6, <2>1 DEF Lists
    <3> QED BY <3>1, <3>2, <3>3 DEF Lists
  <2>4. AddsUp(f, n - 1, d, b) /\ b[n - 1] = a[n - 1]
    <3>1. b \in [0 .. n - 1 -> Nat] /\ b[0] = 0
      BY <1>6, <1>7, <2>1 DEF AddsUp
    <3>2. ASSUME NEW k \in 1 .. n - 1 PROVE b[k] = b[k - 1] + f[d[k]]
      <4>1. k \in 1 .. n /\ k \in 0 .. n - 1 /\ k - 1 \in 0 .. n - 1
        BY <1>7, <3>2
      <4> QED BY <1>6, <4>1 DEF AddsUp
    <3>3. \A j, k \in 0 .. n - 1 : j <= k => b[j] <= b[k]
      BY <1>6, <2>1 DEF AddsUp
    <3>4. b[n - 1] = a[n - 1]
      BY <2>1
    <3> HIDE DEF b, d
    <3> QED BY <3>1, <3>2, <3>3, <3>4 DEF AddsUp
  <2>5. z = a[n - 1] + f[p]
    BY <1>6, <2>1 DEF AddsUp
  <2>6. SumsTo(T \ {p}, f, w - f[p])
    BY <1>6, <1>7, <2>2, SumWithout
  <2>7. w \in Nat /\ a[n - 1] \in Nat
    <3>1. w \in Nat
      BY <1>6, <1>7, SumMember
    <3>2. a[n - 1] \in Nat
      BY <1>6, <1>7, <2>1 DEF AddsUp
    <3> QED BY <3>1, <3>2
  <2>8. a[n - 1] # w - f[p]
    <3> HIDE DEF p
    <3> QED BY <1>6, <2>2, <2>5, <2>7
  <2>9. In(T \ {p}, n - 1, a[n - 1])
    <3> HIDE DEF p, d, b
    <3> QED BY <2>1, <2>3, <2>4
  <2>10. n - 1 \in Differ
    <3>1. T \ {p} \in SUBSET S
      BY <1>5
    <3> HIDE DEF In, p
    <3> QED BY <2>1, <2>6, <2>8, <2>9, <3>1
  <2> HIDE DEF Differ
  <2> QED BY <1>4, <1>7, <2>10
<1> QED BY <1>8, <1>9

-----------------------------------------------------------------------------
(* The invoice's totals are the sums of its payments' rows.                *)

On(i) == {p \in Recorded : payments[p].invoice = i}

Amounts == [p \in Payment |-> payments[p].amount]
GivenBack == [p \in Payment |-> payments[p].refunded]
Lefts   == [p \in Payment |-> payments[p].amount - payments[p].refunded]

BalancedOn(i) ==
    /\ SumsTo(On(i), Amounts, allocated[i])
    /\ SumsTo(On(i), GivenBack, refunded[i])
    /\ SumsTo(On(i), Lefts, allocated[i] - refunded[i])

Balanced == \A i \in Invoice : BalancedOn(i)

\* What is summed are natural numbers.
LEMMA Summands ==
    ASSUME Shape, RefundsCovered
    PROVE  \A p \in Payment :
                /\ Amounts[p] = payments[p].amount
                /\ GivenBack[p] = payments[p].refunded
                /\ Lefts[p] = payments[p].amount - payments[p].refunded
                /\ Amounts[p] \in Nat /\ GivenBack[p] \in Nat /\ Lefts[p] \in Nat
BY DEF Amounts, GivenBack, Lefts, Shape, RowsOK, PaymentRow, RefundsCovered

\* A payment's row is all they depend on.
LEMMA SummandStays ==
    ASSUME NEW p \in Payment, payments'[p] = payments[p]
    PROVE  /\ Amounts'[p] = Amounts[p]
           /\ GivenBack'[p] = GivenBack[p]
           /\ Lefts'[p] = Lefts[p]
BY DEF Amounts, GivenBack, Lefts

\* An invoice whose payments stay stays balanced.
LEMMA BalanceStays ==
    ASSUME Shape, NEW i \in Invoice, BalancedOn(i), On(i)' = On(i),
           \A p \in On(i) : payments'[p] = payments[p],
           allocated'[i] = allocated[i], refunded'[i] = refunded[i]
    PROVE  BalancedOn(i)'
<1>1. \A p \in On(i) : /\ Amounts'[p] = Amounts[p]
                       /\ GivenBack'[p] = GivenBack[p]
                       /\ Lefts'[p] = Lefts[p]
    BY DEF On, Recorded, Amounts, GivenBack, Lefts
<1>2. /\ SumsTo(On(i), Amounts', allocated'[i])
      /\ SumsTo(On(i), GivenBack', refunded'[i])
      /\ SumsTo(On(i), Lefts', allocated'[i] - refunded'[i])
    BY <1>1, SumSame DEF BalancedOn
<1> QED BY <1>2 DEF BalancedOn

\* A payment adds its amount to what its invoice received.
LEMMA PaymentBalances ==
    ASSUME Safe, Balanced, NEW p \in Payment,
           NEW i \in Invoice, NEW amt \in Amount, NEW key,
           InsertPayment(p, i, amt, key), UNCHANGED refunded
    PROVE  Balanced'
<1>a. /\ Shape
      /\ RefundsCovered
      /\ amt \in Nat
      /\ allocated[i] \in Nat
      /\ refunded[i] \in Nat
    BY AmountAssumption DEF Safe, RowsSafe, Shape, RowsOK
<1>1. /\ p \notin Recorded
      /\ Recorded' = Recorded \cup {p}
      /\ payments'[p].amount = amt
      /\ payments'[p].refunded = 0
      /\ \A q \in Payment \ {p} : payments'[q] = payments[q]
  <2>1. Receiving(p, amt, key)
    BY DEF Receiving
  <2> QED BY <1>a, <2>1, Received
<1>2. /\ payments'[p].invoice = i
      /\ allocated'[i] = allocated[i] + amt
      /\ \A j \in Invoice \ {i} : allocated'[j] = allocated[j]
    BY <1>a DEF InsertPayment, Shape, RowsOK
<1>3. ASSUME NEW j \in Invoice, j # i
      PROVE  BalancedOn(j)'
  <2>1. On(j)' = On(j) /\ \A q \in On(j) : payments'[q] = payments[q]
    BY <1>1, <1>2, <1>3 DEF On, Recorded
  <2> QED BY <1>a, <1>2, <1>3, <2>1, BalanceStays DEF Balanced
<1>4. BalancedOn(i)'
  <2>1. /\ On(i)' = On(i) \cup {p}
        /\ p \notin On(i)
        /\ On(i) \subseteq Payment \ {p}
    BY <1>1, <1>2 DEF On, Recorded
  <2>2. /\ \A q \in On(i) : /\ Amounts'[q] = Amounts[q]
                            /\ GivenBack'[q] = GivenBack[q]
                            /\ Lefts'[q] = Lefts[q]
        /\ Amounts'[p] = amt /\ GivenBack'[p] = 0 /\ Lefts'[p] = amt
    BY <1>a, <1>1, <2>1 DEF Amounts, GivenBack, Lefts
  <2>3. /\ SumsTo(On(i), Amounts', allocated[i])
        /\ SumsTo(On(i), GivenBack', refunded[i])
        /\ SumsTo(On(i), Lefts', allocated[i] - refunded[i])
    BY <2>2, SumSame DEF Balanced, BalancedOn
  <2>4. SumsTo(On(i) \cup {p}, Amounts', allocated[i] + amt)
    BY <1>a, <2>1, <2>2, <2>3, SumAdd
  <2>5. SumsTo(On(i) \cup {p}, GivenBack', refunded[i] + 0)
    BY <1>a, <2>1, <2>2, <2>3, SumAdd
  <2>6. SumsTo(On(i) \cup {p}, Lefts', allocated[i] - refunded[i] + amt)
    BY <1>a, <2>1, <2>2, <2>3, SumAdd
  <2>7. /\ refunded[i] + 0 = refunded'[i]
        /\ allocated[i] - refunded[i] + amt = allocated'[i] - refunded'[i]
    BY <1>a, <1>2
  <2> QED BY <1>2, <2>1, <2>4, <2>5, <2>6, <2>7 DEF BalancedOn
<1> QED BY <1>3, <1>4 DEF Balanced

\* A refund takes from what is left of its payment.
LEMMA RefundBalances ==
    ASSUME Safe, RefundsCovered', Balanced, NEW p \in Payment,
           NEW i \in Invoice, NEW amt \in Nat, NEW keys,
           payments[p].invoice = i,
           payments' = [payments EXCEPT
                ![p].refunded = @ + amt, ![p].refundKeys = @ \cup keys],
           refunded' = [refunded EXCEPT ![i] = @ + amt],
           UNCHANGED allocated
    PROVE  Balanced'
<1>a. Shape /\ RefundsCovered
    BY DEF Safe, RowsSafe
<1>1. /\ payments'[p].amount = payments[p].amount
      /\ payments'[p].invoice = payments[p].invoice
      /\ payments'[p].refunded = payments[p].refunded + amt
      /\ \A q \in Payment \ {p} : payments'[q] = payments[q]
      /\ Recorded' = Recorded
    BY <1>a DEF Shape, RowsOK, PaymentRow, Recorded
<1>2. /\ refunded'[i] = refunded[i] + amt
      /\ \A j \in Invoice \ {i} : refunded'[j] = refunded[j]
      /\ allocated[i] \in Nat
      /\ refunded[i] \in Nat
    BY <1>a DEF Shape, RowsOK
<1>3. ASSUME NEW j \in Invoice, j # i
      PROVE  BalancedOn(j)'
  <2>1. On(j)' = On(j) /\ \A q \in On(j) : payments'[q] = payments[q]
    BY <1>1, <1>a, <1>3 DEF On, Recorded
  <2> QED BY <1>a, <1>2, <1>3, <2>1, BalanceStays DEF Balanced
<1>4. BalancedOn(i)'
  <2>1. On(i)' = On(i) /\ On(i) \subseteq Payment /\ p \in On(i)
    <3>1. p \in On(i)
      BY NoneAssumption DEF On, Recorded
    <3>2. On(i)' = On(i)
      BY <1>1 DEF On, Recorded
    <3> QED BY <3>1, <3>2 DEF On, Recorded
  <2>2. \A q \in On(i) \ {p} : /\ Amounts'[q] = Amounts[q]
                               /\ GivenBack'[q] = GivenBack[q]
                               /\ Lefts'[q] = Lefts[q]
    <3>1. \A q \in On(i) \ {p} : q \in Payment /\ payments'[q] = payments[q]
      BY <1>1, <2>1
    <3> QED BY <3>1, SummandStays
  <2>3. /\ Amounts'[p] = Amounts[p]
        /\ GivenBack'[p] = GivenBack[p] + amt
        /\ Lefts'[p] = Lefts[p] - amt
        /\ GivenBack[p] \in Nat
        /\ Lefts[p] \in Nat
        /\ Lefts'[p] \in Nat
    BY <1>a, <1>1 DEF Amounts, GivenBack, Lefts, RefundsCovered, Shape, RowsOK,
                      PaymentRow
  <2>4. \A q \in On(i) : GivenBack[q] \in Nat /\ Lefts[q] \in Nat
    BY <1>a, <2>1, Summands
  <2>5. SumsTo(On(i), Amounts', allocated[i])
    <3>1. \A q \in On(i) : Amounts'[q] = Amounts[q]
      BY <2>2, <2>3
    <3> QED BY <3>1, SumSame DEF Balanced, BalancedOn
  <2>6. SumsTo(On(i), GivenBack', refunded'[i])
    <3>1. PICK u \in Nat, v \in Nat :
            GivenBack[p] = u /\ GivenBack'[p] = v /\ v = u + amt
      BY <1>a, <2>3
    <3>2. SumsTo(On(i), GivenBack', refunded[i] - u + v)
      BY <1>a, <2>1, <2>2, <2>4, <3>1, SumChange DEF Balanced, BalancedOn
    <3>3. refunded[i] - u + v = refunded'[i]
      BY <1>2, <3>1
    <3> QED BY <3>2, <3>3
  <2>7. SumsTo(On(i), Lefts', allocated[i] - refunded'[i])
    <3>1. PICK u \in Nat, v \in Nat :
            Lefts[p] = u /\ Lefts'[p] = v /\ v = u - amt
      BY <1>a, <2>3
    <3>2. PICK x : x = allocated[i] - refunded[i] /\ SumsTo(On(i), Lefts, x)
      BY DEF Balanced, BalancedOn
    <3>3. SumsTo(On(i), Lefts', x - u + v)
      BY <2>1, <2>2, <2>4, <3>1, <3>2, SumChange
    <3>4. x - u + v = allocated[i] - refunded'[i]
      BY <1>2, <3>1, <3>2
    <3> QED BY <3>3, <3>4
  <2> QED BY <2>1, <2>5, <2>6, <2>7 DEF BalancedOn
<1> QED BY <1>3, <1>4 DEF Balanced

\* The two ways money moves.
Pays(p, i, amt) ==
    /\ \E key : InsertPayment(p, i, amt, key)
    /\ UNCHANGED refunded

GivesBack(p, i, amt) ==
    /\ payments[p].invoice = i
    /\ \E keys : payments' = [payments EXCEPT
            ![p].refunded = @ + amt, ![p].refundKeys = @ \cup keys]
    /\ refunded' = [refunded EXCEPT ![i] = @ + amt]
    /\ UNCHANGED allocated

\* Money moves when a payment is recorded and when one is refunded.
LEMMA MoneyMoves ==
    ASSUME Once, [Next]_vars
    PROVE  \/ UNCHANGED <<payments, allocated, refunded>>
           \/ \E p \in Payment, i \in Invoice, amt \in Amount : Pays(p, i, amt)
           \/ \E p \in Payment, i \in Invoice, amt \in Nat : GivesBack(p, i, amt)
<1>a. Safe
    BY DEF Once
<1>1. Issuing =>
        \/ UNCHANGED <<payments, allocated, refunded>>
        \/ \E p \in Payment, i \in Invoice, amt \in Amount : Pays(p, i, amt)
    BY DEF Issuing, CreateBookingUnpaid, CreateBookingPaid, SellPlan,
           ActivateSubscription, CreateShopSaleUnpaid, CreateShopSale,
           HoldExpires, money, Pays
<1>2. ASSUME NEW s \in Session, Collects(s)
      PROVE  \E p \in Payment, i \in Invoice, amt \in Amount : Pays(p, i, amt)
    BY <1>a, <1>2, OfSession DEF Collects, PayPost, GatewayPost, AimedAt, Once,
        Carries, Carry, Posting, Pays
<1>3. ASSUME NEW s \in Session, RefundPost(s)
      PROVE  \E p \in Payment, i \in Invoice, amt \in Nat : GivesBack(p, i, amt)
  <2>1. /\ sess[s].pay \in Payment
        /\ sess[s].inv \in Invoice
        /\ sess[s].amt \in Nat
        /\ payments[sess[s].pay].invoice = sess[s].inv
    BY <1>a, <1>3, OfSession DEF RefundPost, AimedAt, SessionState
  <2> QED BY <1>3, <2>1 DEF RefundPost, GivesBack
<1>4. \A s \in Session :
        \/ Ends(s)
        \/ \E c \in Credential : RescheduleQr(s, c)
        \/ \E c \in Credential : EnsureMint(s, c)
        \/ ScanBooking(s)
      => UNCHANGED <<payments, allocated, refunded>>
    BY DEF Ends, Marks, VoidWrite, CancelInvoice, ExpireCommit, MarkNoShow,
           MarkCompleted, AutoComplete, Mark, RescheduleQr, EnsureMint,
           ScanBooking, money
<1>5. UNCHANGED seen => UNCHANGED <<payments, allocated, refunded>>
    BY DEF seen, money
<1> QED BY <1>1, <1>2, <1>3, <1>4, <1>5, Writers

\* Every step keeps the totals the sums they stand for.
LEMMA BalancedStep ==
    ASSUME Once, Balanced, [Next]_vars
    PROVE  Balanced'
<1>a. Safe /\ Shape /\ RefundsCovered
    BY DEF Once, Safe, RowsSafe
<1>1. CASE UNCHANGED <<payments, allocated, refunded>>
  <2>1. \A i \in Invoice : On(i)' = On(i)
                            /\ \A p \in On(i) : payments'[p] = payments[p]
    BY <1>1 DEF On, Recorded
  <2> QED BY <1>a, <1>1, <2>1, BalanceStays DEF Balanced
<1>2. ASSUME NEW p \in Payment, NEW i \in Invoice, NEW amt \in Amount,
             Pays(p, i, amt)
      PROVE  Balanced'
    BY <1>a, <1>2, PaymentBalances DEF Pays
<1>3. ASSUME NEW p \in Payment, NEW i \in Invoice, NEW amt \in Nat,
             GivesBack(p, i, amt)
      PROVE  Balanced'
  <2>1. RefundsCovered'
    BY <1>a, SafeStep DEF Safe, RowsSafe
  <2> QED BY <1>a, <1>3, <2>1, RefundBalances DEF GivesBack
<1> QED BY <1>1, <1>2, <1>3, MoneyMoves

\* Nothing is recorded at first.
LEMMA BalancedInit == Init => Balanced
<1> SUFFICES ASSUME Init, NEW i \in Invoice PROVE BalancedOn(i)
    BY DEF Balanced
<1>1. On(i) = {} /\ allocated[i] = 0 /\ refunded[i] = 0
    BY DEF Init, On, Recorded, NoPayment
<1>2. allocated[i] - refunded[i] = 0
    BY <1>1
<1> QED BY <1>1, <1>2, SumEmpty DEF BalancedOn

\* What the model keeps per invoice, allocated and refunded, is always what
\* the code's queries sum over the rows of its payments, in whatever order
\* payments and refunds were recorded (record_payment:333-361,
\* get_invoice_payment_summary).
THEOREM LedgerBalances == Spec => []Balanced
<1>1. Init => Balanced
    BY BalancedInit
<1>2. Once /\ Balanced /\ [Next]_vars => Balanced'
    BY BalancedStep
<1> QED BY <1>1, <1>2, OnceInvariant, PTL DEF Spec

\* A sum is one number: nothing but the invoice's totals is the sum of its
\* payments' amounts, and of what they have given back.
THEOREM TotalsAreTheSums ==
    Spec => [](\A i \in Invoice : \A x :
                    /\ SumsTo(On(i), Amounts, x) <=> x = allocated[i]
                    /\ SumsTo(On(i), GivenBack, x) <=> x = refunded[i])
<1>1. ASSUME Safe, Balanced, NEW i \in Invoice, NEW x
      PROVE  /\ SumsTo(On(i), Amounts, x) <=> x = allocated[i]
             /\ SumsTo(On(i), GivenBack, x) <=> x = refunded[i]
  <2>1. \A p \in On(i) : Amounts[p] \in Nat /\ GivenBack[p] \in Nat
    BY <1>1, Summands DEF On, Recorded, Safe, RowsSafe
  <2>2. /\ SumsTo(On(i), Amounts, allocated[i])
        /\ SumsTo(On(i), GivenBack, refunded[i])
    BY <1>1 DEF Balanced, BalancedOn
  <2> QED BY <2>1, <2>2, SumUnique
<1>2. Safe /\ Balanced => \A i \in Invoice : \A x :
            /\ SumsTo(On(i), Amounts, x) <=> x = allocated[i]
            /\ SumsTo(On(i), GivenBack, x) <=> x = refunded[i]
    BY <1>1
<1> QED BY <1>2, SafeInvariant, LedgerBalances, PTL

\* No invoice gives back more than it has received.
LEMMA GivenBackWasReceived ==
    ASSUME Safe, Balanced, NEW i \in Invoice
    PROVE  /\ refunded[i] <= allocated[i]
           /\ \A p \in On(i) : payments[p].amount - payments[p].refunded
                                    <= allocated[i] - refunded[i]
<1>1. /\ Shape
      /\ RefundsCovered
      /\ allocated[i] \in Nat
      /\ refunded[i] \in Nat
      /\ On(i) \subseteq Payment
    BY DEF Safe, Shape, RowsOK, RowsSafe, On, Recorded
<1>2. PICK x : x = allocated[i] - refunded[i] /\ SumsTo(On(i), Lefts, x)
    BY DEF Balanced, BalancedOn
<1>3. \A p \in On(i) : /\ Lefts[p] \in Nat
                       /\ Lefts[p] = payments[p].amount - payments[p].refunded
    BY <1>1, Summands
<1>4. x \in Nat /\ \A p \in On(i) : Lefts[p] <= x
    BY <1>2, <1>3, SumMember
<1> QED BY <1>1, <1>2, <1>3, <1>4

\* However refunds by staff, gateways and returns interleave, an invoice
\* never gives back more than it has received (create_refund:75-81).
THEOREM GivesBackWhatItReceived ==
    Spec => [](\A i \in Invoice : refunded[i] <= allocated[i])
<1>1. Safe /\ Balanced => \A i \in Invoice : refunded[i] <= allocated[i]
    BY GivenBackWasReceived
<1> QED BY <1>1, SafeInvariant, LedgerBalances, PTL

-----------------------------------------------------------------------------
(* The ledger implements the account.                                      *)

\* An invoice that is not issued has no price.
Unpriced == \A i \in Invoice : invoiceStatus[i] = "none" => total[i] = 0

\* A step that changes one invoice in the account's eyes.
LEMMA OneAccount ==
    ASSUME Shape, Shape', NEW i \in Invoice,
           \A j \in Invoice \ {i} :
                total'[j] = total[j] /\ Collected(j)' = Collected(j)
    PROVE  /\ total' = [total EXCEPT ![i] = total'[i]]
           /\ [j \in Invoice |-> Collected(j)]' =
                [[j \in Invoice |-> Collected(j)] EXCEPT ![i] = Collected(i)']
BY DEF Shape, RowsOK

\* Issuing opens the invoice's account.
LEMMA AccountIssue ==
    ASSUME Safe, Shape', Unpriced, NEW i \in Invoice, NEW price \in Price,
           Issue(i, price), UNCHANGED <<refunded, returned>>,
           \/ UNCHANGED allocated
           \/ \E p, key : \E amt \in Amount :
                amt <= price /\ InsertPayment(p, i, amt, key)
    PROVE  Account!Issue(i)
<1>a. /\ Shape
      /\ price \in Nat
      /\ \A j \in Invoice : /\ allocated[j] \in Nat
                            /\ refunded[j] \in Nat
                            /\ returned[j] \in Nat
    BY PriceAssumption DEF Safe, Shape, RowsOK
<1>1. /\ total[i] = 0
      /\ allocated[i] = 0 /\ refunded[i] = 0 /\ returned[i] = 0
      /\ total'[i] = price
      /\ \A j \in Invoice \ {i} : total'[j] = total[j]
    BY <1>a DEF Issue, Safe, RowsSafe, Fresh, Unpriced, Shape, RowsOK
<1>2. \A j \in Invoice \ {i} : allocated'[j] = allocated[j]
    BY <1>a DEF InsertPayment, Shape, RowsOK
<1>3. \A j \in Invoice \ {i} : Collected(j)' = Collected(j)
    BY <1>2 DEF Collected, Reopened
<1>4. allocated'[i] \in 0 .. price
  <2>1. CASE UNCHANGED allocated
    BY <1>a, <1>1, <2>1
  <2>2. ASSUME NEW p, NEW key, NEW amt \in Amount, amt <= price,
               InsertPayment(p, i, amt, key)
        PROVE  allocated'[i] \in 0 .. price
    BY <1>a, <1>1, <2>2, AmountAssumption DEF InsertPayment, Shape, RowsOK
  <2> QED BY <2>1, <2>2
<1>5. Collected(i)' \in 0 .. price
    BY <1>a, <1>1, <1>4 DEF Collected, Reopened
<1> QED BY <1>a, <1>1, <1>3, <1>5, OneAccount DEF Account!Issue

\* A payment fits what is missing from the price.
LEMMA AccountCollect ==
    ASSUME Once, Shape', ~Repricing, NEW s \in Session, Collects(s)
    PROVE  Account!Next
<1>a. Safe /\ Shape
    BY DEF Once, Safe
<1>1. PICK i \in Invoice, amt \in Amount :
            i = sess[s].inv /\ amt = sess[s].amt
    BY <1>a, OfSession DEF Collects, PayPost, GatewayPost, AimedAt, Once,
                           Carries, Carry, Posting
<1>2. /\ allocated' = [allocated EXCEPT ![i] = @ + amt]
      /\ UNCHANGED <<total, refunded, returned>>
    BY <1>1 DEF Collects, PayPost, GatewayPost, InsertPayment
<1>3. /\ amt \in Nat
      /\ amt > 0
      /\ \A j \in Invoice : /\ allocated[j] \in Nat
                            /\ refunded[j] \in Nat
                            /\ returned[j] \in Nat
                            /\ total[j] \in Nat
    BY <1>a, AmountAssumption DEF Shape, RowsOK
<1>4. allocated[i] + amt <= total[i] + Reopened(i)
    BY <1>a, <1>1, <1>3, OfSession
       DEF Collects, PayPost, GatewayPost, Promise, PayPromise
<1>5. /\ allocated'[i] = allocated[i] + amt
      /\ \A j \in Invoice \ {i} : allocated'[j] = allocated[j]
    BY <1>a, <1>2 DEF Shape, RowsOK
<1>6. /\ Collected(i)' = Collected(i) + amt
      /\ amt \in 1 .. total[i] - Collected(i)
      /\ \A j \in Invoice \ {i} : Collected(j)' = Collected(j)
    BY <1>2, <1>3, <1>4, <1>5 DEF Collected, Reopened
<1>7. [j \in Invoice |-> Collected(j)]' =
            [[j \in Invoice |-> Collected(j)] EXCEPT ![i] = @ + amt]
    BY <1>a, <1>2, <1>6, OneAccount
<1>8. Account!Collect(i)
    BY <1>2, <1>6, <1>7 DEF Account!Collect
<1> QED BY <1>8 DEF Account!Next

\* A refund gives back what is there; a return is not owed again.
LEMMA AccountGiveBack ==
    ASSUME Once, Shape', Balanced, NEW s \in Session, RefundPost(s)
    PROVE  [Account!Next]_(Account!account)
<1>a. Safe /\ Shape
    BY DEF Once, Safe
<1>1. PICK i \in Invoice, amt \in Amount, p \in Payment :
            i = sess[s].inv /\ amt = sess[s].amt /\ p = sess[s].pay
    BY <1>a, OfSession DEF RefundPost, AimedAt, Once, Carries, Carry
<1>2. /\ refunded' = [refunded EXCEPT ![i] = @ + amt]
      /\ returned' = [returned EXCEPT ![i] = IF sess[s].ret THEN @ + amt ELSE @]
      /\ UNCHANGED <<total, allocated>>
    BY <1>1 DEF RefundPost
<1>3. /\ amt \in Nat
      /\ amt > 0
      /\ \A j \in Invoice : /\ allocated[j] \in Nat
                            /\ refunded[j] \in Nat
                            /\ returned[j] \in Nat
    BY <1>a, AmountAssumption DEF Shape, RowsOK
<1>4. /\ refunded'[i] = refunded[i] + amt
      /\ returned'[i] = IF sess[s].ret THEN returned[i] + amt ELSE returned[i]
      /\ \A j \in Invoice \ {i} : /\ refunded'[j] = refunded[j]
                                  /\ returned'[j] = returned[j]
    BY <1>a, <1>2 DEF Shape, RowsOK
<1>5. \A j \in Invoice \ {i} : Collected(j)' = Collected(j)
    BY <1>2, <1>4 DEF Collected, Reopened
<1>6. CASE sess[s].ret
  <2>1. Collected(i)' = Collected(i)
    BY <1>2, <1>3, <1>4, <1>6 DEF Collected, Reopened
  <2> QED BY <1>2, <1>5, <2>1 DEF Account!account
<1>7. CASE ~sess[s].ret
  <2>1. /\ p \in On(i)
        /\ payments[p].refunded \in Nat
        /\ payments[p].amount \in Nat
        /\ payments[p].refunded + amt <= payments[p].amount
    BY <1>a, <1>1, OfSession
       DEF RefundPost, AimedAt, Promise, RefundPromise, On, Shape, RowsOK,
           PaymentRow
  <2>2. amt <= allocated[i] - refunded[i]
    BY <1>a, <1>3, <2>1, GivenBackWasReceived
  <2>3. amt \in 1 .. Collected(i) /\ Collected(i)' = Collected(i) - amt
    BY <1>2, <1>3, <1>4, <1>7, <2>2 DEF Collected, Reopened
  <2>4. [j \in Invoice |-> Collected(j)]' =
            [[j \in Invoice |-> Collected(j)] EXCEPT ![i] = @ - amt]
    BY <1>a, <1>2, <1>5, <2>3, OneAccount
  <2>5. Account!GiveBack(i)
    BY <1>2, <2>3, <2>4 DEF Account!GiveBack
  <2> QED BY <2>5 DEF Account!Next
<1> QED BY <1>6, <1>7

\* Every step is a step of the account, or one it does not show.
LEMMA AccountStep ==
    ASSUME Once, Balanced, Unpriced, ~Repricing, [Next]_vars
    PROVE  Unpriced' /\ [Account!Next]_(Account!account)
<1>a. Safe /\ Shape /\ Shape'
    BY SafeStep DEF Once, Safe
<1>s. CASE UNCHANGED money /\ \A i \in Invoice :
                invoiceStatus'[i] = "none" => invoiceStatus[i] = "none"
    BY <1>s DEF money, Unpriced, Account!account, Collected, Reopened
<1>1. ASSUME Issuing
      PROVE  Unpriced' /\ [Account!Next]_(Account!account)
  <2>1. ASSUME NEW i \in Invoice, NEW price \in Price, Issue(i, price),
               UNCHANGED <<refunded, returned>>,
               \/ UNCHANGED allocated
               \/ \E p, key : \E amt \in Amount :
                    amt <= price /\ InsertPayment(p, i, amt, key)
        PROVE  Unpriced' /\ [Account!Next]_(Account!account)
    <3>1. Account!Issue(i)
      BY <1>a, <2>1, AccountIssue
    <3>2. Unpriced'
      BY <1>a, <2>1 DEF Issue, Unpriced, Shape, RowsOK
    <3> QED BY <3>1, <3>2 DEF Account!Next
  <2>2. ASSUME NEW i \in Invoice, HoldExpires(i) \/ ActivateSubscription(i)
        PROVE  Unpriced' /\ [Account!Next]_(Account!account)
    BY <1>s, <2>2 DEF HoldExpires, ActivateSubscription
  <2> QED BY <1>1, <2>1, <2>2
          DEF Issuing, CreateBookingUnpaid, CreateBookingPaid, SellPlan,
              CreateShopSaleUnpaid, CreateShopSale
<1>2. ASSUME NEW s \in Session, Collects(s)
      PROVE  Unpriced' /\ [Account!Next]_(Account!account)
  <2>1. UNCHANGED <<invoiceStatus, total>>
    BY <1>2 DEF Collects, PayPost, GatewayPost
  <2> QED BY <1>a, <1>2, <2>1, AccountCollect DEF Unpriced
<1>3. ASSUME NEW s \in Session, RefundPost(s)
      PROVE  Unpriced' /\ [Account!Next]_(Account!account)
  <2>1. UNCHANGED <<invoiceStatus, total>>
    BY <1>3 DEF RefundPost
  <2> QED BY <1>a, <1>3, <2>1, AccountGiveBack DEF Unpriced
<1>4. ASSUME NEW s \in Session, NEW c \in Credential, RescheduleQr(s, c)
      PROVE  FALSE
    BY <1>a, <1>4, OfSession DEF RescheduleQr, Promise, PricePromise
<1>5. ASSUME NEW s \in Session,
             \/ Ends(s)
             \/ \E c \in Credential : EnsureMint(s, c)
             \/ ScanBooking(s)
      PROVE  Unpriced' /\ [Account!Next]_(Account!account)
  <2>1. UNCHANGED money
    BY <1>5 DEF Ends, Marks, VoidWrite, CancelInvoice, ExpireCommit,
           MarkNoShow, MarkCompleted, AutoComplete, Mark, EnsureMint,
           ScanBooking
  <2>2. \A i \in Invoice : invoiceStatus[i] # "none" => invoiceStatus'[i] # "none"
    BY <1>5, VoidKeepsIssued
       DEF Ends, Marks, VoidWrite, CancelInvoice, ExpireCommit, MarkNoShow,
           MarkCompleted, AutoComplete, Mark, EnsureMint, ScanBooking
  <2> QED BY <1>s, <2>1, <2>2
<1>6. CASE UNCHANGED seen
    BY <1>s, <1>6 DEF seen
<1> QED BY <1>1, <1>2, <1>3, <1>4, <1>5, <1>6, Writers

\* As long as no booking is rescheduled, every invoice is an account: its
\* price is asked once, each posted payment fits what is missing and each
\* refund what is there, whatever sessions, webhooks and returns interleave
\* (record_payment:333-428, create_refund:75-85).
THEOREM LedgerKeepsAccounts ==
    ASSUME ~Repricing
    PROVE  Spec => ImplementsAccount
<1>1. Init => Account!Init /\ Unpriced
    BY DEF Init, Account!Init, Unpriced, Collected, Reopened
<1>2. Once /\ Balanced /\ Unpriced /\ [Next]_vars
        => Unpriced' /\ [Account!Next]_(Account!account)
    BY AccountStep
<1>3. Spec => []Unpriced
    BY <1>1, <1>2, OnceInvariant, LedgerBalances, PTL DEF Spec
<1> QED BY <1>1, <1>2, <1>3, OnceInvariant, LedgerBalances, PTL
        DEF Spec, ImplementsAccount, Account!Spec
=============================================================================
