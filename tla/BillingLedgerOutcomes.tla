------------------------ MODULE BillingLedgerOutcomes ------------------------
(***************************************************************************)
(* Proofs of what the money decides: which plans run, which memberships a  *)
(* refund ends, which bookings are confirmed and who is checked in.        *)
(*                                                                         *)
(* Few steps write the rows these depend on (Writers), and few bring a     *)
(* session to where it writes them (Arrivals).                             *)
(***************************************************************************)
EXTENDS BillingLedgerContract

\* Where a session is about to write what others look at.
Critical == {"pay.post", "gw.post", "scan.book", "refund.post", "void.write",
             "expire.book", "expire.void"}

Refunds(t) ==
    \/ \E p \in Payment, amt \in Amount, key \in Key \cup {None} :
            CreateRefund(t, p, amt, key)
    \/ \E p \in Payment, u \in Txn, amt \in Amount, key \in Key \cup {None} :
            CreateGatewayRefund(t, p, u, amt, key)
    \/ \E p \in Payment, amt \in Amount : ReturnShopSale(t, p, amt)

Expires(t) ==
    \/ ExpireBegin(t)
    \/ \E i \in Invoice : ExpireBook(t, i)
    \/ ExpireVoid(t)

\* Only these steps bring a session there.
LEMMA Arrivals ==
    ASSUME Safe, [Next]_vars, NEW t \in Session
    PROVE  \/ sess'[t] = sess[t]
           \/ sess'[t].pc \notin Critical
           \/ sess'[t].pc = "pay.post" /\ PayLock(t)
           \/ sess'[t].pc = "gw.post" /\ GatewayLockInvoice(t)
           \/ sess'[t].pc = "scan.book" /\ \E c \in Credential : ScanCredential(t, c)
           \/ sess'[t].pc = "refund.post" /\ Refunds(t)
           \/ sess'[t].pc = "void.write" /\ \E i \in Invoice : VoidRead(t, i)
           \/ sess'[t].pc \in {"expire.book", "expire.void"} /\ Expires(t)
<1>a. Shape /\ sess[t] \in SessionState
    BY DEF Safe, Shape
<1> DEFINE Goal ==
        \/ sess'[t] = sess[t]
        \/ sess'[t].pc \notin Critical
        \/ sess'[t].pc = "pay.post" /\ PayLock(t)
        \/ sess'[t].pc = "gw.post" /\ GatewayLockInvoice(t)
        \/ sess'[t].pc = "scan.book" /\ \E c \in Credential : ScanCredential(t, c)
        \/ sess'[t].pc = "refund.post" /\ Refunds(t)
        \/ sess'[t].pc = "void.write" /\ \E i \in Invoice : VoidRead(t, i)
        \/ sess'[t].pc \in {"expire.book", "expire.void"} /\ Expires(t)
<1> SUFFICES Goal
    OBVIOUS
<1>1. CASE UNCHANGED sess
    BY <1>1
<1>2. ASSUME NEW r, Become(t, r), r.pc \notin Critical
      PROVE  Goal
    BY <1>a, <1>2 DEF Become, Shape
<1>3. CASE End(t)
    BY <1>2, <1>3 DEF End, Idle, Critical
<1>4. CASE PaymentBegin(t)
  <2>1. ASSUME NEW i \in Invoice, NEW amt \in Amount,
               NEW key \in Key \cup {None}, PayBegin(t, i, amt, key)
        PROVE  Goal
    BY <1>2, <2>1 DEF PayBegin, Idle, Critical
  <2>2. ASSUME NEW u \in Txn, GatewayLock(t, u)
        PROVE  Goal
    BY <1>2, <2>2 DEF GatewayLock, Idle, Critical
  <2>3. ASSUME Refunds(t)
        PROVE  Goal
    <3>1. \A p, amt, key, ret, held :
            RefundLock(t, p, amt, key, ret, held)
                => sess'[t].pc = "refund.post"
      BY <1>a DEF RefundLock, Become, Idle, Shape
    <3> QED BY <2>3, <3>1
            DEF Refunds, CreateRefund, CreateGatewayRefund, ReturnShopSale
  <2> QED BY <1>1, <1>4, <2>1, <2>2, <2>3
          DEF PaymentBegin, MarkFailed, GatewayMismatch, Refunds
<1>5. CASE PaymentStep(t)
  <2>1. CASE PayLock(t)
    BY <1>a, <2>1 DEF PayLock, Become, Shape, SessionState
  <2>2. CASE GatewayLockInvoice(t)
    BY <1>a, <2>2 DEF GatewayLockInvoice, Become, Shape, SessionState
  <2> QED BY <1>3, <1>5, <2>1, <2>2 DEF PaymentStep, PayRefuse, PayPost, PayDuplicate,
          GatewayReject, GatewayPost, GatewayLink, RefundPost
<1>6. CASE BookingBegin(t)
  <2>1. ASSUME NEW i \in Invoice, CancelBook(t, i) \/ EnsureQr(t, i)
        PROVE  Goal
    BY <1>2, <2>1 DEF CancelBook, EnsureQr, Idle, Critical
  <2>2. ASSUME NEW i \in Invoice, NEW price \in Price,
               RescheduleBook(t, i, price)
        PROVE  Goal
    BY <1>2, <2>2 DEF RescheduleBook, Idle, Critical
  <2>3. ASSUME NEW i \in Invoice, VoidRead(t, i)
        PROVE  sess'[t].pc = "void.write"
    BY <1>a, <2>3 DEF VoidRead, Become, Idle, Shape
  <2>4. ASSUME NEW c \in Credential, ScanCredential(t, c)
        PROVE  sess'[t].pc = "scan.book"
    BY <1>a, <2>4 DEF ScanCredential, Become, Idle, Shape
  <2>5. ExpireBegin(t) => sess'[t].pc = "expire.book"
    BY <1>a DEF ExpireBegin, Become, Idle, Shape
  <2> QED BY <1>1, <1>6, <2>1, <2>2, <2>3, <2>4, <2>5
          DEF BookingBegin, MarkNoShow, MarkCompleted, AutoComplete, Mark,
              Expires
<1>7. CASE BookingStep(t)
  <2>1. CASE CancelQr(t) \/ ReschedulePrice(t)
    BY <1>a, <1>2, <2>1 DEF CancelQr, ReschedulePrice, SessionState, Critical
  <2>2. ASSUME NEW i \in Invoice, ExpireBook(t, i)
        PROVE  sess'[t].pc \in {"expire.book", "expire.void"}
    BY <1>a, <2>2 DEF ExpireBook, ExpireTake, Become, Shape, SessionState
  <2>3. ExpireVoid(t) => sess'[t].pc = "expire.book"
    BY <1>a DEF ExpireVoid, Become, Shape, SessionState
  <2> QED BY <1>3, <1>7, <2>1, <2>2, <2>3
          DEF BookingStep, VoidWrite, CancelInvoice, ExpireCommit,
              RescheduleQr, EnsureMint, ScanBooking, Expires
<1>8. ASSUME NEW s \in Session, s # t,
             PaymentBegin(s) \/ BookingBegin(s) \/ PaymentStep(s)
                \/ BookingStep(s) \/ Rollback(s)
      PROVE  Goal
    BY <1>8, OthersWait
<1>9. CASE Issuing \/ \E i \in Invoice, u \in Txn, amt \in Amount,
                           key \in Key \cup {None} : StartCheckout(i, u, amt, key)
    BY <1>1, <1>9, IssuingEffect DEF StartCheckout
<1> HIDE DEF Goal
<1>10. ASSUME NEW s \in Session,
              PaymentBegin(s) \/ BookingBegin(s) \/ PaymentStep(s)
                \/ BookingStep(s) \/ Rollback(s)
       PROVE  Goal
  <2>1. CASE s # t
    BY <1>8, <1>10, <2>1
  <2>2. CASE s = t /\ Rollback(s)
    BY <1>3, <2>2 DEF Rollback
  <2> QED BY <1>4, <1>5, <1>6, <1>7, <1>10, <2>1, <2>2
<1>11. UNCHANGED vars => Goal
    BY <1>1 DEF vars
<1> QED BY <1>9, <1>10, <1>11 DEF Next, Step, DeadlockVictim, Disconnect

-----------------------------------------------------------------------------
(* Plans.                                                                  *)

\* A booking is billed by its own kind of invoice; a plan by another, issued
\* when it was sold.
Kinds ==
    \A i \in Invoice :
        /\ booking[i] # "none" => Kind[i] = "booking"
        /\ plan[i] # "none" => /\ Kind[i] \in {"membership", "academy"}
                               /\ invoiceStatus[i] # "none"

\* The plan of i is where its invoice's money and the club's policy put it.
PlanInPlace(i) ==
    /\ plan[i] = "pending" => ~PlanDue(i, allocated[i]) \/ total[i] = 0
    /\ plan[i] = "active" =>
            \/ PlanDue(i, allocated[i])
            \/ Kind[i] = "academy" /\ Policy = "manual"

LEMMA PlansInPlace == PlanFollowsMoney <=> \A i \in Invoice : PlanInPlace(i)
BY DEF PlanFollowsMoney, PlanInPlace

Plans == Kinds /\ PlanFollowsMoney /\ FullRefundEndsMembership

\* What one step may do to booking, plan and status without upsetting Kinds.
LEMMA KindsKept ==
    ASSUME Kinds,
           \A i \in Invoice :
                /\ \/ booking[i] # "none"
                   \/ booking'[i] = booking[i]
                   \/ Kind[i] = "booking"
                /\ plan[i] # "none" \/ plan'[i] = plan[i]
                /\ invoiceStatus[i] # "none" => invoiceStatus'[i] # "none"
    PROVE  Kinds'
BY DEF Kinds

\* Plans stay right where neither the plan nor its invoice's money changes,
\* and the payments that change are not refunded in full.
LEMMA PlansQuiet ==
    ASSUME Shape, Plans, Kinds', UNCHANGED plan,
           \A i \in Invoice :
                \/ plan[i] = "none"
                \/ total'[i] = total[i] /\ allocated'[i] = allocated[i],
           \A p \in Recorded' :
                \/ p \in Recorded /\ payments'[p] = payments[p]
                \/ payments'[p].refunded # payments'[p].amount
    PROVE  Plans'
<1>1. PlanFollowsMoney'
  <2> SUFFICES ASSUME NEW i \in Invoice
               PROVE  PlanInPlace(i)'
    BY DEF PlanFollowsMoney, PlanInPlace
  <2>1. CASE plan[i] = "none"
    BY <2>1 DEF PlanInPlace
  <2>2. CASE total'[i] = total[i] /\ allocated'[i] = allocated[i]
    <3>1. PlanDue(i, allocated[i])' <=> PlanDue(i, allocated[i])
      BY <2>2 DEF PlanDue
    <3> QED BY <2>2, <3>1, PlansInPlace DEF Plans, PlanInPlace
  <2> QED BY <2>1, <2>2
<1>2. FullRefundEndsMembership'
    BY DEF Plans, FullRefundEndsMembership
<1> QED BY <1>1, <1>2 DEF Plans

\* A payment that is recorded is not refunded yet.
LEMMA NewUnrefunded ==
    ASSUME Shape, NEW p \in Payment, NEW amt \in Amount, NEW key,
           Receiving(p, amt, key)
    PROVE  \A q \in Recorded' :
                \/ q \in Recorded /\ payments'[q] = payments[q]
                \/ payments'[q].refunded # payments'[q].amount
<1>1. amt \in Nat /\ amt # 0
    BY AmountAssumption
<1> QED BY <1>1, Received DEF Recorded

\* Issuing leaves the other invoices as they are; the new one has no plan yet.
LEMMA IssuedPlan ==
    ASSUME Shape, Plans, NEW i \in Invoice, NEW price, Issue(i, price)
    PROVE  /\ invoiceStatus[i] = "none" /\ plan[i] = "none"
           /\ total'[i] = price
           /\ \A j \in Invoice \ {i} : total'[j] = total[j]
           /\ \A j \in Invoice :
                invoiceStatus[j] # "none" => invoiceStatus'[j] # "none"
           /\ invoiceStatus'[i] # "none"
BY DEF Issue, Plans, Kinds, Shape, RowsOK

\* Selling anything leaves the plans right.
LEMMA IssuingPlans ==
    ASSUME Once, Plans, Issuing
    PROVE  Plans'
<1>a. Safe /\ Shape
    BY DEF Once, Safe
<1>1. ASSUME NEW i \in Invoice, NEW price \in Price, Issue(i, price),
             UNCHANGED plan, \A j \in Invoice \ {i} : booking'[j] = booking[j],
             booking'[i] = booking[i] \/ Kind[i] = "booking",
             \/ UNCHANGED <<allocated, payments>>
             \/ \E p \in Payment, amt \in Amount : \E key :
                    InsertPayment(p, i, amt, key)
      PROVE  Plans'
  <2>1. Kinds'
    BY <1>a, <1>1, KindsKept, IssuedPlan DEF Plans
  <2>2. \A j \in Invoice \ {i} : allocated'[j] = allocated[j]
    BY <1>a, <1>1 DEF InsertPayment, Shape, RowsOK
  <2>3. \A j \in Invoice : \/ plan[j] = "none"
                            \/ /\ total'[j] = total[j]
                               /\ allocated'[j] = allocated[j]
    BY <1>a, <1>1, <2>2, IssuedPlan
  <2>4. \A q \in Recorded' :
                \/ q \in Recorded /\ payments'[q] = payments[q]
                \/ payments'[q].refunded # payments'[q].amount
    <3>1. CASE UNCHANGED payments
      BY <3>1 DEF Recorded
    <3>2. ASSUME NEW p \in Payment, NEW amt \in Amount, NEW key,
                 InsertPayment(p, i, amt, key)
          PROVE  Receiving(p, amt, key)
      BY <3>2 DEF Receiving
    <3> QED BY <1>a, <1>1, <3>1, <3>2, NewUnrefunded
  <2> QED BY <1>a, <1>1, <2>1, <2>3, <2>4, PlansQuiet
<1>2. ASSUME NEW i \in Invoice, NEW price \in Price, NEW c \in Credential,
             CreateBookingUnpaid(i, price, c)
      PROVE  Plans'
  <2>1. \A j \in Invoice \ {i} : booking'[j] = booking[j]
    BY <1>a, <1>2 DEF CreateBookingUnpaid, Shape, RowsOK
  <2> QED BY <1>1, <1>2, <2>1 DEF CreateBookingUnpaid
<1>3. ASSUME NEW i \in Invoice, NEW price \in Price, NEW p \in Payment,
             NEW amt \in Amount, NEW c \in Credential,
             CreateBookingPaid(i, price, p, amt, c)
      PROVE  Plans'
  <2>1. \A j \in Invoice \ {i} : booking'[j] = booking[j]
    BY <1>a, <1>3 DEF CreateBookingPaid, Shape, RowsOK
  <2>2. Issue(i, price) /\ UNCHANGED plan /\ Kind[i] = "booking"
            /\ InsertPayment(p, i, amt, None)
    BY <1>3 DEF CreateBookingPaid
  <2> QED BY <1>1, <2>1, <2>2
<1>4. ASSUME NEW i \in Invoice, NEW price \in Price,
             CreateShopSaleUnpaid(i, price)
      PROVE  Plans'
    BY <1>1, <1>4 DEF CreateShopSaleUnpaid
<1>5. ASSUME NEW i \in Invoice, NEW price \in Price, NEW p \in Payment,
             NEW amt \in Amount, NEW key \in Key \cup {None},
             CreateShopSale(i, price, p, amt, key)
      PROVE  Plans'
  <2>1. Issue(i, price) /\ UNCHANGED <<plan, booking>>
            /\ InsertPayment(p, i, amt, key)
    BY <1>5 DEF CreateShopSale
  <2> QED BY <1>1, <2>1
\* A plan that is sold waits for its price: nothing has been paid on it.
<1>6. ASSUME NEW i \in Invoice, NEW price \in Price, SellPlan(i, price)
      PROVE  Plans'
  <2>1. /\ Issue(i, price)
        /\ Kind[i] \in {"membership", "academy"}
        /\ plan' = [plan EXCEPT ![i] = "pending"]
        /\ UNCHANGED <<allocated, payments, booking>>
    BY <1>6 DEF SellPlan
  <2>2. plan'[i] = "pending" /\ \A j \in Invoice \ {i} : plan'[j] = plan[j]
    BY <1>a, <2>1 DEF Shape, RowsOK
  <2>3. Kinds'
    BY <1>a, <2>1, <2>2, IssuedPlan DEF Plans, Kinds
  <2>4. PlanFollowsMoney'
    <3> SUFFICES ASSUME NEW j \in Invoice
                 PROVE  PlanInPlace(j)'
      BY DEF PlanFollowsMoney, PlanInPlace
    <3>1. CASE j = i
      <4>1. allocated'[i] = 0 /\ total'[i] = price /\ price \in Nat
        BY <1>a, <2>1, IssuedPlan, PriceAssumption DEF Safe, RowsSafe, Fresh
      <4>2. ~PlanDue(i, allocated[i])' \/ total'[i] = 0
        BY <2>1, <4>1 DEF PlanDue
      <4> QED BY <2>2, <3>1, <4>2 DEF PlanInPlace
    <3>2. CASE j # i
      <4>1. PlanDue(j, allocated[j])' <=> PlanDue(j, allocated[j])
        BY <1>a, <2>1, <3>2, IssuedPlan DEF PlanDue
      <4>2. total'[j] = total[j] /\ PlanInPlace(j)
        BY <1>a, <2>1, <3>2, IssuedPlan, PlansInPlace DEF Plans
      <4> QED BY <2>2, <3>2, <4>1, <4>2 DEF PlanInPlace
    <3> QED BY <3>1, <3>2
  <2>5. FullRefundEndsMembership'
    <3>1. \A p \in Recorded : payments[p].invoice # i
      BY <1>a, <2>1, IssuedPlan DEF Safe, RowsSafe, PaidOnIssued
    <3>2. \A p \in Recorded : payments[p].invoice \in Invoice
      BY <1>a DEF Shape, RowsOK, PaymentRow, Recorded
    <3> QED BY <2>1, <2>2, <3>1, <3>2
            DEF Plans, FullRefundEndsMembership, Recorded
  <2> QED BY <2>3, <2>4, <2>5 DEF Plans
<1>7. ASSUME NEW i \in Invoice, HoldExpires(i)
      PROVE  Plans'
  <2>1. UNCHANGED <<invoiceStatus, money, booking, plan, payments>>
    BY <1>7 DEF HoldExpires
  <2>2. Kinds'
    BY <2>1, KindsKept DEF Plans
  <2> QED BY <1>a, <2>1, <2>2, PlansQuiet DEF money, Recorded
\* Staff activate what is due, or anything under 'manual'; no membership.
<1>8. ASSUME NEW i \in Invoice, ActivateSubscription(i)
      PROVE  Plans'
  <2>1. /\ UNCHANGED <<invoiceStatus, total, allocated, booking, payments>>
        /\ Kind[i] = "academy"
        /\ plan[i] = "pending"
        /\ Policy = "manual" \/ PlanDue(i, allocated[i])
        /\ plan'[i] = "active"
        /\ \A j \in Invoice \ {i} : plan'[j] = plan[j]
    BY <1>a, <1>8 DEF ActivateSubscription, Shape, RowsOK, money
  <2>2. Kinds'
    BY <2>1, KindsKept DEF Plans
  <2>3. PlanFollowsMoney'
    <3> SUFFICES ASSUME NEW j \in Invoice
                 PROVE  PlanInPlace(j)'
      BY DEF PlanFollowsMoney, PlanInPlace
    <3>1. PlanDue(j, allocated[j])' <=> PlanDue(j, allocated[j])
      BY <2>1 DEF PlanDue
    <3>2. CASE j = i
      BY <2>1, <3>1, <3>2 DEF PlanInPlace
    <3>3. CASE j # i
      BY <2>1, <3>1, <3>3, PlansInPlace DEF Plans, PlanInPlace
    <3> QED BY <3>2, <3>3
  <2>4. FullRefundEndsMembership'
    <3>1. \A p \in Recorded : payments[p].invoice \in Invoice
      BY <1>a DEF Shape, RowsOK, PaymentRow, Recorded
    <3> QED BY <2>1, <3>1 DEF Plans, FullRefundEndsMembership, Recorded
  <2> QED BY <2>2, <2>3, <2>4 DEF Plans
<1> QED BY <1>2, <1>3, <1>4, <1>5, <1>6, <1>7, <1>8 DEF Issuing

\* More money never makes a plan less due.
LEMMA DueGrows ==
    ASSUME Shape, NEW i \in Invoice, NEW amt \in Nat,
           PlanDue(i, allocated[i])
    PROVE  PlanDue(i, allocated[i] + amt)
<1>1. allocated[i] \in Nat /\ total[i] \in Nat
    BY DEF Shape, RowsOK
<1>2. CASE Kind[i] = "membership"
    BY <1>1, <1>2 DEF PlanDue
<1>3. CASE Kind[i] = "academy"
    BY <1>1, <1>3 DEF PlanDue
<1> QED BY <1>2, <1>3, KindAssumption DEF PlanDue

\* A payment activates the plan it makes due, and no other.
LEMMA CollectsPlans ==
    ASSUME Once, Plans, NEW s \in Session, Collects(s)
    PROVE  Plans'
<1> DEFINE i == sess[s].inv
           amt == sess[s].amt
<1>a. Safe /\ Shape /\ Carry(sess[s])
    BY DEF Once, Safe, Carries
<1>b. /\ AimedAt(sess[s])
      /\ Promise(sess[s])
      /\ sess[s] \in SessionState
    BY <1>a, OfSession
<1>1. PICK p \in Payment : PayPost(s, p) \/ GatewayPost(s, p)
    BY DEF Collects
<1>2. /\ i \in Invoice
      /\ amt \in Amount
      /\ amt \in Nat
      /\ invoiceStatus[i] # "none"
    BY <1>1, <1>b, <1>a DEF PayPost, GatewayPost, AimedAt, Promise, PayPromise,
                            Carry, Posting, SessionState
<1>3. /\ InsertPayment(p, i, amt, sess[s].key)
      /\ ActivatePlan(i, allocated[i] + amt)
      /\ ConfirmBooking(s, i)
      /\ UNCHANGED <<invoiceStatus, total>>
    BY <1>1 DEF PayPost, GatewayPost
<1> HIDE DEF i, amt
<1>4. /\ allocated'[i] = allocated[i] + amt
      /\ \A j \in Invoice \ {i} : allocated'[j] = allocated[j]
    BY <1>a, <1>2, <1>3 DEF InsertPayment, Shape, RowsOK
<1>5. /\ \A j \in Invoice \ {i} : plan'[j] = plan[j]
      /\ plan'[i] = IF plan[i] = "pending" /\ PlanDue(i, allocated[i] + amt)
                    THEN "active" ELSE plan[i]
    BY <1>a, <1>2, <1>3 DEF ActivatePlan, Shape, RowsOK
<1>6. Kinds'
  <2>1. \A j \in Invoice : booking[j] # "none" \/ booking'[j] = booking[j]
    BY <1>a, <1>2, <1>3 DEF ConfirmBooking, Confirms, Shape, RowsOK
  <2>2. \A j \in Invoice : plan[j] # "none" \/ plan'[j] = plan[j]
    BY <1>5
  <2> QED BY <1>3, <2>1, <2>2, KindsKept DEF Plans
<1>7. PlanFollowsMoney'
  <2> SUFFICES ASSUME NEW j \in Invoice
               PROVE  PlanInPlace(j)'
    BY DEF PlanFollowsMoney, PlanInPlace
  <2>1. PlanDue(j, allocated[j])' <=> PlanDue(j, allocated'[j])
    BY <1>3 DEF PlanDue
  <2>a. PlanInPlace(j)
    BY PlansInPlace DEF Plans
  <2>2. CASE j = i
    <3>1. PlanDue(i, allocated[i]) => PlanDue(i, allocated[i] + amt)
      BY <1>a, <1>2, DueGrows
    <3> QED BY <1>3, <1>4, <1>5, <2>1, <2>2, <2>a, <3>1 DEF PlanInPlace
  <2>3. CASE j # i
    BY <1>3, <1>4, <1>5, <2>1, <2>3, <2>a DEF PlanInPlace
  <2> QED BY <2>2, <2>3
<1>8. FullRefundEndsMembership'
  <2>1. Receiving(p, amt, sess[s].key)
    BY <1>2, <1>3 DEF Receiving
  <2>2. \A q \in Recorded' :
                \/ q \in Recorded /\ payments'[q] = payments[q]
                \/ payments'[q].refunded # payments'[q].amount
    BY <1>a, <1>2, <2>1, NewUnrefunded
  <2>3. \A j \in Invoice : plan[j] = "cancelled" => plan'[j] = "cancelled"
    BY <1>5
  <2>4. \A q \in Recorded : payments[q].invoice \in Invoice
    BY <1>a DEF Shape, RowsOK, PaymentRow, Recorded
  <2> QED BY <2>2, <2>3, <2>4 DEF Plans, FullRefundEndsMembership
<1> QED BY <1>6, <1>7, <1>8 DEF Plans

\* The refund that completes a payment ends the membership it bought.
LEMMA RefundPlans ==
    ASSUME Once, Plans, NEW s \in Session, RefundPost(s)
    PROVE  Plans'
<1> DEFINE i == sess[s].inv
           amt == sess[s].amt
           p == sess[s].pay
<1>a. Safe /\ Shape
    BY DEF Once, Safe
<1>1. /\ p \in Recorded
      /\ p \in Payment
      /\ i \in Invoice
      /\ amt \in Nat
      /\ payments[p].invoice = i
      /\ invoiceStatus[i] # "none"
    BY <1>a, OfSession
       DEF RefundPost, AimedAt, Promise, RefundPromise, SessionState, Safe,
           RowsSafe, PaidOnIssued, Recorded
<1>2. /\ payments' = [payments EXCEPT
            ![p].refunded = @ + amt,
            ![p].refundKeys = @ \cup ({sess[s].key} \ {None})]
      /\ CancelMembership(i, p, amt)
      /\ UNCHANGED <<invoiceStatus, total, allocated, booking>>
    BY DEF RefundPost
<1> HIDE DEF i, amt, p
<1>3. /\ \A q \in Payment \ {p} : payments'[q] = payments[q]
      /\ payments'[p].refunded = payments[p].refunded + amt
      /\ payments'[p].amount = payments[p].amount
      /\ payments'[p].invoice = payments[p].invoice
      /\ payments[p].amount \in Nat
    BY <1>a, <1>1, <1>2 DEF Shape, RowsOK, PaymentRow
<1>4. /\ \A j \in Invoice \ {i} : plan'[j] = plan[j]
      /\ plan'[i] = IF Kind[i] = "membership" /\ FullyRefunds(p, amt)
                    THEN "cancelled" ELSE plan[i]
    BY <1>a, <1>1, <1>2 DEF CancelMembership, Shape, RowsOK
<1>5. Kinds'
    BY <1>1, <1>2, <1>4 DEF Plans, Kinds
<1>6. PlanFollowsMoney'
  <2> SUFFICES ASSUME NEW j \in Invoice
               PROVE  PlanInPlace(j)'
    BY DEF PlanFollowsMoney, PlanInPlace
  <2>1. PlanDue(j, allocated[j])' <=> PlanDue(j, allocated[j])
    BY <1>2 DEF PlanDue
  <2> QED BY <1>2, <1>4, <2>1, PlansInPlace DEF Plans, PlanInPlace
<1>7. FullRefundEndsMembership'
  <2> SUFFICES ASSUME NEW q \in Recorded',
                      Kind[payments'[q].invoice] = "membership",
                      payments'[q].refunded = payments'[q].amount
               PROVE  plan'[payments'[q].invoice] = "cancelled"
    BY DEF FullRefundEndsMembership
  <2>1. CASE q = p
    BY <1>1, <1>3, <1>4, <2>1 DEF FullyRefunds
  <2>2. CASE q # p
    <3>1. q \in Recorded /\ payments'[q] = payments[q]
      BY <1>3, <2>2 DEF Recorded
    <3>2. payments[q].invoice \in Invoice
      BY <1>a, <3>1 DEF Shape, RowsOK, PaymentRow, Recorded
    <3> QED BY <1>4, <3>1, <3>2 DEF Plans, FullRefundEndsMembership
  <2> QED BY <2>1, <2>2
<1> QED BY <1>5, <1>6, <1>7 DEF Plans

\* Nothing else touches a plan, or the price of what has one.
LEMMA OtherPlans ==
    ASSUME Once, Plans, NEW s \in Session,
           \/ Ends(s)
           \/ \E c \in Credential : RescheduleQr(s, c)
           \/ \E c \in Credential : EnsureMint(s, c)
           \/ ScanBooking(s)
    PROVE  Plans'
<1>a. /\ Safe
      /\ Shape
      /\ sess[s] \in SessionState
      /\ AimedAt(sess[s])
      /\ Promise(sess[s])
    BY OfSession DEF Once, Safe
<1>1. UNCHANGED <<allocated, payments, plan>>
    BY DEF Ends, Marks, VoidWrite, CancelInvoice, ExpireCommit, MarkNoShow,
           MarkCompleted, AutoComplete, Mark, RescheduleQr, EnsureMint,
           ScanBooking, money
<1>2. \A i \in Invoice : invoiceStatus[i] # "none" => invoiceStatus'[i] # "none"
    BY VoidKeepsIssued
       DEF Ends, Marks, VoidWrite, CancelInvoice, ExpireCommit, MarkNoShow,
           MarkCompleted, AutoComplete, Mark, RescheduleQr, EnsureMint,
           ScanBooking
<1>3. \A i \in Invoice : booking[i] # "none" \/ booking'[i] = booking[i]
  <2>1. CASE VoidWrite(s) \/ (\E c \in Credential : RescheduleQr(s, c))
                \/ (\E c \in Credential : EnsureMint(s, c))
    BY <2>1 DEF VoidWrite, RescheduleQr, EnsureMint
  <2>2. CASE CancelInvoice(s)
    BY <1>a, <2>2 DEF CancelInvoice, Promise, BookingPromise, Shape, RowsOK
  <2>3. CASE ExpireCommit(s)
    BY <1>a, <2>3 DEF ExpireCommit, Promise, ExpiryPromise
  <2>4. CASE Marks(s)
    BY <1>a, <2>4 DEF Marks, MarkNoShow, MarkCompleted, AutoComplete, Mark,
                      Shape, RowsOK
  <2>5. CASE ScanBooking(s)
    BY <1>a, <2>5 DEF ScanBooking, CheckIn, Admitted, Shape, RowsOK
  <2> QED BY <2>1, <2>2, <2>3, <2>4, <2>5 DEF Ends
<1>4. \A i \in Invoice : plan[i] = "none" \/ total'[i] = total[i]
  <2>1. CASE UNCHANGED total
    BY <2>1
  <2>2. ASSUME NEW c \in Credential, RescheduleQr(s, c)
        PROVE  \A i \in Invoice : plan[i] = "none" \/ total'[i] = total[i]
    <3>1. sess[s].inv \in Invoice
              /\ booking[sess[s].inv] \in {"pending_payment", "confirmed"}
      BY <1>a, <2>2 DEF RescheduleQr, AimedAt, Promise, BookingPromise
    <3>2. plan[sess[s].inv] = "none"
      BY <3>1 DEF Plans, Kinds
    <3>3. \A i \in Invoice \ {sess[s].inv} : total'[i] = total[i]
      BY <1>a, <2>2 DEF RescheduleQr, Shape, RowsOK
    <3> QED BY <3>2, <3>3
  <2> QED BY <2>1, <2>2
          DEF Ends, Marks, VoidWrite, CancelInvoice, ExpireCommit, MarkNoShow,
              MarkCompleted, AutoComplete, Mark, EnsureMint, ScanBooking, money
<1>5. Kinds'
    BY <1>1, <1>2, <1>3, KindsKept DEF Plans
<1> QED BY <1>a, <1>1, <1>4, <1>5, PlansQuiet DEF Recorded

\* Every step leaves the plans right.
LEMMA PlansStep ==
    ASSUME Once, Plans, [Next]_vars
    PROVE  Plans'
<1>1. CASE UNCHANGED seen
  <2>1. UNCHANGED <<invoiceStatus, money, booking, plan, payments>>
    BY <1>1 DEF seen
  <2>2. Kinds' /\ Shape
    BY <2>1, KindsKept DEF Plans, Once, Safe
  <2> QED BY <2>1, <2>2, PlansQuiet DEF money, Recorded
<1> QED BY <1>1, Writers, IssuingPlans, CollectsPlans, RefundPlans, OtherPlans

\* The invariant holds in every reachable state.
LEMMA PlansInvariant == Spec => []Plans
<1>1. Init => Plans
    BY DEF Init, Plans, Kinds, PlanFollowsMoney, FullRefundEndsMembership,
           Recorded, NoPayment
<1>2. Once /\ Plans /\ [Next]_vars => Plans'
    BY PlansStep
<1> QED BY <1>1, <1>2, OnceInvariant, PTL DEF Spec

\* A plan runs as soon as its invoice has received what the policy asks for,
\* and not before, wherever its payments come from (record_payment:416-428,
\* _apply_gateway_payment_side_effects_internal).
THEOREM PlansFollow == Spec => []PlanFollowsMoney
<1>1. Plans => PlanFollowsMoney
    BY DEF Plans
<1> QED BY <1>1, PlansInvariant, PTL

\* A payment refunded in full, by whichever refund, leaves no membership
\* running or waiting on its invoice (create_refund:87-107).
THEOREM RefundEnds == Spec => []FullRefundEndsMembership
<1>1. Plans => FullRefundEndsMembership
    BY DEF Plans
<1> QED BY <1>1, PlansInvariant, PTL

-----------------------------------------------------------------------------
(* Check-ins.                                                              *)

Over == {"checked_in", "completed", "no_show"}

\* A credential that was used belongs to a booking past its check-in.
Admissions ==
    \A c \in Credential :
        qr[c].status = "consumed" => booking[qr[c].booking] \in Over

\* A scan is about its credential's booking.
ScansKnow ==
    \A s \in Session :
        sess[s].pc = "scan.book" => qr[sess[s].cred].booking = sess[s].inv

CheckIns == Admissions /\ OneCheckInPerBooking /\ ScansKnow

\* What a step other than a check-in does to a credential and a booking.
QrKept(c) ==
    \/ qr'[c] = qr[c]
    \/ qr[c].status = "none" /\ qr'[c].status = "active"
    \/ /\ qr[c].status = "active"
       /\ qr'[c].status = "revoked"
       /\ qr'[c].booking = qr[c].booking

StaysOver(i) == booking[i] \in Over => booking'[i] \in Over

\* Minting and revoking.
LEMMA MintKeeps ==
    ASSUME Shape, NEW c \in Credential, NEW i, NEW cs,
           \/ MintQr(i, c)
           \/ qr' = Revoked(cs)
           \/ c \in Unused /\ qr' = [Revoked(cs) EXCEPT ![c] = NewCredential(i)]
    PROVE  \A d \in Credential : QrKept(d)
<1> SUFFICES ASSUME NEW d \in Credential PROVE QrKept(d)
    OBVIOUS
<1>1. qr \in [Credential -> CredentialRow] /\ qr[d] \in CredentialRow
    BY DEF Shape, RowsOK
<1>2. CASE MintQr(i, c)
    BY <1>1, <1>2 DEF MintQr, Unused, NewCredential, QrKept
<1>3. Revoked(cs)[d] = qr[d]
        \/ /\ qr[d].status = "active"
           /\ Revoked(cs)[d].status = "revoked"
           /\ Revoked(cs)[d].booking = qr[d].booking
    BY <1>1 DEF Revoked, CredentialRow
<1>4. CASE qr' = Revoked(cs)
    BY <1>3, <1>4 DEF QrKept
<1>5. CASE c \in Unused /\ qr' = [Revoked(cs) EXCEPT ![c] = NewCredential(i)]
  <2>1. CASE d = c
    BY <1>1, <1>5, <2>1 DEF Unused, NewCredential, Revoked, QrKept
  <2>2. CASE d # c
    BY <1>3, <1>5, <2>2 DEF QrKept, Revoked
  <2> QED BY <2>1, <2>2
<1> QED BY <1>2, <1>4, <1>5

\* Every step but a check-in keeps used credentials and what is over.
LEMMA CheckInsFrame ==
    ASSUME Once, [Next]_vars
    PROVE  \/ \E s \in Session : ScanBooking(s) /\ Admitted(sess[s].inv)
           \/ /\ \A c \in Credential : QrKept(c)
              /\ \A i \in Invoice : StaysOver(i)
<1> DEFINE Goal == /\ \A c \in Credential : QrKept(c)
                   /\ \A i \in Invoice : StaysOver(i)
<1>a. Safe /\ Shape
    BY DEF Once, Safe
<1>1. CASE UNCHANGED <<booking, qr>>
    BY <1>1 DEF QrKept, StaysOver
<1>2. CASE Issuing
  <2>1. ASSUME NEW i \in Invoice, NEW price, NEW c \in Credential,
               NEW new \in {"pending_payment", "confirmed"},
               Issue(i, price), booking' = [booking EXCEPT ![i] = new],
               MintQr(i, c)
        PROVE  Goal
    <3>1. booking[i] = "none"
      BY <1>a, <2>1 DEF Issue, Safe, RowsSafe, Fresh
    <3>2. \A j \in Invoice : StaysOver(j)
      BY <1>a, <2>1, <3>1 DEF StaysOver, Over, Shape, RowsOK
    <3> QED BY <1>a, <2>1, <3>2, MintKeeps
  <2> QED BY <1>1, <1>2, <2>1
          DEF Issuing, CreateBookingUnpaid, CreateBookingPaid, SellPlan,
              ActivateSubscription, CreateShopSaleUnpaid, CreateShopSale,
              HoldExpires
<1>3. ASSUME NEW s \in Session
      PROVE  /\ AimedAt(sess[s])
             /\ Promise(sess[s])
    BY <1>a, OfSession
<1>4. ASSUME NEW s \in Session, Collects(s) \/ RefundPost(s)
      PROVE  Goal
  <2>1. CASE RefundPost(s)
    BY <2>1 DEF RefundPost, QrKept, StaysOver
  <2>2. ASSUME NEW p \in Payment, PayPost(s, p) \/ GatewayPost(s, p)
        PROVE  Goal
    <3>1. UNCHANGED qr /\ ConfirmBooking(s, sess[s].inv)
      BY <2>2 DEF PayPost, GatewayPost
    <3> QED BY <1>a, <3>1
            DEF ConfirmBooking, Confirms, QrKept, StaysOver, Over, Shape, RowsOK
  <2> QED BY <1>4, <2>1, <2>2 DEF Collects
<1>5. ASSUME NEW s \in Session, Ends(s)
      PROVE  Goal
  <2>1. CASE VoidWrite(s)
    BY <2>1 DEF VoidWrite, QrKept, StaysOver
  <2>2. CASE CancelInvoice(s)
    <3>1. \A c \in Credential : QrKept(c)
      <4> SUFFICES ASSUME NEW c \in Credential PROVE QrKept(c)
        OBVIOUS
      <4>1. qr' = Revoked({d \in Credential : QrRow(d) \in sess[s].locks})
        BY <2>2 DEF CancelInvoice
      <4> QED BY <1>a, <4>1, MintKeeps
    <3>2. booking[sess[s].inv] \in {"pending_payment", "confirmed"}
      BY <1>3, <2>2 DEF CancelInvoice, Promise, BookingPromise
    <3>3. \A i \in Invoice : StaysOver(i)
      BY <1>a, <2>2, <3>2 DEF CancelInvoice, StaysOver, Over, Shape, RowsOK
    <3> QED BY <3>1, <3>3
  <2>3. CASE ExpireCommit(s)
    <3>1. \A i \in sess[s].cancels : booking[i] = "pending_payment"
      BY <1>3, <2>3 DEF ExpireCommit, Promise, ExpiryPromise
    <3> QED BY <2>3, <3>1 DEF ExpireCommit, QrKept, StaysOver, Over
  <2>4. CASE Marks(s)
    BY <1>a, <2>4 DEF Marks, MarkNoShow, MarkCompleted, AutoComplete, Mark,
                      QrKept, StaysOver, Over, Shape, RowsOK
  <2> QED BY <1>5, <2>1, <2>2, <2>3, <2>4 DEF Ends
<1>6. ASSUME NEW s \in Session, NEW c \in Credential,
             RescheduleQr(s, c) \/ EnsureMint(s, c)
      PROVE  Goal
  <2>1. /\ UNCHANGED booking
        /\ \/ MintQr(sess[s].inv, c)
           \/ /\ c \in Unused
              /\ qr' = [Revoked(Active(sess[s].inv)) EXCEPT
                            ![c] = NewCredential(sess[s].inv)]
    BY <1>6 DEF RescheduleQr, EnsureMint
  <2>2. \A d \in Credential : QrKept(d)
    BY <1>a, <2>1, MintKeeps
  <2> QED BY <2>1, <2>2 DEF StaysOver
<1>7. ASSUME NEW s \in Session, ScanBooking(s), ~Admitted(sess[s].inv)
      PROVE  UNCHANGED <<booking, qr>>
    BY <1>7 DEF ScanBooking
<1>8. CASE UNCHANGED seen
    BY <1>1, <1>8 DEF seen
<1> HIDE DEF Goal
<1>9. Goal \/ \E s \in Session : ScanBooking(s) /\ Admitted(sess[s].inv)
  <2>1. UNCHANGED <<booking, qr>> => Goal
    BY DEF Goal, QrKept, StaysOver
  <2>2. UNCHANGED seen => Goal
    BY <2>1 DEF seen
  <2>3. Issuing => Goal \/ \E s \in Session : ScanBooking(s)
                                        /\ Admitted(sess[s].inv)
    BY <1>2 DEF Goal
  <2> QED BY <1>4, <1>5, <1>6, <1>7, <2>1, <2>2, <2>3, Writers
<1> QED BY <1>9 DEF Goal

\* A scan keeps knowing its credential's booking.
LEMMA ScansStep ==
    ASSUME Once, ScansKnow, [Next]_vars,
           \A c \in Credential :
                qr[c].status # "none" => qr'[c].booking = qr[c].booking
    PROVE  ScansKnow'
<1> SUFFICES ASSUME NEW t \in Session, sess'[t].pc = "scan.book"
             PROVE  qr'[sess'[t].cred].booking = sess'[t].inv
    BY DEF ScansKnow
<1>a. /\ Safe
      /\ Shape
      /\ AimedAt(sess[t])
      /\ sess[t] \in SessionState
    BY OfSession DEF Once, Safe
<1>1. CASE sess'[t] = sess[t]
    BY <1>a, <1>1 DEF AimedAt, ScansKnow
<1>2. ASSUME NEW c \in Credential, ScanCredential(t, c)
      PROVE  qr'[sess'[t].cred].booking = sess'[t].inv
  <2>1. sess'[t].cred = c /\ sess'[t].inv = qr[c].booking
    BY <1>a, <1>2 DEF ScanCredential, Become, Idle, Shape
  <2> QED BY <1>2, <2>1 DEF ScanCredential, rows
<1> QED BY <1>a, <1>1, <1>2, Arrivals DEF Critical

\* No booking is checked in a second time.
LEMMA CheckInsStep ==
    ASSUME Once, CheckIns, [Next]_vars
    PROVE  CheckIns'
<1>a. /\ Safe
      /\ Shape
      /\ \A c \in Credential : qr[c] \in CredentialRow
      /\ \A c \in Credential : qr[c].status # "none" => qr[c].booking \in Invoice
    BY DEF Once, Safe, Shape, RowsOK, Minted
<1>1. CASE /\ \A c \in Credential : QrKept(c)
           /\ \A i \in Invoice : StaysOver(i)
  <2>1. \A c \in Credential : qr'[c].status = "consumed" => qr'[c] = qr[c]
    BY <1>1 DEF QrKept
  <2>2. Admissions'
    BY <1>a, <1>1, <2>1 DEF CheckIns, Admissions, StaysOver
  <2>3. OneCheckInPerBooking'
    BY <2>1 DEF CheckIns, OneCheckInPerBooking
  <2>4. ScansKnow'
    BY <1>1, ScansStep DEF CheckIns, QrKept
  <2> QED BY <2>2, <2>3, <2>4 DEF CheckIns
<1>2. ASSUME NEW s \in Session, ScanBooking(s), Admitted(sess[s].inv)
      PROVE  CheckIns'
  <2> DEFINE i == sess[s].inv
             c == sess[s].cred
  <2>1. /\ c \in Credential
        /\ i \in Invoice
        /\ qr[c].status # "none"
        /\ qr[c].booking = i
    BY <1>a, <1>2, OfSession DEF ScanBooking, AimedAt, CheckIns, ScansKnow
  <2>2. /\ booking[i] \in {"pending_payment", "confirmed"}
        /\ booking' = [booking EXCEPT ![i] = "checked_in"]
        /\ qr' = [qr EXCEPT ![c].status = "consumed"]
    BY <1>2 DEF ScanBooking, Admitted, CheckIn
  <2> HIDE DEF i, c
  <2>3. /\ \A d \in Credential \ {c} : qr'[d] = qr[d]
        /\ qr'[c].booking = qr[c].booking
        /\ booking'[i] = "checked_in"
        /\ \A j \in Invoice \ {i} : booking'[j] = booking[j]
    BY <1>a, <2>1, <2>2 DEF Shape, RowsOK, CredentialRow
\* The booking was not over, so none of its credentials had been used.
  <2>4. \A d \in Credential : qr[d].status = "consumed" => qr[d].booking # i
    BY <2>2 DEF CheckIns, Admissions, Over
  <2>5. Admissions'
    <3> SUFFICES ASSUME NEW d \in Credential, qr'[d].status = "consumed"
                 PROVE  booking'[qr'[d].booking] \in Over
      BY DEF Admissions
    <3>1. CASE d = c
      BY <2>1, <2>3, <3>1 DEF Over
    <3>2. CASE d # c
      BY <1>a, <2>3, <2>4, <3>2 DEF CheckIns, Admissions
    <3> QED BY <3>1, <3>2
  <2>6. OneCheckInPerBooking'
    BY <2>1, <2>3, <2>4 DEF CheckIns, OneCheckInPerBooking
  <2>7. ScansKnow'
    BY <2>1, <2>3, ScansStep DEF CheckIns
  <2> QED BY <2>5, <2>6, <2>7 DEF CheckIns
<1> QED BY <1>1, <1>2, CheckInsFrame

\* The invariant holds in every reachable state.
LEMMA CheckInsInvariant == Spec => []CheckIns
<1>1. Init => CheckIns
    BY DEF Init, CheckIns, Admissions, OneCheckInPerBooking, ScansKnow,
           NoCredential, Idle
<1>2. Once /\ CheckIns /\ [Next]_vars => CheckIns'
    BY CheckInsStep
<1> QED BY <1>1, <1>2, OnceInvariant, PTL DEF Spec

\* Of all the active credentials of a booking at most one is ever used,
\* however many are scanned at once (qr_confirm_checkin:318-368).
THEOREM OneCheckIn == Spec => []OneCheckInPerBooking
<1>1. CheckIns => OneCheckInPerBooking
    BY DEF CheckIns
<1> QED BY <1>1, CheckInsInvariant, PTL

-----------------------------------------------------------------------------
(* Confirmations.                                                          *)

Returned == \A i \in Invoice : returned[i] <= refunded[i]

\* A session in state r that will confirm brings what is missing.
Cover(r) ==
    r.pc \in {"pay.post", "gw.post"} /\ r.full =>
        allocated[r.inv] + r.amt >= total[r.inv]

Covers == Returned /\ \A s \in Session : Cover(sess[s])

\* An amount accepted that clears what is owed covers the price.
LEMMA ClearsCover ==
    ASSUME Safe, Returned, NEW i \in Invoice, NEW amt \in Amount,
           amt <= Owed(i), Owed(i) <= amt
    PROVE  allocated[i] + amt >= total[i]
<1>1. /\ allocated[i] \in Nat
      /\ total[i] \in Nat
      /\ refunded[i] \in Nat
      /\ returned[i] \in Nat
      /\ returned[i] <= refunded[i]
      /\ amt \in Nat
      /\ amt > 0
    BY AmountAssumption DEF Safe, Shape, RowsOK, Returned
<1> QED BY <1>1 DEF Owed, OwedAt, Reopened

\* Only a refund that is posted writes what was given back.
LEMMA RefundsAlone ==
    ASSUME [Next]_vars
    PROVE  \/ UNCHANGED <<refunded, returned>>
           \/ \E s \in Session : RefundPost(s)
<1>1. Issuing => UNCHANGED <<refunded, returned>>
    BY DEF Issuing, CreateBookingUnpaid, CreateBookingPaid, SellPlan,
           ActivateSubscription, CreateShopSaleUnpaid, CreateShopSale,
           HoldExpires, money
<1>2. \A s \in Session :
        \/ Collects(s)
        \/ Ends(s)
        \/ \E c \in Credential : RescheduleQr(s, c)
        \/ \E c \in Credential : EnsureMint(s, c)
        \/ ScanBooking(s)
      => UNCHANGED <<refunded, returned>>
    BY DEF Collects, PayPost, GatewayPost, Ends, Marks, VoidWrite,
           CancelInvoice, ExpireCommit, MarkNoShow, MarkCompleted,
           AutoComplete, Mark, RescheduleQr, EnsureMint, ScanBooking, money
<1>3. UNCHANGED seen => UNCHANGED <<refunded, returned>>
    BY DEF seen, money
<1> QED BY <1>1, <1>2, <1>3, Writers

\* What is returned is refunded.
LEMMA ReturnedStep ==
    ASSUME Once, Returned, [Next]_vars
    PROVE  Returned'
<1>a. /\ Safe
      /\ Shape
      /\ \A i \in Invoice : returned[i] \in Nat /\ refunded[i] \in Nat
    BY DEF Once, Safe, Shape, RowsOK
<1>1. CASE UNCHANGED <<refunded, returned>>
    BY <1>1 DEF Returned
<1>2. ASSUME NEW s \in Session, RefundPost(s)
      PROVE  Returned'
  <2>1. sess[s].inv \in Invoice /\ sess[s].amt \in Nat
    BY <1>a, <1>2, OfSession DEF RefundPost, AimedAt, SessionState
  <2>2. \A i \in Invoice \ {sess[s].inv} : returned'[i] = returned[i]
                                          /\ refunded'[i] = refunded[i]
    BY <1>a, <1>2 DEF RefundPost, Shape, RowsOK
  <2>3. /\ refunded'[sess[s].inv] = refunded[sess[s].inv] + sess[s].amt
        /\ \/ returned'[sess[s].inv] = returned[sess[s].inv]
           \/ returned'[sess[s].inv] = returned[sess[s].inv] + sess[s].amt
    BY <1>a, <1>2, <2>1 DEF RefundPost, Shape, RowsOK
  <2> QED BY <1>a, <2>1, <2>2, <2>3 DEF Returned
<1> QED BY <1>1, <1>2, RefundsAlone

\* Without reschedulings only a new invoice and a payment that holds the
\* invoice's lock write what an invoice has received and asks.
LEMMA MoneyStays ==
    ASSUME Once, ~Repricing, [Next]_vars, NEW t \in Session, NEW i \in Invoice,
           invoiceStatus[i] # "none", InvoiceRow(i) \in sess[t].locks
    PROVE  \/ allocated'[i] = allocated[i] /\ total'[i] = total[i]
           \/ Collects(t)
<1>a. Safe /\ Shape /\ Exclusive
    BY DEF Once, Safe
<1>1. ASSUME Issuing
      PROVE  allocated'[i] = allocated[i] /\ total'[i] = total[i]
  <2>1. ASSUME NEW j \in Invoice, NEW price, Issue(j, price),
               \/ UNCHANGED allocated
               \/ \E p, amt, key : InsertPayment(p, j, amt, key)
        PROVE  allocated'[i] = allocated[i] /\ total'[i] = total[i]
    <3>1. i # j
      BY <2>1 DEF Issue
    <3> QED BY <1>a, <2>1, <3>1 DEF Issue, InsertPayment, Shape, RowsOK
  <2> QED BY <1>1, <2>1
          DEF Issuing, CreateBookingUnpaid, CreateBookingPaid, SellPlan,
              ActivateSubscription, CreateShopSaleUnpaid, CreateShopSale,
              HoldExpires, money
<1>2. ASSUME NEW s \in Session, Collects(s), s # t
      PROVE  allocated'[i] = allocated[i] /\ total'[i] = total[i]
  <2>1. InvoiceRow(sess[s].inv) \in sess[s].locks
    BY <1>a, <1>2, OfSession
       DEF Collects, PayPost, GatewayPost, Promise, PayPromise
  <2>2. sess[s].inv # i
    BY <1>a, <1>2, <2>1 DEF Exclusive
  <2> QED BY <1>a, <1>2, <2>2
          DEF Collects, PayPost, GatewayPost, InsertPayment, Shape, RowsOK
<1>3. ASSUME NEW s \in Session, NEW c \in Credential, RescheduleQr(s, c)
      PROVE  FALSE
    BY <1>a, <1>3, OfSession DEF RescheduleQr, Promise, PricePromise
<1>4. \A s \in Session :
        \/ RefundPost(s)
        \/ Ends(s)
        \/ \E c \in Credential : EnsureMint(s, c)
        \/ ScanBooking(s)
      => UNCHANGED <<allocated, total>>
    BY DEF RefundPost, Ends, Marks, VoidWrite, CancelInvoice, ExpireCommit,
           MarkNoShow, MarkCompleted, AutoComplete, Mark, EnsureMint,
           ScanBooking, money
<1>5. UNCHANGED seen => UNCHANGED <<allocated, total>>
    BY DEF seen, money
<1> QED BY <1>1, <1>2, <1>3, <1>4, <1>5, Writers

\* A session that will confirm keeps bringing what is missing.
LEMMA CoversStep ==
    ASSUME Once, Covers, ~Repricing, [Next]_vars
    PROVE  Covers'
<1>1. Returned'
    BY ReturnedStep DEF Covers
<1>2. ASSUME NEW t \in Session
      PROVE  Cover(sess[t])'
  <2>a. /\ Safe
        /\ Shape
        /\ sess[t] \in SessionState
        /\ AimedAt(sess[t])
        /\ Promise(sess[t])
        /\ Carry(sess[t])
        /\ Cover(sess[t])
        /\ Returned
    BY OfSession DEF Once, Safe, Carries, Covers
  <2> SUFFICES ASSUME sess'[t].pc \in {"pay.post", "gw.post"}, sess'[t].full
               PROVE  allocated'[sess'[t].inv] + sess'[t].amt
                        >= total'[sess'[t].inv]
    BY DEF Cover
  <2>1. CASE sess'[t] = sess[t]
    <3>1. /\ sess[t].inv \in Invoice
          /\ invoiceStatus[sess[t].inv] # "none"
          /\ InvoiceRow(sess[t].inv) \in sess[t].locks
      BY <2>a, <2>1 DEF AimedAt, Promise, PayPromise
    <3>2. ~Collects(t)
      BY <2>a, <2>1 DEF Collects, PayPost, GatewayPost, End, Become, Idle, Shape
    <3>3. /\ allocated'[sess[t].inv] = allocated[sess[t].inv]
          /\ total'[sess[t].inv] = total[sess[t].inv]
      BY <3>1, <3>2, MoneyStays
    <3> QED BY <2>a, <2>1, <3>3 DEF Cover
  <2>2. CASE PayLock(t) \/ GatewayLockInvoice(t)
    <3> DEFINE i == sess[t].inv
    <3>1. /\ i \in Invoice
          /\ sess[t].amt \in Amount
          /\ sess[t].amt \in Nat
          /\ UNCHANGED <<allocated, total>>
      BY <2>a, <2>2 DEF PayLock, GatewayLockInvoice, AimedAt, Carry, Posting,
                        SessionState, rows, money
    <3>2. sess'[t].inv = i /\ sess'[t].amt = sess[t].amt
      <4>1. CASE PayLock(t)
        BY <2>a, <4>1 DEF PayLock, Become, Shape, SessionState
      <4>2. CASE GatewayLockInvoice(t)
        BY <2>a, <4>2 DEF GatewayLockInvoice, Become, Shape, SessionState
      <4> QED BY <2>2, <4>1, <4>2
    <3>3. Owed(i) \in Int
      BY <2>a, <3>1 DEF Owed, OwedAt, Reopened, Shape, RowsOK
    <3>4. CASE PayLock(t)
      <4>1. sess[t].price = total[i]
        BY <2>a, <3>4 DEF PayLock, Promise, PayPromise
      <4>2. PayBalance(t) = Owed(i)
        BY <4>1 DEF PayBalance, Owed
      <4>3. sess[t].amt <= Owed(i)
        BY <3>1, <3>3, <3>4, <4>2 DEF PayLock, PayRefused
      <4>4. Owed(i) <= sess[t].amt
        BY <2>a, <3>4, <4>2 DEF PayLock, Become, Shape, SessionState
      <4> QED BY <2>a, <3>1, <3>2, <4>3, <4>4, ClearsCover
    <3>5. CASE GatewayLockInvoice(t)
      <4>1. invoiceStatus[i] = "issued"
        BY <3>5 DEF GatewayLockInvoice, GatewayRefused
      <4>2. Outstanding(i) = Owed(i)
        BY <4>1 DEF Outstanding
      <4>3. sess[t].amt <= Owed(i)
        BY <3>1, <3>3, <3>5, <4>2 DEF GatewayLockInvoice, GatewayRefused
      <4>4. Owed(i) <= sess[t].amt
        BY <2>a, <3>5, <4>2 DEF GatewayLockInvoice, Become, Shape, SessionState
      <4> QED BY <2>a, <3>1, <3>2, <4>3, <4>4, ClearsCover
    <3> QED BY <2>2, <3>4, <3>5
  <2> QED BY <2>a, <2>1, <2>2, Arrivals DEF Critical
<1> QED BY <1>1, <1>2 DEF Covers

\* As long as no booking is rescheduled, one that waited for its payment is
\* confirmed only when the payments on its invoice cover the price
\* (record_payment:406-414).
THEOREM ConfirmedCovered ==
    ASSUME ~Repricing
    PROVE  Spec => ConfirmedWhenCovered
<1> DEFINE Confirmed(i) ==
        booking[i] = "pending_payment" /\ booking'[i] = "confirmed"
            => allocated'[i] >= total'[i]
<1>1. Init => Covers
    BY DEF Init, Covers, Returned, Cover, Idle
<1>2. Once /\ Covers /\ [Next]_vars => Covers'
    BY CoversStep
<1>3. ASSUME Once, Covers, [Next]_vars, NEW i \in Invoice
      PROVE  Confirmed(i)
  <2> SUFFICES ASSUME booking[i] = "pending_payment",
                      booking'[i] = "confirmed"
               PROVE  allocated'[i] >= total'[i]
    OBVIOUS
  <2>a. Safe /\ Shape
    BY <1>3 DEF Once, Safe
  <2>1. ASSUME NEW s \in Session, Collects(s)
        PROVE  allocated'[i] >= total'[i]
    <3>1. sess[s].inv \in Invoice /\ sess[s].amt \in Nat
      BY <2>a, <2>1, OfSession
         DEF Collects, PayPost, GatewayPost, AimedAt, SessionState
    <3>2. sess[s].inv = i /\ sess[s].full
      BY <2>a, <2>1 DEF Collects, PayPost, GatewayPost, ConfirmBooking,
                        Confirms, Shape, RowsOK
    <3>3. allocated[i] + sess[s].amt >= total[i]
      BY <1>3, <2>1, <3>2 DEF Covers, Cover, Collects, PayPost, GatewayPost
    <3>4. allocated'[i] = allocated[i] + sess[s].amt /\ total'[i] = total[i]
      BY <2>a, <2>1, <3>1, <3>2
         DEF Collects, PayPost, GatewayPost, InsertPayment, Shape, RowsOK
    <3> QED BY <3>3, <3>4
  <2>2. ~Issuing
    <3>1. ASSUME NEW j \in Invoice, NEW price, Issue(j, price)
          PROVE  j # i
      BY <2>a, <3>1 DEF Issue, Safe, RowsSafe, Fresh
    <3> QED BY <2>a, <3>1
            DEF Issuing, CreateBookingUnpaid, CreateBookingPaid, SellPlan,
                ActivateSubscription, CreateShopSaleUnpaid, CreateShopSale,
                HoldExpires, Shape, RowsOK
  <2>3. \A s \in Session :
            \/ RefundPost(s)
            \/ VoidWrite(s)
            \/ \E c \in Credential : RescheduleQr(s, c)
            \/ \E c \in Credential : EnsureMint(s, c)
          => UNCHANGED booking
    BY DEF RefundPost, VoidWrite, RescheduleQr, EnsureMint
  <2>4. \A s \in Session : ~CancelInvoice(s) /\ ~ExpireCommit(s)
    BY <2>a DEF CancelInvoice, ExpireCommit, Shape, RowsOK
  <2>5. \A s \in Session : ~Marks(s)
    BY <2>a DEF Marks, MarkNoShow, MarkCompleted, AutoComplete, Mark, Shape,
                RowsOK
  <2>6. \A s \in Session : ~ScanBooking(s)
    BY <2>a DEF ScanBooking, CheckIn, Shape, RowsOK
  <2>7. ~UNCHANGED booking
    OBVIOUS
  <2> QED BY <1>3, <2>1, <2>2, <2>3, <2>4, <2>5, <2>6, <2>7, Writers
          DEF Ends, seen
<1>4. Once /\ Covers /\ [Next]_vars => [\A i \in Invoice : Confirmed(i)]_vars
    BY <1>3
<1> QED BY <1>1, <1>2, <1>4, OnceInvariant, PTL DEF Spec, ConfirmedWhenCovered

-----------------------------------------------------------------------------
(* Voids.  A staff void and the expiry job sum the payments of an invoice  *)
(* without its lock; a cancellation sums them under it.                    *)

UnlockedVoids == {"void_invoice", "expire_stale_booking_holds"}

Voids ==
    /\ VoidMeansUnpaid
    /\ \A s \in Session :
        /\ sess[s].pc \in {"pay.post", "gw.post"} =>
                invoiceStatus[sess[s].inv] = "issued"
        /\ sess[s].pc \notin {"void.write", "expire.book", "expire.void"}

\* An invoice changes its status when it is issued or cancelled unpaid.
LEMMA StatusStays ==
    ASSUME Once, Voids, [Next]_vars, NEW i \in Invoice
    PROVE  \/ invoiceStatus'[i] = invoiceStatus[i]
           \/ invoiceStatus[i] = "none" /\ invoiceStatus'[i] = "issued"
           \/ \E s \in Session :
                CancelInvoice(s) /\ sess[s].inv = i /\ allocated[i] = 0
<1>a. Safe /\ Shape
    BY DEF Once, Safe
<1>1. ASSUME Issuing
      PROVE  \/ invoiceStatus'[i] = invoiceStatus[i]
             \/ invoiceStatus[i] = "none" /\ invoiceStatus'[i] = "issued"
  <2>1. ASSUME NEW j \in Invoice, NEW price, Issue(j, price)
        PROVE  \/ invoiceStatus'[i] = invoiceStatus[i]
               \/ invoiceStatus[i] = "none" /\ invoiceStatus'[i] = "issued"
    BY <1>a, <2>1 DEF Issue, Shape, RowsOK
  <2> QED BY <1>1, <2>1
          DEF Issuing, CreateBookingUnpaid, CreateBookingPaid, SellPlan,
              ActivateSubscription, CreateShopSaleUnpaid, CreateShopSale,
              HoldExpires
<1>2. \A s \in Session : ~VoidWrite(s) /\ ~ExpireCommit(s)
    BY DEF Voids, VoidWrite, ExpireCommit
<1>3. ASSUME NEW s \in Session, CancelInvoice(s)
      PROVE  \/ invoiceStatus'[i] = invoiceStatus[i]
             \/ sess[s].inv = i /\ allocated[i] = 0
    BY <1>3 DEF CancelInvoice, VoidIssued
<1>4. \A s \in Session :
        \/ Collects(s)
        \/ RefundPost(s)
        \/ Marks(s)
        \/ \E c \in Credential : RescheduleQr(s, c)
        \/ \E c \in Credential : EnsureMint(s, c)
        \/ ScanBooking(s)
      => UNCHANGED invoiceStatus
    BY DEF Collects, PayPost, GatewayPost, RefundPost, Marks, MarkNoShow,
           MarkCompleted, AutoComplete, Mark, RescheduleQr, EnsureMint,
           ScanBooking
<1> QED BY <1>1, <1>2, <1>3, <1>4, Writers DEF Ends, seen

\* An invoice receives money when it is issued and when a payment is posted.
LEMMA AllocatedStays ==
    ASSUME Once, [Next]_vars, NEW i \in Invoice
    PROVE  \/ allocated'[i] = allocated[i]
           \/ invoiceStatus'[i] = "issued"
           \/ \E s \in Session : Collects(s) /\ sess[s].inv = i
<1>a. Shape
    BY DEF Once, Safe
<1>1. ASSUME Issuing
      PROVE  allocated'[i] = allocated[i] \/ invoiceStatus'[i] = "issued"
  <2>1. ASSUME NEW j \in Invoice, NEW price, Issue(j, price),
               \/ UNCHANGED allocated
               \/ \E p, amt, key : InsertPayment(p, j, amt, key)
        PROVE  allocated'[i] = allocated[i] \/ invoiceStatus'[i] = "issued"
    BY <1>a, <2>1 DEF Issue, InsertPayment, Shape, RowsOK
  <2> QED BY <1>1, <2>1
          DEF Issuing, CreateBookingUnpaid, CreateBookingPaid, SellPlan,
              ActivateSubscription, CreateShopSaleUnpaid, CreateShopSale,
              HoldExpires, money
<1>2. ASSUME NEW s \in Session, Collects(s), sess[s].inv # i
      PROVE  allocated'[i] = allocated[i]
    BY <1>a, <1>2 DEF Collects, PayPost, GatewayPost, InsertPayment, Shape,
                      RowsOK
<1>3. \A s \in Session :
        \/ RefundPost(s)
        \/ Ends(s)
        \/ \E c \in Credential : RescheduleQr(s, c)
        \/ \E c \in Credential : EnsureMint(s, c)
        \/ ScanBooking(s)
      => UNCHANGED allocated
    BY DEF RefundPost, Ends, Marks, VoidWrite, CancelInvoice, ExpireCommit,
           MarkNoShow, MarkCompleted, AutoComplete, Mark, RescheduleQr,
           EnsureMint, ScanBooking, money
<1> QED BY <1>1, <1>2, <1>3, Writers DEF seen, money

\* No step voids an invoice that has received something, or posts a payment
\* on one that is void.
LEMMA VoidsStep ==
    ASSUME Once, Voids, UnlockedVoids \cap Op = {}, [Next]_vars
    PROVE  Voids'
<1>a. Safe /\ Shape /\ Exclusive
    BY DEF Once, Safe
<1>1. VoidMeansUnpaid'
  <2> SUFFICES ASSUME NEW i \in Invoice, invoiceStatus'[i] = "void"
               PROVE  allocated'[i] = 0
    BY DEF VoidMeansUnpaid
  <2>1. ASSUME NEW s \in Session, Collects(s), sess[s].inv = i
        PROVE  FALSE
    BY <2>1 DEF Voids, Collects, PayPost, GatewayPost
  <2>2. allocated'[i] = allocated[i]
    BY <2>1, AllocatedStays
  <2>3. invoiceStatus[i] = "void" \/ allocated[i] = 0
    BY StatusStays
  <2> QED BY <2>2, <2>3 DEF Voids, VoidMeansUnpaid
<1>2. ASSUME NEW t \in Session, sess'[t].pc \in {"pay.post", "gw.post"}
      PROVE  invoiceStatus'[sess'[t].inv] = "issued"
  <2>a. /\ sess[t] \in SessionState
        /\ AimedAt(sess[t])
        /\ Promise(sess[t])
    BY <1>a, OfSession
  <2>1. CASE sess'[t] = sess[t]
    <3>1. /\ sess[t].inv \in Invoice
          /\ InvoiceRow(sess[t].inv) \in sess[t].locks
          /\ invoiceStatus[sess[t].inv] = "issued"
      BY <1>2, <2>a, <2>1 DEF AimedAt, Promise, PayPromise, Voids
    <3>2. ASSUME NEW s \in Session, CancelInvoice(s), sess[s].inv = sess[t].inv
          PROVE  FALSE
      <4>1. s = t
        BY <3>1, <3>2 DEF CancelInvoice, Free
      <4> QED BY <1>2, <2>1, <3>2, <4>1 DEF CancelInvoice
    <3> QED BY <2>1, <3>1, <3>2, StatusStays
  <2>2. CASE PayLock(t)
    BY <1>a, <2>a, <2>2 DEF PayLock, PayRefused, Become, Shape, SessionState,
                            rows
  <2>3. CASE GatewayLockInvoice(t)
    BY <1>a, <2>a, <2>3 DEF GatewayLockInvoice, GatewayRefused, Become, Shape,
                            SessionState, rows
  <2> QED BY <1>a, <1>2, <2>1, <2>2, <2>3, Arrivals DEF Critical
<1>3. ASSUME NEW t \in Session
      PROVE  sess'[t].pc \notin {"void.write", "expire.book", "expire.void"}
  <2>1. sess[t].pc \notin {"void.write", "expire.book", "expire.void"}
    BY DEF Voids
  <2>2. ~Expires(t) /\ \A i \in Invoice : ~VoidRead(t, i)
    BY <2>1 DEF Expires, ExpireBegin, ExpireBook, ExpireTake, ExpireVoid,
                VoidRead, UnlockedVoids
  <2> QED BY <1>a, <2>1, <2>2, Arrivals DEF Critical
<1> QED BY <1>1, <1>2, <1>3 DEF Voids

\* Where invoices are voided by cancellations only, one that is void has
\* received nothing (cancel_booking:461-470).
THEOREM VoidsUnpaid ==
    ASSUME UnlockedVoids \cap Op = {}
    PROVE  Spec => []VoidMeansUnpaid
<1>1. Init => Voids
    BY DEF Init, Voids, VoidMeansUnpaid, Idle
<1>2. Once /\ Voids /\ [Next]_vars => Voids'
    BY VoidsStep
<1>3. Voids => VoidMeansUnpaid
    BY DEF Voids
<1> QED BY <1>1, <1>2, <1>3, OnceInvariant, PTL DEF Spec

-----------------------------------------------------------------------------
(* Check-ins of those who paid.                                            *)

\* The RPCs after which an invoice owes nothing that nobody has paid.
Waivers == {"create_refund", "create_gateway_refund_service", "void_invoice"}

\* What a session in state r is about to void is a booking it cancels, what it
\* gives back is a shop's.
Spares(r) ==
    /\ r.pc = "refund.post" => Kind[r.inv] = "shop"
    /\ r.pc # "void.write"
    /\ r.pc = "expire.void" => r.inv \in r.cancels
    /\ r.pc \in {"expire.book", "expire.void"} => r.voids \subseteq r.cancels

Unspoilt ==
    /\ \A i \in Invoice :
        /\ refunded[i] # 0 => Kind[i] = "shop"
        /\ invoiceStatus[i] = "void" => booking[i] = "cancelled"
    /\ \A s \in Session : Spares(sess[s])

\* No session comes to spoil a booking that goes on.
LEMMA SparesStep ==
    ASSUME Safe, Unspoilt, Waivers \cap Op = {}, [Next]_vars, NEW t \in Session
    PROVE  Spares(sess'[t])
<1>a. Shape /\ sess[t] \in SessionState /\ Spares(sess[t])
    BY DEF Safe, Shape, Unspoilt
<1>1. CASE sess'[t] = sess[t] \/ sess'[t].pc \notin Critical
    BY <1>a, <1>1 DEF Spares, Critical
<1>2. CASE sess'[t].pc \in {"pay.post", "gw.post", "scan.book"}
    BY <1>2 DEF Spares
<1>3. ASSUME NEW r, Become(t, r), Spares(r)
      PROVE  Spares(sess'[t])
    BY <1>a, <1>3 DEF Become, Shape
<1>4. CASE Refunds(t)
  <2>1. /\ \A p, amt, key : ~CreateRefund(t, p, amt, key)
        /\ \A p, u, amt, key : ~CreateGatewayRefund(t, p, u, amt, key)
    BY DEF CreateRefund, CreateGatewayRefund, Waivers
  <2>2. ASSUME NEW p \in Payment, NEW amt \in Amount, ReturnShopSale(t, p, amt)
        PROVE  Spares(sess'[t])
    BY <1>3, <2>2 DEF ReturnShopSale, RefundLock, Spares, Idle
  <2> QED BY <1>4, <2>1, <2>2 DEF Refunds
<1>5. \A i \in Invoice : ~VoidRead(t, i)
    BY DEF VoidRead, Waivers
<1>6. CASE ExpireBegin(t)
    BY <1>3, <1>6 DEF ExpireBegin, Spares, Idle
<1>7. ASSUME NEW i \in Invoice, ExpireBook(t, i)
      PROVE  Spares(sess'[t])
  <2> DEFINE still == booking[i] = "pending_payment"
             r == [sess[t] EXCEPT
          !.todo = sess[t].todo \ {i},
          !.inv = i,
          !.pc = IF still /\ allocated[i] = 0 THEN "expire.void" ELSE @,
          !.locks = IF still THEN @ \cup {BookingRow(i)} ELSE @,
          !.cancels = IF still THEN @ \cup {i} ELSE @]
  <2>1. Become(t, r) /\ sess[t].pc = "expire.book"
    BY <1>7 DEF ExpireBook, ExpireTake
  <2>2. /\ r.pc = IF still /\ allocated[i] = 0 THEN "expire.void"
                  ELSE "expire.book"
        /\ r.inv = i
        /\ r.voids = sess[t].voids
        /\ r.cancels = IF still THEN sess[t].cancels \cup {i}
                       ELSE sess[t].cancels
    BY <1>a, <2>1 DEF SessionState
  <2> HIDE DEF r, still
  <2>3. Spares(r)
    BY <1>a, <2>1, <2>2 DEF Spares
  <2> QED BY <1>3, <2>1, <2>3
<1>8. CASE ExpireVoid(t)
  <2> DEFINE i == sess[t].inv
             issued == invoiceStatus[i] = "issued"
             r == [sess[t] EXCEPT
          !.pc = "expire.book",
          !.locks = IF issued THEN @ \cup {InvoiceRow(i)} ELSE @,
          !.voids = IF issued THEN @ \cup {i} ELSE @]
  <2>1. Become(t, r) /\ sess[t].pc = "expire.void"
    BY <1>8 DEF ExpireVoid
  <2>2. /\ r.pc = "expire.book"
        /\ r.cancels = sess[t].cancels
        /\ r.voids = IF issued THEN sess[t].voids \cup {i} ELSE sess[t].voids
    BY <1>a DEF SessionState
  <2>3. i \in sess[t].cancels
    BY <1>a, <2>1 DEF Spares
  <2> HIDE DEF r, issued, i
  <2>4. Spares(r)
    BY <1>a, <2>1, <2>2, <2>3 DEF Spares
  <2> QED BY <1>3, <2>1, <2>4
<1> QED BY <1>1, <1>2, <1>4, <1>5, <1>6, <1>7, <1>8, Arrivals DEF Expires

\* No booking that goes on has its invoice voided or its payments given back.
LEMMA UnspoiltStep ==
    ASSUME Once, Unspoilt, Waivers \cap Op = {}, [Next]_vars
    PROVE  Unspoilt'
<1>a. Safe /\ Shape
    BY DEF Once, Safe
<1>1. ASSUME NEW t \in Session
      PROVE  Spares(sess[t])'
    BY <1>a, SparesStep DEF Spares
<1>2. ASSUME NEW i \in Invoice, refunded'[i] # 0
      PROVE  Kind[i] = "shop"
  <2>1. CASE refunded'[i] = refunded[i]
    BY <1>2, <2>1 DEF Unspoilt
  <2>2. ASSUME NEW s \in Session, RefundPost(s)
        PROVE  Kind[i] = "shop"
    <3>1. Kind[sess[s].inv] = "shop"
      BY <2>2 DEF RefundPost, Unspoilt, Spares
    <3>2. sess[s].inv = i \/ refunded'[i] = refunded[i]
      BY <1>a, <2>2 DEF RefundPost, Shape, RowsOK
    <3> QED BY <2>1, <3>1, <3>2
  <2> QED BY <2>1, <2>2, RefundsAlone
<1>3. ASSUME NEW i \in Invoice, invoiceStatus'[i] = "void"
      PROVE  booking'[i] = "cancelled"
  <2>1. CASE invoiceStatus[i] = "void"
    BY <1>a, <2>1, SafeStep DEF Unspoilt, Kept
  <2>2. CASE invoiceStatus'[i] = invoiceStatus[i]
    BY <1>3, <2>1, <2>2
  <2>3. ASSUME NEW s \in Session, CancelInvoice(s)
        PROVE  booking'[i] = "cancelled"
    <3>1. sess[s].inv = i \/ invoiceStatus'[i] = invoiceStatus[i]
      BY <2>3 DEF CancelInvoice, VoidIssued
    <3> QED BY <1>a, <2>2, <2>3, <3>1 DEF CancelInvoice, Shape, RowsOK
  <2>4. ASSUME NEW s \in Session, ExpireCommit(s)
        PROVE  booking'[i] = "cancelled"
    <3>1. i \in sess[s].voids \/ invoiceStatus'[i] = invoiceStatus[i]
      BY <2>4 DEF ExpireCommit, VoidIssued
    <3> QED BY <2>2, <2>4, <3>1 DEF ExpireCommit, Unspoilt, Spares
  <2>5. \A s \in Session : ~VoidWrite(s)
    BY DEF VoidWrite, Unspoilt, Spares
  <2>6. ~Issuing \/ invoiceStatus'[i] = invoiceStatus[i]
    <3>1. ASSUME NEW j \in Invoice, NEW price, Issue(j, price)
          PROVE  invoiceStatus'[i] = invoiceStatus[i]
      BY <1>a, <1>3, <3>1 DEF Issue, Shape, RowsOK
    <3> QED BY <3>1
            DEF Issuing, CreateBookingUnpaid, CreateBookingPaid, SellPlan,
                ActivateSubscription, CreateShopSaleUnpaid, CreateShopSale,
                HoldExpires
  <2>7. \A s \in Session :
          \/ Collects(s)
          \/ RefundPost(s)
          \/ Marks(s)
          \/ \E c \in Credential : RescheduleQr(s, c)
          \/ \E c \in Credential : EnsureMint(s, c)
          \/ ScanBooking(s)
        => UNCHANGED invoiceStatus
    BY DEF Collects, PayPost, GatewayPost, RefundPost, Marks, MarkNoShow,
           MarkCompleted, AutoComplete, Mark, RescheduleQr, EnsureMint,
           ScanBooking
  <2> QED BY <2>2, <2>3, <2>4, <2>5, <2>6, <2>7, Writers DEF Ends, seen
<1> QED BY <1>1, <1>2, <1>3 DEF Unspoilt

\* What is returned is refunded, in every reachable state.
LEMMA ReturnedInvariant == Spec => []Returned
<1>1. Init => Returned
    BY DEF Init, Returned
<1>2. Once /\ Returned /\ [Next]_vars => Returned'
    BY ReturnedStep
<1> QED BY <1>1, <1>2, OnceInvariant, PTL DEF Spec

\* A customer is checked in by a scan that finds nothing outstanding.
LEMMA ScanAlone ==
    ASSUME Once, Plans, [Next]_vars, NEW i \in Invoice,
           booking[i] # "checked_in", booking'[i] = "checked_in"
    PROVE  /\ Kind[i] = "booking"
           /\ Admitted(i)
           /\ UNCHANGED money
           /\ UNCHANGED invoiceStatus
<1>a. Safe /\ Shape
    BY DEF Once, Safe
<1> DEFINE Goal == /\ Kind[i] = "booking"
                   /\ Admitted(i)
                   /\ UNCHANGED money
                   /\ UNCHANGED invoiceStatus
<1>1. ASSUME NEW s \in Session, ScanBooking(s)
      PROVE  Goal
  <2>1. sess[s].inv = i /\ Admitted(i) /\ UNCHANGED <<money, invoiceStatus>>
    BY <1>a, <1>1 DEF ScanBooking, CheckIn, Shape, RowsOK
  <2> QED BY <2>1 DEF Admitted, Plans, Kinds
<1>2. ~Issuing
    BY <1>a DEF Issuing, CreateBookingUnpaid, CreateBookingPaid, SellPlan,
                ActivateSubscription, CreateShopSaleUnpaid, CreateShopSale,
                HoldExpires, Shape, RowsOK
<1>3. \A s \in Session :
          \/ RefundPost(s)
          \/ VoidWrite(s)
          \/ \E c \in Credential : RescheduleQr(s, c)
          \/ \E c \in Credential : EnsureMint(s, c)
        => UNCHANGED booking
    BY DEF RefundPost, VoidWrite, RescheduleQr, EnsureMint
<1>4. \A s \in Session : ~CancelInvoice(s) /\ ~ExpireCommit(s)
    BY <1>a DEF CancelInvoice, ExpireCommit, Shape, RowsOK
<1>5. \A s \in Session : ~Marks(s) /\ ~Collects(s)
    BY <1>a DEF Marks, MarkNoShow, MarkCompleted, AutoComplete, Mark, Collects,
                PayPost, GatewayPost, ConfirmBooking, Shape, RowsOK
<1> QED BY <1>1, <1>2, <1>3, <1>4, <1>5, Writers DEF Ends, seen

\* Where nothing is refunded by staff or a gateway and nothing is voided by
\* hand, a customer is checked in only when the payments on the booking's
\* invoice cover its price, whatever is posted, rescheduled, cancelled or
\* expires meanwhile (qr_confirm_checkin:346-368).
THEOREM CheckInsPaid ==
    ASSUME Waivers \cap Op = {}
    PROVE  Spec => CheckedInWhenPaid
<1> DEFINE Paid(i) == booking[i] # "checked_in" /\ booking'[i] = "checked_in"
                        => allocated'[i] >= total'[i]
<1>1. Init => Unspoilt
    BY DEF Init, Unspoilt, Spares, Idle
<1>2. Once /\ Unspoilt /\ [Next]_vars => Unspoilt'
    BY UnspoiltStep
<1>3. ASSUME Once, Plans, Unspoilt, Returned, [Next]_vars, NEW i \in Invoice
      PROVE  Paid(i)
  <2> SUFFICES ASSUME booking[i] # "checked_in", booking'[i] = "checked_in"
               PROVE  allocated'[i] >= total'[i]
    OBVIOUS
  <2>1. Kind[i] = "booking" /\ Admitted(i) /\ UNCHANGED money
    BY <1>3, ScanAlone
  <2>2. invoiceStatus[i] # "void"
    BY <1>3, <2>1 DEF Admitted, Unspoilt
  <2>3. refunded[i] = 0 /\ Owed(i) = 0
    BY <1>3, <2>1, <2>2 DEF Unspoilt, Admitted, Outstanding
  <2>4. /\ allocated[i] \in Nat
        /\ total[i] \in Nat
        /\ returned[i] \in Nat
        /\ returned[i] <= 0
    BY <1>3, <2>3 DEF Once, Safe, Returned, Shape, RowsOK
  <2>5. allocated[i] >= total[i]
    BY <2>3, <2>4 DEF Owed, OwedAt, Reopened
  <2> QED BY <2>1, <2>5 DEF money
<1>4. Once /\ Plans /\ Unspoilt /\ Returned /\ [Next]_vars
        => [\A i \in Invoice : Paid(i)]_vars
    BY <1>3
<1> QED BY <1>1, <1>2, <1>4, OnceInvariant, PlansInvariant, ReturnedInvariant,
           PTL DEF Spec, CheckedInWhenPaid

\* Only a shop's goods are returned.
Returning(r) == r.pc = "refund.post" /\ r.ret => Kind[r.inv] = "shop"

ShopReturns ==
    /\ \A i \in Invoice : returned[i] # 0 => Kind[i] = "shop"
    /\ \A s \in Session : Returning(sess[s])

LEMMA ShopReturnsStep ==
    ASSUME Safe, ShopReturns, [Next]_vars
    PROVE  ShopReturns'
<1>a. Shape
    BY DEF Safe
<1>1. ASSUME NEW t \in Session
      PROVE  Returning(sess[t])'
  <2>1. CASE sess'[t] = sess[t] \/ sess'[t].pc # "refund.post"
    BY <2>1 DEF ShopReturns, Returning
  <2>2. CASE Refunds(t)
    <3>1. ASSUME NEW p, NEW amt, NEW key, NEW held,
                 RefundLock(t, p, amt, key, FALSE, held)
          PROVE  Returning(sess[t])'
      BY <1>a, <3>1 DEF RefundLock, Become, Idle, Shape, Returning
    <3>2. ASSUME NEW p \in Payment, NEW amt \in Amount, ReturnShopSale(t, p, amt)
          PROVE  Returning(sess[t])'
      BY <1>a, <3>2 DEF ReturnShopSale, RefundLock, Become, Idle, Shape, Returning
    <3> QED BY <2>2, <3>1, <3>2 DEF Refunds, CreateRefund, CreateGatewayRefund
  <2> QED BY <2>1, <2>2, Arrivals DEF Critical
<1>2. ASSUME NEW i \in Invoice, returned'[i] # 0
      PROVE  Kind[i] = "shop"
  <2>1. CASE returned'[i] = returned[i]
    BY <1>2, <2>1 DEF ShopReturns
  <2>2. ASSUME NEW s \in Session, RefundPost(s)
        PROVE  Kind[i] = "shop"
    <3>1. \/ returned'[i] = returned[i]
          \/ sess[s].inv = i /\ sess[s].ret
      BY <1>a, <2>2 DEF RefundPost, Shape, RowsOK
    <3> QED BY <2>1, <2>2, <3>1 DEF RefundPost, ShopReturns, Returning
  <2> QED BY <2>1, <2>2, RefundsAlone
<1> QED BY <1>1, <1>2 DEF ShopReturns

\* Whatever RPCs are in use, a customer who is checked in owes nothing, and
\* for one of three reasons: what the invoice holds covers the price, all it
\* received went back, or it is void (get_invoice_payment_summary,
\* qr_confirm_checkin:346-368).
THEOREM CheckInsSettled ==
    Spec => [][\A i \in Invoice :
                 booking[i] # "checked_in" /\ booking'[i] = "checked_in"
                   => \/ allocated'[i] - refunded'[i] >= total'[i]
                      \/ allocated'[i] > 0 /\ refunded'[i] = allocated'[i]
                      \/ invoiceStatus'[i] = "void"]_vars
<1> DEFINE NothingDue(i) ==
              booking[i] # "checked_in" /\ booking'[i] = "checked_in"
                => \/ allocated'[i] - refunded'[i] >= total'[i]
                   \/ allocated'[i] > 0 /\ refunded'[i] = allocated'[i]
                   \/ invoiceStatus'[i] = "void"
<1>1. Init => ShopReturns
    BY DEF Init, ShopReturns, Returning, Idle
<1>2. Safe /\ ShopReturns /\ [Next]_vars => ShopReturns'
    BY ShopReturnsStep
<1>3. ASSUME Once, Plans, Balanced, ShopReturns, [Next]_vars, NEW i \in Invoice
      PROVE  NothingDue(i)
  <2> SUFFICES ASSUME booking[i] # "checked_in", booking'[i] = "checked_in",
                      invoiceStatus'[i] # "void"
               PROVE  \/ allocated'[i] - refunded'[i] >= total'[i]
                      \/ allocated'[i] > 0 /\ refunded'[i] = allocated'[i]
    OBVIOUS
  <2>1. /\ Kind[i] = "booking"
        /\ Admitted(i)
        /\ UNCHANGED money
        /\ UNCHANGED invoiceStatus
    BY <1>3, ScanAlone
  <2>2. Owed(i) = 0 /\ returned[i] = 0
    BY <1>3, <2>1 DEF Admitted, Outstanding, ShopReturns
  <2>3. refunded[i] <= allocated[i]
    BY <1>3, GivenBackWasReceived DEF Once
  <2>4. /\ allocated[i] \in Nat
        /\ refunded[i] \in Nat
        /\ total[i] \in Nat
    BY <1>3 DEF Once, Safe, Shape, RowsOK
  <2>5. \/ allocated[i] - refunded[i] >= total[i]
        \/ allocated[i] > 0 /\ refunded[i] = allocated[i]
    BY <2>2, <2>3, <2>4 DEF Owed, OwedAt, Reopened
  <2> QED BY <2>1, <2>5 DEF money
<1>4. Once /\ Plans /\ Balanced /\ ShopReturns /\ [Next]_vars
        => [\A i \in Invoice : NothingDue(i)]_vars
    BY <1>3
<1> QED BY <1>1, <1>2, <1>4, SafeInvariant, OnceInvariant, PlansInvariant,
           LedgerBalances, PTL DEF Spec
=============================================================================
