------------------------- MODULE GatewayDeliveryProofs -------------------------
(***************************************************************************)
(* The safety properties of GatewayDelivery, for any number of             *)
(* transactions, calls, sessions and refunds.                              *)
(***************************************************************************)
EXTENDS GatewayDelivery, TLAPS

\* The customer went through with session k, as far as the provider has said.
Took(t, k) == pay[t][k] \in Completed \/ (via[t] = "stripe" /\ pay[t][k] = "denied")

\* What an event reports is so, and stays so.
Occurred(e) ==
    /\ e.type \in {"refunding", "refunded"} => e.n \in RefundId
    /\ e.type = "refunded" => back[e.txn][e.n].state = "done"
    /\ e.type \notin {"refunding", "refunded"} => e.n \in SessionId
    /\ e.type = "paid" => Took(e.txn, e.n)

EventsOccurred == \A e \in Event : event[e] # "none" => Occurred(e)

Hook == {"hook.act", "hook.mark", "hook.note", "hook.stray", "hook.swallow"}

\* What a call has found out by the step it is at.
Knows(c) ==
    LET s == call[c] IN
    /\ s.pc # "idle" => s.txn \in Txn
    /\ s.pc \in Hook =>
            s.ev \in Event /\ event[s.ev] # "none" /\ s.txn = s.ev.txn
    /\ s.pc = "hook.mark" /\ s.ev.type = "paid" =>
            status[s.txn] \in {"succeeded", "failed"}
    /\ s.pc = "out.ref" => s.n \in SessionId
    /\ s.pc = "back.post" => s.n \in RefundId /\ back[s.txn][s.n].state = "done"

CallsKnow == \A c \in Call : Knows(c)

\* A transaction that succeeded names a charge the customer made.
Charged ==
    \A t \in Txn : status[t] = "succeeded" =>
        \E k \in SessionId : ref[t] = ChargeRef(t, k) /\ Took(t, k)

Inv ==
    /\ TypeOK
    /\ EventsOccurred
    /\ CallsKnow
    /\ Charged
    /\ RefundsBacked
    /\ ProcessedMeansSettled

-----------------------------------------------------------------------------
(* Types.                                                                  *)

LedgerType ==
    /\ status \in [Txn -> {"none", "pending", "succeeded", "failed"}]
    /\ worth \in [Txn -> 0 .. Amount]
    /\ given \in [Txn -> 0 .. Amount]
    /\ keys \in [Txn -> SUBSET RefundKey]

LEMMA StageType ==
    ASSUME TypeOK, NEW t \in Txn, Ledger!Stage(t) PROVE LedgerType'
BY DEF TypeOK, LedgerType, Ledger!Stage

LEMMA FailType ==
    ASSUME TypeOK, NEW t \in Txn, Ledger!Fail(t) PROVE LedgerType'
BY DEF TypeOK, LedgerType, Ledger!Fail

LEMMA PostType ==
    ASSUME TypeOK, NEW t \in Txn, Ledger!Post(t, Amount) PROVE LedgerType'
BY GatewayAssumption DEF TypeOK, LedgerType, Ledger!Post

LEMMA RefundType ==
    ASSUME TypeOK, NEW t \in Txn, NEW key \in RefundKey \cup {None},
           NEW amt \in 0 .. Amount, Ledger!Refund(t, key, amt)
    PROVE  LedgerType'
<1> USE GatewayAssumption DEF TypeOK, LedgerType, Ledger!Refund
<1>1. given' \in [Txn -> 0 .. Amount]
  OBVIOUS
<1>2. keys' \in [Txn -> SUBSET RefundKey]
  OBVIOUS
<1> QED
  BY <1>1, <1>2

LEMMA LedgerKeyType ==
    ASSUME TypeOK, NEW t \in Txn, NEW r \in RefundId
    PROVE  LedgerKey(t, r) \in RefundKey
<1>1. back[t][r].amt \in 0 .. Amount
  BY GatewayAssumption DEF TypeOK, RefundRow
<1> QED
  BY <1>1 DEF LedgerKey, RefundKey

LEMMA SentType ==
    ASSUME TypeOK, NEW t, NEW type, NEW n, Sent(t, type, n)
    PROVE  event' \in [Event -> EventStatus]
BY DEF TypeOK, Sent, EventStatus

LEMMA CallType ==
    ASSUME TypeOK, NEW c \in Call
    PROVE  /\ Ends(c) => call' \in [Call -> CallState]
           /\ \A pc \in PC : Goes(c, pc) => call' \in [Call -> CallState]
           /\ \A pc \in PC, n \in SessionId \cup RefundId :
                call' = [call EXCEPT ![c].pc = pc, ![c].n = n]
                    => call' \in [Call -> CallState]
           /\ \A pc \in PC, t \in Txn, e \in Event \cup {None}, amt \in 0 .. Amount :
                Starts(c, pc, t, e, 0, amt) => call' \in [Call -> CallState]
<1> USE GatewayAssumption DEF TypeOK
<1>1. NoCall \in CallState
  BY DEF NoCall, CallState, PC
<1>2. call[c] \in CallState
  OBVIOUS
<1>3. \A pc \in PC : [call[c] EXCEPT !.pc = pc] \in CallState
  BY <1>2 DEF CallState
<1>4. \A pc \in PC, n \in SessionId \cup RefundId :
            [call[c] EXCEPT !.pc = pc, !.n = n] \in CallState
  BY <1>2 DEF CallState
<1>5. ASSUME NEW pc \in PC, NEW t \in Txn, NEW e \in Event \cup {None},
             NEW amt \in 0 .. Amount
      PROVE  [pc |-> pc, txn |-> t, ev |-> e, n |-> 0, amt |-> amt] \in CallState
  BY DEF CallState
<1>6. Ends(c) => call' \in [Call -> CallState]
  BY <1>1 DEF Ends
<1>7. \A pc \in PC : Goes(c, pc) => call' \in [Call -> CallState]
  BY <1>3 DEF Goes
<1>8. \A pc \in PC, n \in SessionId \cup RefundId :
            call' = [call EXCEPT ![c].pc = pc, ![c].n = n]
                => call' \in [Call -> CallState]
  <2> TAKE pc \in PC, n \in SessionId \cup RefundId
  <2> DEFINE s == [call[c] EXCEPT !.pc = pc, !.n = n]
  <2>1. s \in CallState
    BY <1>4
  <2> HIDE DEF s
  <2>2. [call EXCEPT ![c] = s] \in [Call -> CallState]
    BY <2>1
  <2>3. [call EXCEPT ![c].pc = pc, ![c].n = n] = [call EXCEPT ![c] = s]
    BY DEF s
  <2> QED
    BY <2>2, <2>3
<1>9. \A pc \in PC, t \in Txn, e \in Event \cup {None}, amt \in 0 .. Amount :
            Starts(c, pc, t, e, 0, amt) => call' \in [Call -> CallState]
  <2> TAKE pc \in PC, t \in Txn, e \in Event \cup {None}, amt \in 0 .. Amount
  <2> DEFINE s == [pc |-> pc, txn |-> t, ev |-> e, n |-> 0, amt |-> amt]
  <2>1. s \in CallState
    BY <1>5
  <2> HIDE DEF s
  <2>2. [call EXCEPT ![c] = s] \in [Call -> CallState]
    BY <2>1
  <2> QED
    BY <2>2 DEF Starts, s
<1> QED
  BY <1>6, <1>7, <1>8, <1>9

\* The function calls PC apart.
LEMMA PCs ==
    /\ {"hook.act", "hook.mark", "hook.note", "hook.stray", "hook.swallow"} \subseteq PC
    /\ {"out.call", "out.ref", "out.fail"} \subseteq PC
    /\ {"back.call", "back.post"} \subseteq PC
BY DEF PC

LEMMA PayType ==
    ASSUME TypeOK, NEW t \in Txn, NEW k \in SessionId, NEW st \in SessionStatus,
           pay' = [pay EXCEPT ![t][k] = st]
    PROVE  pay' \in [Txn -> [SessionId -> SessionStatus]]
BY DEF TypeOK

LEMMA MadeType ==
    ASSUME TypeOK, NEW t \in Txn, NEW k \in SessionId, Made(t, k) \/ Opened(t, k)
    PROVE  pay' \in [Txn -> [SessionId -> SessionStatus]]
<1>1. \A st \in {"made", "open", pay[t][k]} : st \in SessionStatus
  BY DEF TypeOK, SessionStatus
<1>2. \E st \in {"made", "open", pay[t][k]} : pay' = [pay EXCEPT ![t][k] = st]
  BY DEF Made, Opened
<1> QED
  BY <1>1, <1>2, PayType

LEMMA BackType ==
    ASSUME TypeOK, NEW t \in Txn, NEW r \in RefundId, NEW amt \in 0 .. Amount,
           NEW st \in {"none", "pending", "done", "failed"}, NEW keyed \in BOOLEAN,
           Refunded(t, r, amt, st, keyed)
    PROVE  /\ back' \in [Txn -> [RefundId -> RefundRow]]
           /\ event' \in [Event -> EventStatus]
<1>1. [amt |-> amt, state |-> st, keyed |-> keyed] \in RefundRow
  BY DEF RefundRow
<1>2. back' \in [Txn -> [RefundId -> RefundRow]]
  BY <1>1 DEF TypeOK, Refunded
<1>3. event' \in [Event -> EventStatus]
  BY SentType DEF TypeOK, Refunded
<1> QED
  BY <1>2, <1>3

\* Only a payment's event is recorded.
LEMMA Recorded ==
    ASSUME TypeOK, NEW e \in Event
    PROVE  /\ Reaction(e) = "record" <=> e.type = "paid"
           /\ Reaction(e) = "capture" => e.type = "approved" /\ via[e.txn] = "paypal"
           /\ Reaction(e) = "reconcile" => e.type \in {"refunding", "refunded"}
BY DEF TypeOK, Event, EventType, Provider, Reaction, StripeReaction, PaypalReaction,
       PaymobReaction, KashierReaction, FawryReaction

LEMMA TypeStep ==
    ASSUME TypeOK, EventsOccurred, CallsKnow, [Next]_vars PROVE TypeOK'
<1>1. ASSUME NEW t \in Txn, StartCheckout(t) PROVE TypeOK'
  BY <1>1, StageType DEF StartCheckout, LedgerType, provider, TypeOK
<1>2. ASSUME NEW t \in Txn, NEW amt \in 1 .. Amount, StaffRefund(t, amt)
      PROVE  TypeOK'
  <2>1. amt \in 0 .. Amount /\ None \in RefundKey \cup {None}
    BY GatewayAssumption
  <2>2. LedgerType'
    BY <1>2, <2>1, RefundType DEF StaffRefund
  <2>3. desk' \in [Txn -> Nat]
    BY <1>2, <2>1 DEF StaffRefund, TypeOK
  <2> QED
    BY <1>2, <2>2, <2>3 DEF StaffRefund, LedgerType, provider, TypeOK
<1>3. ASSUME NEW t \in Txn, NEW k \in SessionId, CustomerPays(t, k) PROVE TypeOK'
  BY <1>3, PayType, SentType DEF CustomerPays, Turns, SessionStatus, ledger, TypeOK
<1>4. ASSUME NEW t \in Txn, NEW k \in SessionId, PaymentArrives(t, k) PROVE TypeOK'
  BY <1>4, PayType, SentType DEF PaymentArrives, Turns, SessionStatus, ledger,
     TypeOK
<1>5. ASSUME NEW t \in Txn, NEW k \in SessionId, AttemptDeclined(t, k) PROVE TypeOK'
  BY <1>5, SentType DEF AttemptDeclined, ledger, provider, TypeOK
<1>6. ASSUME NEW t \in Txn, NEW k \in SessionId, AttemptPending(t, k) PROVE TypeOK'
  BY <1>6, SentType DEF AttemptPending, ledger, provider, TypeOK
<1>7. ASSUME NEW t \in Txn, NEW k \in SessionId, SessionExpires(t, k) PROVE TypeOK'
  BY <1>7, PayType, SentType DEF SessionExpires, Turns, SessionStatus, ledger,
     TypeOK
<1>8. ASSUME NEW t \in Txn, NEW r \in RefundId, RefundSettles(t, r) PROVE TypeOK'
  BY <1>8, BackType DEF RefundSettles, RefundRow, ledger, TypeOK
<1>9. ASSUME NEW t \in Txn, NEW r \in RefundId, NEW amt \in 1 .. Amount,
             DashboardRefund(t, r, amt)
      PROVE  TypeOK'
  <2>1. amt \in 0 .. Amount
    BY GatewayAssumption
  <2> QED
    BY <1>9, <2>1, BackType DEF DashboardRefund, ledger, TypeOK
<1>10. ASSUME NEW t \in Txn, NEW c \in Call, CheckoutBegin(c, t) PROVE TypeOK'
  <2>1. 0 \in 0 .. Amount /\ None \in Event \cup {None}
    BY GatewayAssumption
  <2>2. call' \in [Call -> CallState]
    BY <1>10, <2>1, CallType, PCs DEF CheckoutBegin
  <2> QED
    BY <1>10, <2>2 DEF CheckoutBegin, ledger, provider, TypeOK
<1>11. ASSUME NEW t \in Txn, NEW c \in Call, NEW amt \in 1 .. Amount, BackBegin(c, t,
              amt)
       PROVE  TypeOK'
  <2>1. amt \in 0 .. Amount /\ None \in Event \cup {None}
    BY GatewayAssumption
  <2>2. call' \in [Call -> CallState]
    BY <1>11, <2>1, CallType, PCs DEF BackBegin
  <2> QED
    BY <1>11, <2>2 DEF BackBegin, ledger, provider, TypeOK
<1>12. ASSUME NEW c \in Call, NEW e \in Event, HookLog(c, e) PROVE TypeOK'
  <2>1. e.txn \in Txn /\ 0 \in 0 .. Amount
    BY GatewayAssumption DEF Event
  <2>2. call' \in [Call -> CallState]
    BY <1>12, <2>1, CallType, PCs DEF HookLog
  <2>3. event' \in [Event -> EventStatus]
    BY <1>12 DEF HookLog, EventStatus, TypeOK
  <2> QED
    BY <1>12, <2>2, <2>3 DEF HookLog, ledger, provider, TypeOK
<1>13. ASSUME NEW c \in Call, CheckoutCall(c) PROVE TypeOK'
  <2>1. call[c].txn \in Txn
    BY <1>13 DEF CallsKnow, Knows, CheckoutCall, Running
  <2> QED
    BY <1>13, <2>1, CallType, PCs, MadeType DEF CheckoutCall, ledger, TypeOK
<1>14. ASSUME NEW c \in Call, CheckoutFails(c) PROVE TypeOK'
  <2>1. call[c].txn \in Txn
    BY <1>14 DEF CallsKnow, Knows, CheckoutFails, Running
  <2> QED
    BY <1>14, <2>1, CallType, PCs, MadeType DEF CheckoutFails, ledger, TypeOK
<1>15. ASSUME NEW c \in Call, CheckoutGivesUp(c) PROVE TypeOK'
  <2>1. call[c].txn \in Txn
    BY <1>15 DEF CallsKnow, Knows, CheckoutGivesUp, Running
  <2> QED
    BY <1>15, <2>1, CallType, FailType DEF CheckoutGivesUp, LedgerType, ledger,
       provider, TypeOK
<1>16. ASSUME NEW c \in Call, StoreRef(c) PROVE TypeOK'
  <2>1. call[c].txn \in Txn
    BY <1>16 DEF CallsKnow, Knows, StoreRef, Running
  <2>2. call[c].n \in SessionId
    BY <1>16 DEF CallsKnow, Knows, StoreRef, Running
  <2>3. SessionRef(call[c].txn, call[c].n) \subseteq Ref \cup {None}
    BY <2>1, <2>2 DEF SessionRef, StripeSessionRef, PaypalSessionRef,
       PaymobSessionRef,
       KashierSessionRef, FawrySessionRef, Ref, Provider, TypeOK
  <2>4. ref' \in [Txn -> Ref \cup {None}]
    BY <1>16, <2>1, <2>3 DEF StoreRef, TypeOK
  <2> QED
    BY <1>16, <2>1, <2>2, <2>4, CallType, MadeType DEF StoreRef, ledger, TypeOK
<1>17. ASSUME NEW c \in Call, HookRecord(c) PROVE TypeOK'
  <2>1. call[c].txn \in Txn
    BY <1>17 DEF CallsKnow, Knows, HookRecord, Running, Acts
  <2>2. call[c].ev \in Event /\ call[c].ev.n \in SessionId
    BY <1>17, Recorded DEF CallsKnow, Knows, Hook, HookRecord, Acts, Running,
       EventsOccurred, Occurred
  <2>3. ref' \in [Txn -> Ref \cup {None}]
    BY <1>17, <2>1, <2>2 DEF HookRecord, ChargeRef, Ref, TypeOK
  <2> QED
    BY <1>17, <2>1, <2>3, CallType, PCs, PostType, FailType DEF HookRecord,
       LedgerType, ledger, provider, TypeOK
<1>18. ASSUME NEW c \in Call, HookRecordSettled(c) PROVE TypeOK'
  BY <1>18, CallType, PCs DEF HookRecordSettled, ledger, provider, TypeOK
<1>19. ASSUME NEW c \in Call, HookFail(c) PROVE TypeOK'
  <2>1. call[c].txn \in Txn
    BY <1>19 DEF CallsKnow, Knows, HookFail, Running, Acts
  <2> QED
    BY <1>19, <2>1, CallType, PCs, FailType DEF HookFail, LedgerType, ledger,
       provider, TypeOK
<1>20. ASSUME NEW c \in Call, HookAcknowledge(c) PROVE TypeOK'
  BY <1>20, CallType, PCs DEF HookAcknowledge, ledger, provider, TypeOK
<1>21. ASSUME NEW c \in Call, HookCapture(c) PROVE TypeOK'
  <2>1. call[c].txn \in Txn
    BY <1>21 DEF CallsKnow, Knows, HookCapture, Running, Acts
  <2>2. call[c].ev.n \in SessionId
    BY <1>21, Recorded DEF CallsKnow, Knows, Hook, HookCapture, Acts, Running,
       EventsOccurred, Occurred
  <2>3. pay' \in [Txn -> [SessionId -> SessionStatus]]
    BY <1>21, <2>1, <2>2, PayType DEF HookCapture, SessionStatus, TypeOK
  <2>4. event' \in [Event -> EventStatus]
    BY <1>21, SentType DEF HookCapture, TypeOK
  <2>5. call' \in [Call -> CallState]
    BY <1>21, CallType, PCs DEF HookCapture
  <2> QED
    BY <1>21, <2>3, <2>4, <2>5 DEF HookCapture, ledger, TypeOK
<1>22. ASSUME NEW c \in Call, HookReconcile(c) PROVE TypeOK'
  <2>1. call[c].txn \in Txn
    BY <1>22 DEF CallsKnow, Knows, HookReconcile, Running, Acts
  <2>2. call[c].ev.n \in RefundId
    BY <1>22, Recorded DEF CallsKnow, Knows, Hook, HookReconcile, Acts, Running,
       EventsOccurred, Occurred
  <2>3. call' \in [Call -> CallState]
    BY <1>22, CallType, PCs DEF HookReconcile
  <2> DEFINE t == call[c].txn  r == call[c].ev.n
  <2>4. LedgerKey(t, r) \in RefundKey /\ back[t][r].amt \in 0 .. Amount
    BY <2>1, <2>2, LedgerKeyType DEF RefundRow, TypeOK
  <2>5. CASE Ledger!Refund(t, LedgerKey(t, r), back[t][r].amt)
    BY <1>22, <2>1, <2>3, <2>4, <2>5, RefundType DEF HookReconcile, LedgerType,
       ledger, provider, TypeOK
  <2>6. CASE UNCHANGED ledger
    BY <1>22, <2>3, <2>6 DEF HookReconcile, LedgerType, ledger, provider, TypeOK
  <2> QED
    BY <1>22, <2>5, <2>6 DEF HookReconcile
<1>23. ASSUME NEW c \in Call, HookMark(c) PROVE TypeOK'
  BY <1>23, CallType DEF HookMark, Noted, EventStatus, ledger, provider, TypeOK
<1>24. ASSUME NEW c \in Call, BackCall(c) PROVE TypeOK'
  <2>1. call[c].txn \in Txn
    BY <1>24 DEF CallsKnow, Knows, BackCall, Running
  <2>2. call[c].amt \in 0 .. Amount
    BY DEF CallState, TypeOK
  <2>3. RefundStates(call[c].txn) \subseteq {"none", "pending", "done", "failed"}
    BY DEF RefundStates
  <2> DEFINE t == call[c].txn  amt == call[c].amt
             Typed == /\ back' \in [Txn -> [RefundId -> RefundRow]]
                      /\ event' \in [Event -> EventStatus]
  <2>4. \/ UNCHANGED <<back, event>>
        \/ \E r \in RefundId, st \in RefundStates(t) :
                Refunded(t, r, amt, st, via[t] \in Keyed)
    BY <1>24 DEF BackCall
  <2>6. ASSUME UNCHANGED <<back, event>> PROVE Typed
    BY <2>6 DEF TypeOK
  <2>7. ASSUME NEW r \in RefundId, NEW st \in RefundStates(t),
               Refunded(t, r, amt, st, via[t] \in Keyed)
        PROVE  Typed
    <3>1. (via[t] \in Keyed) \in BOOLEAN
      OBVIOUS
    <3> QED
      BY <2>1, <2>2, <2>3, <2>7, <3>1, BackType
  <2>5. call' \in [Call -> CallState]
    BY <1>24, CallType, PCs DEF BackCall
  <2>8. Typed
    BY <2>4, <2>6, <2>7
  <2> QED
    BY <1>24, <2>5, <2>8 DEF BackCall, ledger, TypeOK
<1>25. ASSUME NEW c \in Call, BackFails(c) PROVE TypeOK'
  <2>1. call[c].txn \in Txn
    BY <1>25 DEF CallsKnow, Knows, BackFails, Running
  <2>2. call[c].amt \in 0 .. Amount
    BY DEF CallState, TypeOK
  <2>3. RefundStates(call[c].txn) \subseteq {"none", "pending", "done", "failed"}
    BY DEF RefundStates
  <2> DEFINE t == call[c].txn  amt == call[c].amt
             Typed == /\ back' \in [Txn -> [RefundId -> RefundRow]]
                      /\ event' \in [Event -> EventStatus]
  <2>4. \/ UNCHANGED <<back, event>>
        \/ \E r \in RefundId, st \in RefundStates(t) :
                Refunded(t, r, amt, st, via[t] \in Keyed)
    BY <1>25 DEF BackFails
  <2>6. ASSUME UNCHANGED <<back, event>> PROVE Typed
    BY <2>6 DEF TypeOK
  <2>7. ASSUME NEW r \in RefundId, NEW st \in RefundStates(t),
               Refunded(t, r, amt, st, via[t] \in Keyed)
        PROVE  Typed
    <3>1. (via[t] \in Keyed) \in BOOLEAN
      OBVIOUS
    <3> QED
      BY <2>1, <2>2, <2>3, <2>7, <3>1, BackType
  <2>5. call' \in [Call -> CallState]
    BY <1>25, CallType, PCs DEF BackFails
  <2>8. Typed
    BY <2>4, <2>6, <2>7
  <2> QED
    BY <1>25, <2>5, <2>8 DEF BackFails, ledger, TypeOK
<1>26. ASSUME NEW c \in Call, BackPost(c) PROVE TypeOK'
  <2>1. call[c].txn \in Txn
    BY <1>26 DEF CallsKnow, Knows, BackPost, Running
  <2>2. /\ call[c].n \in RefundId
        /\ back[call[c].txn][call[c].n].state = "done"
    BY <1>26 DEF CallsKnow, Knows, BackPost, Running
  <2>3. call[c].amt \in 0 .. Amount
    BY DEF CallState, TypeOK
  <2> DEFINE t == call[c].txn  key == LedgerKey(t, call[c].n)
  <2>5. key \in RefundKey
    BY <2>1, <2>2, LedgerKeyType
  <2>6. ASSUME Ledger!Refund(t, key, call[c].amt) PROVE LedgerType'
    BY <2>1, <2>3, <2>5, <2>6, RefundType
  <2>7. ASSUME UNCHANGED ledger PROVE LedgerType'
    BY <2>7 DEF LedgerType, ledger, TypeOK
  <2>4. LedgerType'
    BY <1>26, <2>6, <2>7 DEF BackPost, PostKey
  <2> QED
    BY <1>26, <2>4, CallType DEF BackPost, LedgerType, ledger, provider, TypeOK
<1>27. ASSUME NEW c \in Call, Crash(c) PROVE TypeOK'
  BY <1>27, CallType DEF Crash, ledger, provider, TypeOK
<1>28. CASE UNCHANGED vars
  BY <1>28 DEF vars, ledger, provider, TypeOK
<1>29. ASSUME NEW e \in Event, HookDuplicate(e) PROVE TypeOK'
  BY <1>29 DEF HookDuplicate, EventStatus, ledger, provider, TypeOK
<1>30. ASSUME NEW c \in Call, HookUnmatched(c) PROVE TypeOK'
  BY <1>30, CallType, PCs DEF HookUnmatched, ledger, provider, TypeOK
<1> QED
  BY <1>1, <1>2, <1>3, <1>4, <1>5, <1>6, <1>7, <1>8, <1>9, <1>10, <1>11, <1>12,
     <1>13, <1>14, <1>15, <1>16, <1>17, <1>18, <1>19, <1>20, <1>21, <1>22, <1>23,
     <1>24, <1>25, <1>26, <1>27, <1>28, <1>29, <1>30 DEF Next, ProviderStep,
     FunctionStep, CheckoutStep, HookStep, BackStep

-----------------------------------------------------------------------------
(* What each step leaves alone, and how what it changes goes on.           *)

\* Which actions change which part of the state.
Frame ==
    /\ via' = via
    /\ \/ UNCHANGED <<status, ref>>
       \/ \E t \in Txn : StartCheckout(t)
       \/ \E c \in Call :
            CheckoutGivesUp(c) \/ StoreRef(c) \/ HookRecord(c) \/ HookFail(c)
    /\ \/ UNCHANGED keys
       \/ \E t \in Txn, amt \in 1 .. Amount : StaffRefund(t, amt)
       \/ \E c \in Call : HookReconcile(c) \/ BackPost(c)
    /\ \/ UNCHANGED pay
       \/ \E t \in Txn, k \in SessionId :
            CustomerPays(t, k) \/ PaymentArrives(t, k) \/ SessionExpires(t, k)
       \/ \E c \in Call :
            CheckoutCall(c) \/ CheckoutFails(c) \/ StoreRef(c) \/ HookCapture(c)
    /\ \/ UNCHANGED back
       \/ \E t \in Txn, r \in RefundId : RefundSettles(t, r)
       \/ \E t \in Txn, r \in RefundId, amt \in 1 .. Amount : DashboardRefund(t, r, amt)
       \/ \E c \in Call : BackCall(c) \/ BackFails(c)
    /\ \/ UNCHANGED event
       \/ \E t \in Txn, k \in SessionId :
            \/ CustomerPays(t, k) \/ PaymentArrives(t, k) \/ AttemptDeclined(t, k)
            \/ AttemptPending(t, k) \/ SessionExpires(t, k)
       \/ \E t \in Txn, r \in RefundId : RefundSettles(t, r)
       \/ \E t \in Txn, r \in RefundId, amt \in 1 .. Amount : DashboardRefund(t, r, amt)
       \/ \E e \in Event : HookDuplicate(e) \/ \E c \in Call : HookLog(c, e)
       \/ \E c \in Call : HookCapture(c) \/ HookMark(c) \/ BackCall(c) \/ BackFails(c)

LEMMA Framed == ASSUME [Next]_vars PROVE Frame
<1>1. ASSUME NEW t \in Txn, StartCheckout(t) PROVE Frame
  BY <1>1 DEF Frame, StartCheckout, Ledger!Stage, ledger, provider
<1>2. ASSUME NEW t \in Txn, NEW amt \in 1 .. Amount, StaffRefund(t, amt) PROVE Frame
  BY <1>2 DEF Frame, StaffRefund, Ledger!Refund, ledger, provider
<1>3. ASSUME NEW t \in Txn, NEW k \in SessionId, CustomerPays(t, k) PROVE Frame
  BY <1>3 DEF Frame, CustomerPays, Turns, ledger, provider
<1>4. ASSUME NEW t \in Txn, NEW k \in SessionId, PaymentArrives(t, k) PROVE Frame
  BY <1>4 DEF Frame, PaymentArrives, Turns, ledger, provider
<1>5. ASSUME NEW t \in Txn, NEW k \in SessionId, AttemptDeclined(t, k) PROVE Frame
  BY <1>5 DEF Frame, AttemptDeclined, ledger, provider
<1>6. ASSUME NEW t \in Txn, NEW k \in SessionId, AttemptPending(t, k) PROVE Frame
  BY <1>6 DEF Frame, AttemptPending, ledger, provider
<1>7. ASSUME NEW t \in Txn, NEW k \in SessionId, SessionExpires(t, k) PROVE Frame
  BY <1>7 DEF Frame, SessionExpires, Turns, ledger, provider
<1>8. ASSUME NEW t \in Txn, NEW r \in RefundId, RefundSettles(t, r) PROVE Frame
  BY <1>8 DEF Frame, RefundSettles, ledger, provider
<1>9. ASSUME NEW t \in Txn, NEW r \in RefundId, NEW amt \in 1 .. Amount,
             DashboardRefund(t, r, amt)
      PROVE  Frame
  BY <1>9 DEF Frame, DashboardRefund, ledger, provider
<1>10. ASSUME NEW t \in Txn, NEW c \in Call, CheckoutBegin(c, t) PROVE Frame
  BY <1>10 DEF Frame, CheckoutBegin, ledger, provider
<1>11. ASSUME NEW t \in Txn, NEW c \in Call, NEW amt \in 1 .. Amount, BackBegin(c, t,
              amt)
       PROVE  Frame
  BY <1>11 DEF Frame, BackBegin, ledger, provider
<1>12. ASSUME NEW c \in Call, NEW e \in Event, HookLog(c, e) PROVE Frame
  BY <1>12 DEF Frame, HookLog, ledger, provider
<1>13. ASSUME NEW c \in Call, CheckoutCall(c) PROVE Frame
  BY <1>13 DEF Frame, CheckoutCall, ledger, provider
<1>14. ASSUME NEW c \in Call, CheckoutFails(c) PROVE Frame
  BY <1>14 DEF Frame, CheckoutFails, ledger, provider
<1>15. ASSUME NEW c \in Call, CheckoutGivesUp(c) PROVE Frame
  BY <1>15 DEF Frame, CheckoutGivesUp, Ledger!Fail, ledger, provider
<1>16. ASSUME NEW c \in Call, StoreRef(c) PROVE Frame
  BY <1>16 DEF Frame, StoreRef, ledger, provider
<1>17. ASSUME NEW c \in Call, HookRecord(c) PROVE Frame
  BY <1>17 DEF Frame, HookRecord, Ledger!Post, Ledger!Fail, ledger, provider
<1>18. ASSUME NEW c \in Call, HookRecordSettled(c) PROVE Frame
  BY <1>18 DEF Frame, HookRecordSettled, ledger, provider
<1>19. ASSUME NEW c \in Call, HookFail(c) PROVE Frame
  BY <1>19 DEF Frame, HookFail, Ledger!Fail, ledger, provider
<1>20. ASSUME NEW c \in Call, HookAcknowledge(c) PROVE Frame
  BY <1>20 DEF Frame, HookAcknowledge, ledger, provider
<1>21. ASSUME NEW c \in Call, HookCapture(c) PROVE Frame
  BY <1>21 DEF Frame, HookCapture, ledger, provider
<1>22. ASSUME NEW c \in Call, HookReconcile(c) PROVE Frame
  BY <1>22 DEF Frame, HookReconcile, Ledger!Refund, ledger, provider
<1>23. ASSUME NEW c \in Call, HookMark(c) PROVE Frame
  BY <1>23 DEF Frame, HookMark, ledger, provider
<1>24. ASSUME NEW c \in Call, BackCall(c) PROVE Frame
  BY <1>24 DEF Frame, BackCall, ledger, provider
<1>25. ASSUME NEW c \in Call, BackFails(c) PROVE Frame
  BY <1>25 DEF Frame, BackFails, ledger, provider
<1>26. ASSUME NEW c \in Call, BackPost(c) PROVE Frame
  BY <1>26 DEF Frame, BackPost, Ledger!Refund, ledger, provider
<1>27. ASSUME NEW c \in Call, Crash(c) PROVE Frame
  BY <1>27 DEF Frame, Crash, ledger, provider
<1>28. CASE UNCHANGED vars
  BY <1>28 DEF Frame, vars, ledger, provider
<1>29. ASSUME NEW e \in Event, HookDuplicate(e) PROVE Frame
  BY <1>29 DEF Frame, HookDuplicate, ledger, provider
<1>30. ASSUME NEW c \in Call, HookUnmatched(c) PROVE Frame
  BY <1>30 DEF Frame, HookUnmatched, ledger, provider
<1> QED
  BY <1>1, <1>2, <1>3, <1>4, <1>5, <1>6, <1>7, <1>8, <1>9, <1>10, <1>11, <1>12,
     <1>13, <1>14, <1>15, <1>16, <1>17, <1>18, <1>19, <1>20, <1>21, <1>22, <1>23,
     <1>24, <1>25, <1>26, <1>27, <1>28, <1>29, <1>30 DEF Next, ProviderStep,
     FunctionStep, CheckoutStep, HookStep, BackStep

\* A session goes on in one direction.
PayMoves(t, k) ==
    \/ pay'[t][k] = pay[t][k]
    \/ pay[t][k] = "none" /\ pay'[t][k] = "made"
    \/ pay[t][k] = "made" /\ pay'[t][k] = "open"
    \/ pay[t][k] = "open" /\ pay'[t][k] \in {"approved", "processing", "paid", "expired"}
    \/ /\ pay[t][k] = "processing" /\ via[t] = "stripe"
       /\ pay'[t][k] \in {"paid", "denied"}
    \/ pay[t][k] = "approved" /\ pay'[t][k] \in {"paid", "denied"}

LEMMA Turned ==
    ASSUME TypeOK, NEW u \in Txn, NEW j \in SessionId, NEW to,
           pay' = [pay EXCEPT ![u][j] = to], NEW t \in Txn, NEW k \in SessionId
    PROVE  \/ pay'[t][k] = pay[t][k]
           \/ t = u /\ k = j /\ pay'[t][k] = to
BY DEF TypeOK

LEMMA PayMoving ==
    ASSUME TypeOK, EventsOccurred, CallsKnow, [Next]_vars, NEW t \in Txn, NEW k \in SessionId
    PROVE  PayMoves(t, k)
<1>1. CASE UNCHANGED pay
  BY <1>1 DEF PayMoves
<1>2. ASSUME NEW u \in Txn, NEW j \in SessionId,
             CustomerPays(u, j) \/ PaymentArrives(u, j) \/ SessionExpires(u, j)
      PROVE  PayMoves(t, k)
  <2>1. CASE CustomerPays(u, j)
    BY <2>1, Turned DEF PayMoves, CustomerPays, Turns
  <2>2. CASE PaymentArrives(u, j)
    BY <2>2, Turned DEF PayMoves, PaymentArrives, Turns
  <2>3. CASE SessionExpires(u, j)
    BY <2>3, Turned DEF PayMoves, SessionExpires, Turns
  <2> QED
    BY <1>2, <2>1, <2>2, <2>3
<1>3. ASSUME NEW u \in Txn, NEW j \in SessionId, Made(u, j)
      PROVE  PayMoves(t, k)
  BY <1>3 DEF PayMoves, Made, TypeOK
<1>4. ASSUME NEW c \in Call, CheckoutCall(c) \/ CheckoutFails(c)
      PROVE  PayMoves(t, k)
  <2>1. call[c].txn \in Txn
    BY <1>4 DEF CallsKnow, Knows, CheckoutCall, CheckoutFails, Running
  <2> QED
    BY <1>1, <1>3, <1>4, <2>1 DEF CheckoutCall, CheckoutFails
<1>5. ASSUME NEW c \in Call, StoreRef(c) PROVE PayMoves(t, k)
  <2>1. call[c].txn \in Txn /\ call[c].n \in SessionId
    BY <1>5 DEF CallsKnow, Knows, StoreRef, Running
  <2> QED
    BY <1>5, <2>1 DEF StoreRef, Opened, PayMoves, TypeOK
<1>6. ASSUME NEW c \in Call, HookCapture(c) PROVE PayMoves(t, k)
  <2>1. call[c].txn \in Txn
    BY <1>6 DEF CallsKnow, Knows, HookCapture, Acts, Running
  <2>2. call[c].ev.n \in SessionId
    BY <1>6, Recorded DEF CallsKnow, Knows, Hook, HookCapture, Acts, Running,
       EventsOccurred, Occurred
  <2> QED
    <3> DEFINE u == call[c].txn  j == call[c].ev.n
    <3>1. CASE UNCHANGED pay
      BY <1>1, <3>1
    <3>2. ASSUME NEW to \in {"paid", "denied"}, pay[u][j] = "approved",
                 pay' = [pay EXCEPT ![u][j] = to]
          PROVE  PayMoves(t, k)
      BY <2>1, <2>2, <3>2, Turned DEF PayMoves
    <3> QED
      BY <1>6, <3>1, <3>2 DEF HookCapture
<1> QED
  BY <1>1, <1>2, <1>4, <1>5, <1>6, Framed DEF Frame

LEMMA TookStays ==
    ASSUME TypeOK, EventsOccurred, CallsKnow, [Next]_vars, NEW t \in Txn, NEW k \in SessionId,
           Took(t, k)
    PROVE  Took(t, k)'
BY PayMoving, Framed DEF PayMoves, Frame, Took, Completed

\* A refund that is made keeps its amount; a pending one arrives in the end.
BackMoves(t, r) ==
    \/ back'[t][r] = back[t][r]
    \/ back[t][r].state # "done"

LEMMA BackMoving ==
    ASSUME TypeOK, EventsOccurred, CallsKnow, [Next]_vars, NEW t \in Txn, NEW r \in RefundId
    PROVE  BackMoves(t, r)
<1>1. CASE UNCHANGED back
  BY <1>1 DEF BackMoves
<1>2. ASSUME NEW u \in Txn, NEW s \in RefundId, RefundSettles(u, s)
      PROVE  BackMoves(t, r)
  BY <1>2 DEF BackMoves, RefundSettles, Refunded, TypeOK
<1>3. ASSUME NEW u \in Txn, NEW s \in RefundId, NEW amt \in 1 .. Amount,
             DashboardRefund(u, s, amt)
      PROVE  BackMoves(t, r)
  BY <1>3 DEF BackMoves, DashboardRefund, Refunded, NoRefund, TypeOK
<1>4. ASSUME NEW c \in Call, BackCall(c) \/ BackFails(c) PROVE BackMoves(t, r)
  <2>1. call[c].txn \in Txn
    BY <1>4 DEF CallsKnow, Knows, BackCall, BackFails, Running
  <2>2. ASSUME NEW s \in RefundId, NEW st, NewRefund(call[c].txn, call[c].amt, s),
               Refunded(call[c].txn, s, call[c].amt, st, via[call[c].txn] \in Keyed)
        PROVE  BackMoves(t, r)
    BY <2>1, <2>2 DEF BackMoves, Refunded, NewRefund, NoRefund, TypeOK
  <2> QED
    BY <1>1, <1>4, <2>2 DEF BackCall, BackFails
<1> QED
  BY <1>1, <1>2, <1>3, <1>4, Framed DEF Frame

LEMMA DoneStays ==
    ASSUME TypeOK, EventsOccurred, CallsKnow, [Next]_vars, NEW t \in Txn, NEW r \in RefundId,
           back[t][r].state = "done"
    PROVE  back'[t][r] = back[t][r]
BY BackMoving DEF BackMoves

LEMMA KeyStays ==
    ASSUME TypeOK, EventsOccurred, CallsKnow, [Next]_vars, NEW t \in Txn, NEW r \in RefundId,
           back[t][r].state = "done"
    PROVE  LedgerKey(t, r)' = LedgerKey(t, r)
BY DoneStays, Framed DEF Frame, LedgerKey

\* The ledger settles a transaction once.
LEMMA SettledStays ==
    ASSUME TypeOK, CallsKnow, [Next]_vars, NEW t \in Txn, status[t] \in {"succeeded", "failed"}
    PROVE  status'[t] = status[t]
<1>1. ASSUME NEW u \in Txn, Ledger!Fail(u) \/ Ledger!Post(u, Amount) \/ Ledger!Stage(u)
      PROVE  status'[t] = status[t]
  BY <1>1 DEF Ledger!Fail, Ledger!Post, Ledger!Stage, TypeOK
<1>2. ASSUME NEW c \in Call,
             CheckoutGivesUp(c) \/ StoreRef(c) \/ HookRecord(c) \/ HookFail(c)
      PROVE  status'[t] = status[t]
  <2>1. call[c].txn \in Txn
    BY <1>2 DEF CallsKnow, Knows, CheckoutGivesUp, StoreRef, HookRecord, HookFail,
       Acts, Running
  <2> QED
    BY <1>1, <1>2, <2>1 DEF CheckoutGivesUp, StoreRef, HookRecord, HookFail, ledger
<1> QED
  BY <1>1, <1>2, Framed DEF Frame, StartCheckout

\* An event that was sent or logged stays known.
LEMMA EventStays ==
    ASSUME TypeOK, CallsKnow, [Next]_vars, NEW e \in Event, event[e] # "none"
    PROVE  event'[e] # "none"
<1>1. ASSUME NEW t, NEW type, NEW n, Sent(t, type, n) PROVE event'[e] # "none"
  BY <1>1 DEF Sent
<1>2. ASSUME NEW t, NEW r, NEW amt, NEW st, NEW keyed, Refunded(t, r, amt, st, keyed)
      PROVE  event'[e] # "none"
  BY <1>1, <1>2 DEF Refunded
<1>3. ASSUME NEW c \in Call, HookMark(c) PROVE event'[e] # "none"
  BY <1>3 DEF HookMark, Noted, TypeOK
<1>4. ASSUME NEW f \in Event, HookDuplicate(f) \/ \E c \in Call : HookLog(c, f)
      PROVE  event'[e] # "none"
  BY <1>4 DEF HookDuplicate, HookLog, TypeOK
<1>5. ASSUME NEW c \in Call, HookCapture(c) \/ BackCall(c) \/ BackFails(c)
      PROVE  event'[e] # "none"
  BY <1>1, <1>2, <1>5 DEF HookCapture, BackCall, BackFails
<1>6. ASSUME NEW t \in Txn, NEW k \in SessionId,
             \/ CustomerPays(t, k) \/ PaymentArrives(t, k) \/ AttemptDeclined(t, k)
             \/ AttemptPending(t, k) \/ SessionExpires(t, k)
      PROVE  event'[e] # "none"
  BY <1>1, <1>6 DEF CustomerPays, PaymentArrives, AttemptDeclined, AttemptPending,
     SessionExpires
<1>7. ASSUME NEW t \in Txn, NEW r \in RefundId, RefundSettles(t, r)
      PROVE  event'[e] # "none"
  BY <1>2, <1>7 DEF RefundSettles
<1>8. ASSUME NEW t \in Txn, NEW r \in RefundId, NEW amt \in 1 .. Amount, DashboardRefund(t, r, amt)
      PROVE  event'[e] # "none"
  BY <1>2, <1>8 DEF DashboardRefund
<1> QED
  BY <1>3, <1>4, <1>5, <1>6, <1>7, <1>8, Framed DEF Frame

-----------------------------------------------------------------------------
(* The conjuncts of the invariant.                                         *)

\* What is announced for the first time has happened.
LEMMA NewsOccurred ==
    ASSUME TypeOK, EventsOccurred, CallsKnow, [Next]_vars, TypeOK', NEW e \in Event,
           event[e] = "none", event'[e] # "none"
    PROVE  Occurred(e)'
<1>1. ASSUME NEW t \in Txn, NEW type, NEW n, Sent(t, type, n)
      PROVE  e.txn = t /\ e.type = type /\ e.n = n
  BY <1>1 DEF Sent, About
<1>2. ASSUME NEW t \in Txn, NEW r \in RefundId, NEW amt, NEW st, NEW keyed,
             Refunded(t, r, amt, st, keyed)
      PROVE  Occurred(e)'
  <2>1. CASE st = "done"
    <3>1. Sent(t, "refunded", r)
      BY <1>2, <2>1 DEF Refunded
    <3>2. back'[t][r].state = "done"
      BY <1>2, <2>1 DEF Refunded, TypeOK
    <3> QED
      BY <1>1, <3>1, <3>2 DEF Occurred
  <2>2. CASE st # "done"
    <3>1. Sent(t, "refunding", r) \/ UNCHANGED event
      BY <1>2, <2>2 DEF Refunded
    <3> QED
      BY <1>1, <3>1 DEF Occurred
  <2> QED
    BY <2>1, <2>2
<1>3. ASSUME NEW t \in Txn, NEW k \in SessionId, NEW type \in {"approved", "pending", "failed"},
             Sent(t, type, k)
      PROVE  Occurred(e)'
  BY <1>1, <1>3 DEF Occurred
<1>4. ASSUME NEW t \in Txn, NEW k \in SessionId, Sent(t, "paid", k), Took(t, k)'
      PROVE  Occurred(e)'
  BY <1>1, <1>4 DEF Occurred
<1>5. ASSUME NEW t \in Txn, NEW k \in SessionId, CustomerPays(t, k)
      PROVE  Occurred(e)'
  <2>1. CASE Sent(t, "approved", k)
    BY <1>3, <2>1
  <2>2. CASE Sent(t, "paid", k) /\ pay'[t][k] \in Completed
    BY <1>4, <2>2 DEF Took
  <2> QED
    BY <1>5, <2>1, <2>2 DEF CustomerPays, Turns, Completed, TypeOK
<1>6. ASSUME NEW t \in Txn, NEW k \in SessionId,
             \/ PaymentArrives(t, k) \/ AttemptDeclined(t, k)
             \/ AttemptPending(t, k) \/ SessionExpires(t, k)
      PROVE  Occurred(e)'
  BY <1>3, <1>6 DEF PaymentArrives, AttemptDeclined, AttemptPending, SessionExpires
<1>7. ASSUME NEW t \in Txn, NEW r \in RefundId, RefundSettles(t, r)
      PROVE  Occurred(e)'
  BY <1>2, <1>7 DEF RefundSettles
<1>8. ASSUME NEW t \in Txn, NEW r \in RefundId, NEW amt \in 1 .. Amount, DashboardRefund(t, r, amt)
      PROVE  Occurred(e)'
  BY <1>2, <1>8 DEF DashboardRefund
<1>9. ASSUME NEW c \in Call, BackCall(c) \/ BackFails(c) PROVE Occurred(e)'
  <2>1. call[c].txn \in Txn
    BY <1>9 DEF CallsKnow, Knows, BackCall, BackFails, Running
  <2> QED
    BY <1>2, <1>9, <2>1 DEF BackCall, BackFails
<1>10. ASSUME NEW c \in Call, HookCapture(c) PROVE Occurred(e)'
  <2>1. call[c].txn \in Txn
    BY <1>10 DEF CallsKnow, Knows, HookCapture, Acts, Running
  <2>2. call[c].ev.n \in SessionId
    BY <1>10, Recorded DEF CallsKnow, Knows, Hook, HookCapture, Acts, Running,
       EventsOccurred, Occurred
  <2>3. PICK t \in Txn, k \in SessionId :
            \/ pay' = [pay EXCEPT ![t][k] = "paid"] /\ Sent(t, "paid", k)
            \/ Sent(t, "failed", k)
            \/ UNCHANGED event
    BY <1>10, <2>1, <2>2 DEF HookCapture
  <2>4. pay' = [pay EXCEPT ![t][k] = "paid"] => Took(t, k)'
    BY DEF Took, Completed, TypeOK
  <2> QED
    BY <1>3, <1>4, <2>3, <2>4
<1>11. ASSUME NEW c \in Call, HookMark(c) PROVE FALSE
  <2>1. event[call[c].ev] # "none"
    BY <1>11 DEF CallsKnow, Knows, Hook, HookMark, Running
  <2> QED
    BY <1>11, <2>1 DEF HookMark, TypeOK
<1>12. ASSUME NEW f \in Event, HookDuplicate(f) \/ \E c \in Call : HookLog(c, f)
       PROVE  FALSE
  BY <1>12 DEF HookDuplicate, HookLog, TypeOK
<1> QED
  BY <1>5, <1>6, <1>7, <1>8, <1>9, <1>10, <1>11, <1>12, Framed DEF Frame

LEMMA EventsStep ==
    ASSUME TypeOK, EventsOccurred, CallsKnow, [Next]_vars, TypeOK' PROVE EventsOccurred'
<1> SUFFICES ASSUME NEW e \in Event, event'[e] # "none" PROVE Occurred(e)'
  BY DEF EventsOccurred
<1>1. CASE event[e] = "none"
  BY <1>1, NewsOccurred
<1>2. CASE event[e] # "none"
  <2>1. Occurred(e) /\ e.txn \in Txn
    BY <1>2 DEF EventsOccurred, Event
  <2> QED
    BY <2>1, DoneStays, TookStays DEF Occurred
<1> QED
  BY <1>1, <1>2

\* What a call knows stays true while others go on.
LEMMA KnowledgeStays ==
    ASSUME TypeOK, EventsOccurred, CallsKnow, [Next]_vars, NEW c \in Call, call'[c] = call[c]
    PROVE  Knows(c)'
<1> DEFINE s == call[c]
<1>1. Knows(c)
  BY DEF CallsKnow
<1>2. via' = via
  BY Framed DEF Frame
<1>3. s.pc \in Hook => event'[s.ev] # "none"
  BY <1>1, EventStays DEF Knows
<1>4. s.pc = "hook.mark" /\ s.ev.type = "paid" => status'[s.txn] \in {"succeeded", "failed"}
  BY <1>1, SettledStays DEF Knows
<1>5. s.pc = "back.post" => back'[s.txn][s.n].state = "done"
  BY <1>1, DoneStays DEF Knows
<1> QED
  BY <1>1, <1>2, <1>3, <1>4, <1>5 DEF Knows

\* A call that has ended knows nothing, one that merely goes on what it knew.
LEMMA GoingOn ==
    ASSUME TypeOK, EventsOccurred, CallsKnow, [Next]_vars, NEW c \in Call
    PROVE  /\ Ends(c) => Knows(c)'
           /\ \A pc : /\ Goes(c, pc)
                     /\ call[c].pc # "idle" /\ (pc \in Hook => call[c].pc \in Hook)
                     /\ pc \notin {"hook.mark", "out.ref", "back.post"}
                     => Knows(c)'
<1>1. ASSUME Ends(c) PROVE Knows(c)'
  BY <1>1 DEF Ends, NoCall, Knows, Hook, TypeOK
<1>2. ASSUME NEW pc, Goes(c, pc), call[c].pc # "idle", pc \in Hook => call[c].pc \in Hook,
             pc \notin {"hook.mark", "out.ref", "back.post"}
      PROVE  Knows(c)'
  <2>1. /\ call'[c].pc = pc
        /\ call'[c].txn = call[c].txn
        /\ call'[c].ev = call[c].ev
    BY <1>2 DEF Goes, TypeOK, CallState
  <2>2. Knows(c)
    BY DEF CallsKnow
  <2>3. call[c].pc \in Hook => event'[call[c].ev] # "none"
    BY <2>2, EventStays DEF Knows
  <2> QED
    BY <1>2, <2>1, <2>2, <2>3 DEF Knows
<1> QED
  BY <1>1, <1>2

LEMMA CallsStep ==
    ASSUME TypeOK, EventsOccurred, CallsKnow, [Next]_vars, TypeOK' PROVE CallsKnow'
<1> SUFFICES ASSUME NEW d \in Call PROVE Knows(d)'
  BY DEF CallsKnow
<1>1. CASE call'[d] = call[d]
  BY <1>1, KnowledgeStays
<1>2. ASSUME NEW c \in Call, Ends(c) PROVE Knows(d)'
  BY <1>1, <1>2, GoingOn DEF Ends, TypeOK
<1>3. ASSUME NEW c \in Call, NEW pc, Goes(c, pc), call[c].pc # "idle",
             pc \in Hook => call[c].pc \in Hook,
             pc \notin {"hook.mark", "out.ref", "back.post"}
      PROVE  Knows(d)'
  BY <1>1, <1>3, GoingOn DEF Goes, TypeOK
<1>4. ASSUME NEW c \in Call, NEW t \in Txn, NEW pc \in {"out.call", "back.call"},
             NEW amt, Starts(c, pc, t, None, 0, amt)
      PROVE  Knows(d)'
  <2>1. CASE c = d
    BY <1>4, <2>1 DEF Starts, Knows, Hook, TypeOK
  <2> QED
    BY <1>1, <1>4, <2>1 DEF Starts, TypeOK
<1>5. ASSUME NEW c \in Call, NEW e \in Event, HookLog(c, e) PROVE Knows(d)'
  <2>1. CASE c = d
    <3>1. event'[e] # "none" /\ e.txn \in Txn
      BY <1>5 DEF HookLog, Event, TypeOK
    <3> QED
      BY <1>5, <2>1, <3>1 DEF HookLog, Starts, Knows, Hook, TypeOK
  <2> QED
    BY <1>1, <1>5, <2>1 DEF HookLog, Starts, TypeOK
\* Going on to the note that an event is handled: its transaction is settled.
<1>6. ASSUME NEW c \in Call, call[c].pc = "hook.act", Goes(c, "hook.mark"),
             call[c].ev.type = "paid" => status'[call[c].txn] \in {"succeeded", "failed"}
      PROVE  Knows(d)'
  <2>1. CASE c = d
    <3>1. /\ call'[d].pc = "hook.mark"
          /\ call'[d].txn = call[d].txn
          /\ call'[d].ev = call[d].ev
      BY <1>6, <2>1 DEF Goes, TypeOK, CallState
    <3>2. /\ call[d].txn \in Txn /\ call[d].ev \in Event
          /\ call[d].txn = call[d].ev.txn /\ event'[call[d].ev] # "none"
      BY <1>6, <2>1, EventStays DEF CallsKnow, Knows, Hook
    <3> QED
      BY <1>6, <2>1, <3>1, <3>2 DEF Knows
  <2> QED
    BY <1>1, <1>6, <2>1 DEF Goes, TypeOK
<1>7. ASSUME NEW c \in Call, CheckoutCall(c) PROVE Knows(d)'
  <2>1. PICK k \in SessionId : call' = [call EXCEPT ![c].pc = "out.ref", ![c].n = k]
    BY <1>7 DEF CheckoutCall
  <2>2. call[c].txn \in Txn
    BY <1>7 DEF CallsKnow, Knows, CheckoutCall, Running
  <2>3. CASE c = d
    <3>1. /\ call'[d].pc = "out.ref" /\ call'[d].n = k
          /\ call'[d].txn = call[d].txn
      BY <2>1, <2>3 DEF TypeOK, CallState
    <3> QED
      BY <2>2, <2>3, <3>1 DEF Knows, Hook
  <2> QED
    BY <1>1, <2>1, <2>3 DEF TypeOK
<1>8. ASSUME NEW c \in Call, BackCall(c) PROVE Knows(d)'
  <2>1. CASE Ends(c)
    BY <1>2, <2>1
  <2>2. ASSUME NEW r \in RefundId, back'[call[c].txn][r].state = "done",
               call' = [call EXCEPT ![c].pc = "back.post", ![c].n = r]
        PROVE  Knows(d)'
    <3>1. call[c].txn \in Txn
      BY <1>8 DEF CallsKnow, Knows, BackCall, Running
    <3>2. CASE c = d
      <4>1. /\ call'[d].pc = "back.post" /\ call'[d].n = r
            /\ call'[d].txn = call[d].txn
        BY <2>2, <3>2 DEF TypeOK, CallState
      <4> QED
        BY <2>2, <3>1, <3>2, <4>1 DEF Knows, Hook
    <3> QED
      BY <1>1, <2>2, <3>2 DEF TypeOK
  <2> QED
    BY <1>8, <2>1, <2>2 DEF BackCall, Confirmed
<1>9. ASSUME NEW c \in Call,
             \/ HookRecord(c) \/ HookRecordSettled(c)
             \/ HookFail(c) \/ HookAcknowledge(c)
      PROVE  Knows(d)'
  <2>1. call[c].txn \in Txn /\ call[c].ev \in Event /\ call[c].pc = "hook.act"
    BY <1>9 DEF CallsKnow, Knows, Hook, HookRecord, HookRecordSettled, HookFail,
       HookAcknowledge, Acts, Running
  <2>2. CASE Goes(c, "hook.note")
    BY <1>3, <2>1, <2>2 DEF Hook
  <2>3. CASE Goes(c, "hook.mark")
    <3>1. call[c].ev.type = "paid" => HookRecord(c) \/ HookRecordSettled(c)
      BY <1>9, <2>1, Recorded DEF HookFail, HookAcknowledge, Acts
    <3>2. HookRecord(c) => status'[call[c].txn] \in {"succeeded", "failed"}
      BY <2>1 DEF HookRecord, Ledger!Post, Ledger!Fail, TypeOK
    <3>3. "hook.mark" # "hook.note"
      OBVIOUS
    <3>4. HookRecordSettled(c) => status[call[c].txn] = "succeeded" \/ Goes(c, "hook.note")
      BY DEF HookRecordSettled
    <3>5. ~ Goes(c, "hook.note")
      BY <2>3 DEF Goes, TypeOK, CallState
    <3>6. HookRecordSettled(c) => status'[call[c].txn] \in {"succeeded", "failed"}
      BY <3>4, <3>5 DEF HookRecordSettled, ledger
    <3> QED
      BY <1>6, <2>1, <2>3, <3>1, <3>2, <3>6
  <2> QED
    BY <1>9, <2>2, <2>3 DEF HookRecord, HookRecordSettled, HookFail, HookAcknowledge
<1>10. ASSUME NEW c \in Call, HookCapture(c) \/ HookReconcile(c) PROVE Knows(d)'
  <2>1. call[c].txn \in Txn /\ call[c].ev \in Event /\ call[c].pc = "hook.act"
    BY <1>10 DEF CallsKnow, Knows, Hook, HookCapture, HookReconcile, Acts, Running
  <2>2. call[c].ev.type # "paid"
    BY <1>10, <2>1, Recorded DEF HookCapture, HookReconcile, Acts
  <2>3. Goes(c, "hook.mark") \/ Goes(c, "hook.note") \/ Goes(c, "hook.swallow")
    BY <1>10 DEF HookCapture, HookReconcile
  <2> QED
    BY <1>3, <1>6, <2>1, <2>2, <2>3 DEF Hook
<1>11. ASSUME NEW c \in Call, CheckoutFails(c) PROVE Knows(d)'
  BY <1>3, <1>11 DEF CheckoutFails, Running, Hook
<1>12. ASSUME NEW c \in Call,
              \/ CheckoutGivesUp(c) \/ StoreRef(c) \/ HookMark(c) \/ BackFails(c)
              \/ BackPost(c) \/ Crash(c)
       PROVE  Knows(d)'
  BY <1>2, <1>12 DEF CheckoutGivesUp, StoreRef, HookMark, BackFails, BackPost, Crash
<1>18. ASSUME NEW e \in Event, HookDuplicate(e) PROVE UNCHANGED call
  BY <1>18 DEF HookDuplicate
<1>17. ASSUME NEW c \in Call, HookUnmatched(c) PROVE Knows(d)'
  BY <1>2, <1>3, <1>17 DEF HookUnmatched, Running, Hook
<1>13. ASSUME NEW c \in Call, NEW t \in Txn, CheckoutBegin(c, t) PROVE Knows(d)'
  BY <1>4, <1>13 DEF CheckoutBegin
<1>14. ASSUME NEW c \in Call, NEW t \in Txn, NEW amt \in 1 .. Amount, BackBegin(c, t, amt)
       PROVE  Knows(d)'
  BY <1>4, <1>14 DEF BackBegin
<1>15. CASE UNCHANGED call
  BY <1>1, <1>15
<1>16. ASSUME NEW t \in Txn,
              \/ StartCheckout(t) \/ ProviderStep(t)
              \/ \E amt \in 1 .. Amount : StaffRefund(t, amt)
       PROVE  UNCHANGED call
  BY <1>16 DEF StartCheckout, StaffRefund, ProviderStep, CustomerPays,
     PaymentArrives,
     AttemptDeclined, AttemptPending, SessionExpires, RefundSettles, DashboardRefund, Turns
<1> QED
  BY <1>5, <1>7, <1>8, <1>9, <1>10, <1>11, <1>12, <1>13, <1>14, <1>15, <1>16, <1>17,
     <1>18 DEF Next, FunctionStep, CheckoutStep, HookStep, BackStep, vars

LEMMA ChargedStep ==
    ASSUME TypeOK, EventsOccurred, CallsKnow, [Next]_vars, Charged PROVE Charged'
<1> SUFFICES ASSUME NEW t \in Txn, status'[t] = "succeeded"
             PROVE  \E k \in SessionId : ref'[t] = ChargeRef(t, k)' /\ Took(t, k)'
  BY DEF Charged
<1>1. via' = via
  BY Framed DEF Frame
\* It had succeeded before, and its reference stays.
<1>2. ASSUME status[t] = "succeeded", ref'[t] = ref[t]
      PROVE  \E k \in SessionId : ref'[t] = ChargeRef(t, k)' /\ Took(t, k)'
  BY <1>1, <1>2, TookStays DEF Charged, ChargeRef
<1>3. CASE UNCHANGED <<status, ref>>
  BY <1>2, <1>3
<1>4. ASSUME NEW u \in Txn, Ledger!Fail(u) \/ Ledger!Stage(u), UNCHANGED ref
      PROVE  status[t] = "succeeded" /\ ref'[t] = ref[t]
  BY <1>4 DEF Ledger!Fail, Ledger!Stage, TypeOK
<1>5. ASSUME NEW c \in Call, CheckoutGivesUp(c) \/ HookFail(c)
      PROVE  status[t] = "succeeded" /\ ref'[t] = ref[t]
  <2>1. call[c].txn \in Txn
    BY <1>5 DEF CallsKnow, Knows, CheckoutGivesUp, HookFail, Acts, Running
  <2> QED
    BY <1>4, <1>5, <2>1 DEF CheckoutGivesUp, HookFail, ledger
<1>6. ASSUME NEW c \in Call, StoreRef(c)
      PROVE  status[t] = "succeeded" /\ ref'[t] = ref[t]
  <2>1. call[c].txn \in Txn
    BY <1>6 DEF CallsKnow, Knows, StoreRef, Running
  <2> QED
    BY <1>6, <2>1 DEF StoreRef, ledger, TypeOK
<1>7. ASSUME NEW c \in Call, HookRecord(c)
      PROVE  \E k \in SessionId : ref'[t] = ChargeRef(t, k)' /\ Took(t, k)'
  <2>1. call[c].txn \in Txn /\ call[c].ev \in Event /\ event[call[c].ev] # "none"
        /\ call[c].txn = call[c].ev.txn
    BY <1>7 DEF CallsKnow, Knows, Hook, HookRecord, Acts, Running
  <2>2. call[c].ev.type = "paid"
    BY <1>7, <2>1, Recorded DEF HookRecord, Acts
  <2>3. call[c].ev.n \in SessionId /\ Took(call[c].txn, call[c].ev.n)
    BY <2>1, <2>2 DEF EventsOccurred, Occurred
  <2>4. CASE call[c].txn = t
    <3>1. ref'[t] = ChargeRef(t, call[c].ev.n)
      BY <1>7, <2>4 DEF HookRecord, TypeOK
    <3>2. PICK k \in SessionId : ref'[t] = ChargeRef(t, k) /\ Took(t, k)
      BY <2>3, <2>4, <3>1
    <3> QED
      BY <1>1, <3>2, TookStays DEF ChargeRef
  <2>5. CASE call[c].txn # t
    <3>1. ref'[t] = ref[t]
      BY <1>7, <2>5 DEF HookRecord, TypeOK
    <3>2. status[t] = "succeeded"
      BY <1>7, <2>1, <2>5 DEF HookRecord, Ledger!Post, Ledger!Fail, TypeOK
    <3> QED
      BY <1>2, <3>1, <3>2
  <2> QED
    BY <2>4, <2>5
<1> QED
  BY <1>2, <1>3, <1>4, <1>5, <1>6, <1>7, Framed DEF Frame, StartCheckout

LEMMA BackedStep ==
    ASSUME TypeOK, EventsOccurred, CallsKnow, [Next]_vars, RefundsBacked
    PROVE  RefundsBacked'
<1> SUFFICES ASSUME NEW t \in Txn, NEW key \in keys'[t]
             PROVE  \E r \in RefundId :
                        back'[t][r].state = "done" /\ LedgerKey(t, r)' = key
  BY DEF RefundsBacked
<1>1. ASSUME NEW r \in RefundId, back[t][r].state = "done", LedgerKey(t, r) = key
      PROVE  \E s \in RefundId : back'[t][s].state = "done" /\ LedgerKey(t, s)' = key
  BY <1>1, DoneStays, KeyStays
<1>2. CASE key \in keys[t]
  BY <1>1, <1>2 DEF RefundsBacked
<1>3. CASE key \notin keys[t]
  <2>1. ASSUME NEW u \in Txn, NEW new, NEW amt, Ledger!Refund(u, new, amt)
        PROVE  u = t /\ new = key /\ key # None
    BY <1>3, <2>1 DEF Ledger!Refund, TypeOK
  <2>2. ASSUME NEW u \in Txn, NEW amt \in 1 .. Amount, StaffRefund(u, amt)
        PROVE  FALSE
    BY <2>1, <2>2 DEF StaffRefund
  <2>3. ASSUME NEW c \in Call, HookReconcile(c)
        PROVE  \E r \in RefundId : back[t][r].state = "done" /\ LedgerKey(t, r) = key
    <3>1. /\ call[c].txn \in Txn /\ call[c].ev \in Event /\ event[call[c].ev] # "none"
          /\ call[c].txn = call[c].ev.txn
      BY <2>3 DEF CallsKnow, Knows, Hook, HookReconcile, Acts, Running
    <3>2. call[c].ev.type = "refunded"
      BY <1>3, <2>1, <2>3 DEF HookReconcile, Succeeded, ledger
    <3>3. call[c].ev.n \in RefundId /\ back[call[c].txn][call[c].ev.n].state = "done"
      BY <3>1, <3>2 DEF EventsOccurred, Occurred
    <3>4. call[c].txn = t /\ LedgerKey(call[c].txn, call[c].ev.n) = key
      BY <1>3, <2>1, <2>3, <3>1 DEF HookReconcile, ledger
    <3> QED
      BY <3>3, <3>4
  <2>4. ASSUME NEW c \in Call, BackPost(c)
        PROVE  \E r \in RefundId : back[t][r].state = "done" /\ LedgerKey(t, r) = key
    <3>1. /\ call[c].txn \in Txn /\ call[c].n \in RefundId
          /\ back[call[c].txn][call[c].n].state = "done"
      BY <2>4 DEF CallsKnow, Knows, BackPost, Running
    <3>2. call[c].txn = t /\ LedgerKey(call[c].txn, call[c].n) = key
      BY <1>3, <2>1, <2>4, <3>1 DEF BackPost, PostKey, ledger
    <3> QED
      BY <3>1, <3>2
  <2> QED
    BY <1>1, <1>3, <2>2, <2>3, <2>4, Framed DEF Frame
<1> QED
  BY <1>2, <1>3

LEMMA ProcessedStep ==
    ASSUME TypeOK, CallsKnow, [Next]_vars, ProcessedMeansSettled
    PROVE  ProcessedMeansSettled'
<1> SUFFICES ASSUME NEW e \in Event, e.type = "paid", event'[e] = "processed"
             PROVE  status'[e.txn] \in {"succeeded", "failed"}
  BY DEF ProcessedMeansSettled
<1>1. e.txn \in Txn
  BY DEF Event
<1>2. CASE event[e] = "processed"
  BY <1>1, <1>2, SettledStays DEF ProcessedMeansSettled
<1>3. CASE event[e] # "processed"
  <2>1. ASSUME NEW t, NEW type, NEW n, Sent(t, type, n) PROVE FALSE
    BY <1>3, <2>1 DEF Sent
  <2>2. ASSUME NEW t, NEW r, NEW amt, NEW st, NEW keyed, Refunded(t, r, amt, st,
               keyed)
        PROVE  FALSE
    BY <1>3, <2>1, <2>2 DEF Refunded
  <2>3. ASSUME NEW c \in Call, HookMark(c)
        PROVE  status[e.txn] \in {"succeeded", "failed"}
    <3>1. call[c].ev \in Event /\ call[c].txn = call[c].ev.txn
      BY <2>3 DEF CallsKnow, Knows, Hook, HookMark, Running
    <3>2. call[c].ev = e /\ call[c].pc = "hook.mark"
      BY <1>3, <2>3, <3>1 DEF HookMark, Noted, Running, TypeOK
    <3> QED
      BY <3>1, <3>2 DEF CallsKnow, Knows
  <2>4. ASSUME NEW f \in Event, HookDuplicate(f) \/ \E c \in Call : HookLog(c, f)
        PROVE  FALSE
    BY <1>3, <2>4 DEF HookDuplicate, HookLog, TypeOK
  <2>5. ASSUME NEW c \in Call, HookCapture(c) \/ BackCall(c) \/ BackFails(c)
        PROVE  FALSE
    BY <1>3, <2>1, <2>2, <2>5 DEF HookCapture, BackCall, BackFails
  <2>6. ASSUME NEW t \in Txn, NEW k \in SessionId,
               \/ CustomerPays(t, k) \/ PaymentArrives(t, k) \/ AttemptDeclined(t, k)
               \/ AttemptPending(t, k) \/ SessionExpires(t, k)
        PROVE  FALSE
    BY <2>1, <2>6 DEF CustomerPays, PaymentArrives, AttemptDeclined, AttemptPending,
       SessionExpires
  <2>7. ASSUME NEW t \in Txn, NEW r \in RefundId,
               RefundSettles(t, r) \/ \E amt \in 1 .. Amount : DashboardRefund(t, r, amt)
        PROVE  FALSE
    BY <2>2, <2>7 DEF RefundSettles, DashboardRefund
  <2>8. status[e.txn] \in {"succeeded", "failed"}
    BY <1>3, <2>3, <2>4, <2>5, <2>6, <2>7, Framed DEF Frame
  <2> QED
    BY <1>1, <2>8, SettledStays
<1> QED
  BY <1>2, <1>3

-----------------------------------------------------------------------------
LEMMA InitInv == Init => Inv
<1> SUFFICES ASSUME Init PROVE Inv
  OBVIOUS
<1> USE GatewayAssumption DEF Init, Ledger!Init
<1>1. TypeOK
  BY DEF TypeOK, NoCall, CallState, PC, NoRefund, RefundRow, SessionStatus,
     EventStatus
<1>2. EventsOccurred
  BY DEF EventsOccurred
<1>3. CallsKnow
  BY DEF CallsKnow, Knows, NoCall, Hook
<1>4. Charged
  BY DEF Charged
<1>5. RefundsBacked
  BY DEF RefundsBacked
<1>6. ProcessedMeansSettled
  BY DEF ProcessedMeansSettled
<1> QED
  BY <1>1, <1>2, <1>3, <1>4, <1>5, <1>6 DEF Inv

LEMMA InvStep == Inv /\ [Next]_vars => Inv'
<1> SUFFICES ASSUME Inv, [Next]_vars PROVE Inv'
  OBVIOUS
<1> USE DEF Inv
<1>1. TypeOK'
  BY TypeStep
<1> QED
  BY <1>1, EventsStep, CallsStep, ChargedStep, BackedStep, ProcessedStep

LEMMA Invariant == Spec => []Inv
<1> QED
  BY InitInv, InvStep, PTL DEF Spec

\* The tables, the providers' books and the calls keep their shapes, whatever
\* events arrive in whatever order.
THEOREM DeliveryTypes == Spec => []TypeOK
<1>1. Inv => TypeOK
  BY DEF Inv
<1> QED
  BY <1>1, Invariant, PTL

\* The webhooks post a payment only for a session the customer went through
\* with: any number of sessions, retries and calls.
THEOREM PostedCompleted == Spec => []PostedOnlyWhenCompleted
<1>1. Inv => PostedOnlyWhenCompleted
  BY DEF Inv, Charged, Took, PostedOnlyWhenCompleted
<1> QED
  BY <1>1, Invariant, PTL

\* create-checkout-session never overwrites the reference of a transaction
\* that succeeded with that of another session.
THEOREM RefIsCharge == Spec => []SucceededRefIsCharge
<1>1. Inv => SucceededRefIsCharge
  BY DEF Inv, Charged, Took, SucceededRefIsCharge
<1> QED
  BY <1>1, Invariant, PTL

\* What the functions and Stripe's webhook record as refunded, the provider
\* has refunded: the functions look at the status in the answer, the webhook at
\* that in the event.
THEOREM RefundsAreBacked == Spec => []RefundsBacked
<1>1. Inv => RefundsBacked
  BY DEF Inv
<1> QED
  BY <1>1, Invariant, PTL

\* An event of a payment whose row is processed, names its transaction and has
\* no error in it has settled that transaction.
THEOREM ProcessedSettled == Spec => []ProcessedMeansSettled
<1>1. Inv => ProcessedMeansSettled
  BY DEF Inv
<1> QED
  BY <1>1, Invariant, PTL

-----------------------------------------------------------------------------
(* Between the functions and the ledger: GatewayContract.                  *)

\* Nobody asks for a refund of nothing.
RefundsPositive ==
    /\ \A t \in Txn, r \in RefundId :
            back[t][r].state # "none" => back[t][r].amt \in 1 .. Amount
    /\ \A c \in Call :
            Running(c, "back.call") \/ Running(c, "back.post") => call[c].amt \in 1 .. Amount

\* A refund at the provider gets its amount from a call, the dashboard, or
\* what it was when it was pending.
LEMMA BackPositive ==
    ASSUME TypeOK, CallsKnow, RefundsPositive, [Next]_vars,
           NEW t \in Txn, NEW r \in RefundId, back'[t][r].state # "none"
    PROVE  back'[t][r].amt \in 1 .. Amount
<1>1. CASE UNCHANGED back
  BY <1>1 DEF RefundsPositive
<1>2. ASSUME NEW u \in Txn, NEW s \in RefundId, NEW amt \in 1 .. Amount, NEW st, NEW keyed,
             Refunded(u, s, amt, st, keyed)
      PROVE  back'[t][r].amt \in 1 .. Amount
  BY <1>2 DEF Refunded, TypeOK, RefundsPositive
<1>3. ASSUME NEW u \in Txn, NEW s \in RefundId, RefundSettles(u, s)
      PROVE  back'[t][r].amt \in 1 .. Amount
  <2>1. back[u][s].amt \in 1 .. Amount
    BY <1>3 DEF RefundSettles, RefundsPositive
  <2> QED
    BY <1>2, <1>3, <2>1 DEF RefundSettles
<1>4. ASSUME NEW u \in Txn, NEW s \in RefundId, NEW amt \in 1 .. Amount,
             DashboardRefund(u, s, amt)
      PROVE  back'[t][r].amt \in 1 .. Amount
  BY <1>2, <1>4 DEF DashboardRefund
<1>5. ASSUME NEW c \in Call, BackCall(c) \/ BackFails(c)
      PROVE  back'[t][r].amt \in 1 .. Amount
  <2>1. call[c].txn \in Txn /\ call[c].amt \in 1 .. Amount
    BY <1>5 DEF CallsKnow, Knows, BackCall, BackFails, Running, RefundsPositive
  <2>2. \/ UNCHANGED back
        \/ \E s \in RefundId, st \in RefundStates(call[c].txn) :
                Refunded(call[c].txn, s, call[c].amt, st, via[call[c].txn] \in Keyed)
    BY <1>5 DEF BackCall, BackFails
  <2> QED
    BY <1>1, <1>2, <2>1, <2>2
<1> QED
  BY <1>1, <1>3, <1>4, <1>5, Framed DEF Frame

\* A refund call keeps the amount it began with.
LEMMA CallPositive ==
    ASSUME TypeOK, RefundsPositive, [Next]_vars, NEW c \in Call,
           Running(c, "back.call")' \/ Running(c, "back.post")'
    PROVE  call'[c].amt \in 1 .. Amount
<1> USE DEF Running
<1>1. CASE call'[c] = call[c]
  BY <1>1 DEF RefundsPositive
<1>2. ASSUME NEW d \in Call,
             \/ Ends(d)
             \/ \E pc \in {"hook.mark", "hook.note", "hook.stray", "hook.swallow", "out.fail"} : Goes(d, pc)
             \/ \E t, e, n, amt : \E pc \in {"hook.act", "out.call"} : Starts(d, pc, t, e, n, amt)
             \/ \E k : call' = [call EXCEPT ![d].pc = "out.ref", ![d].n = k]
      PROVE  call'[c] = call[c]
  BY <1>2 DEF TypeOK, CallState, Ends, Goes, Starts, NoCall
<1>3. ASSUME NEW t \in Txn, NEW d \in Call, NEW amt \in 1 .. Amount, BackBegin(d, t, amt)
      PROVE  call'[c].amt \in 1 .. Amount
  BY <1>1, <1>3 DEF BackBegin, Starts, TypeOK
<1>4. ASSUME NEW d \in Call, BackCall(d) PROVE call'[c].amt \in 1 .. Amount
  <2>1. call[d].amt \in 1 .. Amount
    BY <1>4 DEF BackCall, RefundsPositive
  <2>2. Ends(d) \/ \E r : call' = [call EXCEPT ![d].pc = "back.post", ![d].n = r]
    BY <1>4 DEF BackCall
  <2>3. ASSUME NEW r, call' = [call EXCEPT ![d].pc = "back.post", ![d].n = r]
        PROVE  call'[c] = call[c] \/ (c = d /\ call'[c].amt = call[d].amt)
    BY <2>3 DEF TypeOK, CallState
  <2> QED
    BY <1>1, <1>2, <2>1, <2>2, <2>3
<1>5. ASSUME NEW d \in Call,
             \/ \E t \in Txn : CheckoutBegin(d, t)
             \/ \E e \in Event : HookLog(d, e)
      PROVE  call'[c] = call[c]
  BY <1>2, <1>5 DEF CheckoutBegin, HookLog
<1>6. ASSUME NEW d \in Call, CheckoutStep(d) PROVE call'[c] = call[c]
  BY <1>2, <1>6 DEF CheckoutStep, CheckoutCall, CheckoutFails, CheckoutGivesUp, StoreRef
<1>7. ASSUME NEW d \in Call, HookStep(d) PROVE call'[c] = call[c]
  BY <1>2, <1>7 DEF HookStep, HookUnmatched, HookRecord, HookRecordSettled, HookFail, HookAcknowledge,
     HookCapture, HookReconcile, HookMark
<1>8. ASSUME NEW d \in Call, BackFails(d) \/ BackPost(d) \/ Crash(d)
      PROVE  call'[c] = call[c]
  BY <1>2, <1>8 DEF BackFails, BackPost, Crash
<1>9. ASSUME NEW t \in Txn,
             \/ StartCheckout(t) \/ ProviderStep(t)
             \/ \E amt \in 1 .. Amount : StaffRefund(t, amt)
      PROVE  call'[c] = call[c]
  BY <1>9 DEF StartCheckout, StaffRefund, ProviderStep, CustomerPays, PaymentArrives,
     AttemptDeclined, AttemptPending, SessionExpires, DashboardRefund, RefundSettles, Turns
<1>10. CASE UNCHANGED vars
  BY <1>1, <1>10 DEF vars
<1>11. ASSUME NEW e \in Event, HookDuplicate(e) PROVE call'[c] = call[c]
  BY <1>11 DEF HookDuplicate
<1> QED
  BY <1>1, <1>3, <1>4, <1>5, <1>6, <1>7, <1>8, <1>9, <1>10, <1>11
     DEF Next, FunctionStep, BackStep

LEMMA PositiveInvariant == Spec => []RefundsPositive
<1>1. Init => RefundsPositive
  BY DEF Init, RefundsPositive, Running, NoRefund, NoCall
<1>2. Inv /\ RefundsPositive /\ [Next]_vars => RefundsPositive'
  BY BackPositive, CallPositive DEF Inv, RefundsPositive
<1> QED
  BY <1>1, <1>2, Invariant, PTL DEF Spec

\* What a step of the functions does to the ledger is one of the contract's
\* steps.
LEMMA ContractStep ==
    ASSUME TypeOK, EventsOccurred, CallsKnow, RefundsPositive, [Next]_vars
    PROVE  [Ledger!Next]_(Ledger!contract)
<1> DEFINE Kept == [Ledger!Next]_(Ledger!contract)
<1>1. UNCHANGED ledger => Kept
  BY DEF ledger, Ledger!contract
<1>2. ASSUME NEW t \in Txn, Ledger!Stage(t) \/ Ledger!Fail(t) \/ Ledger!Post(t, Amount)
      PROVE  Kept
  <2>1. Amount \in 1 .. Amount
    BY GatewayAssumption
  <2> QED
    BY <1>2, <2>1 DEF Ledger!Next
<1>3. ASSUME NEW t \in Txn, NEW key \in RefundKey \cup {None}, NEW amt \in 1 .. Amount,
             Ledger!Refund(t, key, amt)
      PROVE  Kept
  BY <1>3 DEF Ledger!Next
<1>4. ASSUME NEW c \in Call, ~Running(c, "idle") PROVE call[c].txn \in Txn
  BY <1>4 DEF CallsKnow, Knows, Running
<1> HIDE DEF Kept
<1>5. ASSUME NEW t \in Txn, StartCheckout(t) \/ \E amt \in 1 .. Amount : StaffRefund(t, amt)
      PROVE  Kept
  BY <1>2, <1>3, <1>5 DEF StartCheckout, StaffRefund
<1>6. ASSUME NEW t \in Txn, ProviderStep(t) PROVE Kept
  BY <1>1, <1>6 DEF ProviderStep, CustomerPays, PaymentArrives, AttemptDeclined,
     AttemptPending, SessionExpires, DashboardRefund, RefundSettles, Turns
<1>7. ASSUME NEW c \in Call,
             \/ \E t \in Txn : CheckoutBegin(c, t) \/ \E amt \in 1 .. Amount : BackBegin(c, t, amt)
             \/ \E e \in Event : HookLog(c, e)
             \/ CheckoutCall(c) \/ CheckoutFails(c) \/ StoreRef(c) \/ HookUnmatched(c)
      PROVE  Kept
  BY <1>1, <1>7 DEF CheckoutBegin, BackBegin, HookLog, HookUnmatched, CheckoutCall, CheckoutFails, StoreRef
<1>8. ASSUME NEW c \in Call,
             \/ HookRecordSettled(c) \/ HookAcknowledge(c) \/ HookCapture(c) \/ HookMark(c)
             \/ BackCall(c) \/ BackFails(c) \/ Crash(c)
      PROVE  Kept
  BY <1>1, <1>8 DEF HookRecordSettled, HookAcknowledge, HookCapture, HookMark, BackCall,
     BackFails, Crash
<1>9. ASSUME NEW c \in Call, CheckoutGivesUp(c) \/ HookRecord(c) \/ HookFail(c) PROVE Kept
  <2>1. call[c].txn \in Txn
    BY <1>4, <1>9 DEF CheckoutGivesUp, HookRecord, HookFail, Acts, Running
  <2> QED
    BY <1>1, <1>2, <1>9, <2>1 DEF CheckoutGivesUp, HookRecord, HookFail
<1>10. ASSUME NEW c \in Call, HookReconcile(c) PROVE Kept
  <2> DEFINE t == call[c].txn  r == call[c].ev.n
  <2>1. t \in Txn
    BY <1>4, <1>10 DEF HookReconcile, Acts, Running
  <2>2. r \in RefundId /\ (call[c].ev.type = "refunded" => back[t][r].state = "done")
    BY <1>10, Recorded DEF CallsKnow, Knows, Hook, HookReconcile, Acts, Running,
       EventsOccurred, Occurred
  <2>3. LedgerKey(t, r) \in RefundKey \cup {None}
    BY <2>1, <2>2, LedgerKeyType
  <2>4. \/ UNCHANGED ledger
        \/ /\ Ledger!Refund(t, LedgerKey(t, r), back[t][r].amt)
           /\ back[t][r].amt \in 1 .. Amount
    BY <1>10, <2>1, <2>2 DEF HookReconcile, Succeeded, RefundsPositive
  <2> HIDE DEF t, r
  <2> QED
    BY <1>1, <1>3, <2>1, <2>3, <2>4
<1>11. ASSUME NEW c \in Call, BackPost(c) PROVE Kept
  <2> DEFINE t == call[c].txn  key == PostKey(t, call[c].n)
  <2>1. t \in Txn /\ call[c].n \in RefundId /\ call[c].amt \in 1 .. Amount
    BY <1>11 DEF CallsKnow, Knows, BackPost, Running, RefundsPositive
  <2>2. key \in RefundKey \cup {None}
    BY <2>1, LedgerKeyType DEF PostKey
  <2>3. UNCHANGED ledger \/ Ledger!Refund(t, key, call[c].amt)
    BY <1>11 DEF BackPost
  <2> HIDE DEF t, key
  <2> QED
    BY <1>1, <1>3, <2>1, <2>2, <2>3
<1>12. UNCHANGED vars \/ (\E e \in Event : HookDuplicate(e)) => Kept
  BY <1>1 DEF vars, HookDuplicate
<1>13. Kept
  BY <1>5, <1>6, <1>7, <1>8, <1>9, <1>10, <1>11, <1>12 DEF Next, FunctionStep,
     CheckoutStep, HookStep, BackStep
<1> QED
  BY <1>13 DEF Kept

\* The functions touch the ledger only as GatewayContract allows, which is all
\* the ledger lets them see of itself (LedgerKeepsContract): the two
\* specifications fit together along it.
THEOREM DeliveryKeepsContract == Spec => Ledger!Spec
<1>1. Init => Ledger!Init
  BY DEF Init
<1>2. Inv /\ RefundsPositive /\ [Next]_vars => [Ledger!Next]_(Ledger!contract)
  BY ContractStep DEF Inv
<1> QED
  BY <1>1, <1>2, Invariant, PositiveInvariant, PTL DEF Spec, Ledger!Spec
================================================================================
