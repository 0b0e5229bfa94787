----------------------------- MODULE MessageQueue -----------------------------
(***************************************************************************)
(* notification_queue: messages of one channel, queued by the application, *)
(* claimed in batches by the WhatsApp connector or by the email worker's   *)
(* cron, sent through a provider, reported back, retried, recovered after  *)
(* a crash, cancelled with their booking and confirmed by receipts.        *)
(***************************************************************************)
EXTENDS Integers, FiniteSets

CONSTANTS
    Msg,         \* rows of the queue
    Connector,   \* connectors that claim WhatsApp messages
    Cron,        \* runs of the email worker, which may overlap
    MaxAttempts, \* v_max_attempts
    MaxFault,    \* crashes, lost connections, failed reports, runs beyond ten minutes (bound)
    MaxRetry     \* retries by staff (bound)

ASSUME QueueAssumption ==
    /\ MaxAttempts \in Nat \ {0}
    /\ {MaxFault, MaxRetry} \subseteq Nat

VARIABLES
    channel,  \* "whatsapp" or "email"
    account,  \* of WhatsApp: "connected", "tripped" (circuit breaker) or "away"
    standing, \* of each message: "ok", its source "cancelled" or consent "revoked"
    row,      \* the rows
    worker,   \* the processes that claim and send
    copies,   \* texts that reached the customer since there last was a reason
    faults,   \* faults so far
    retries   \* retries by staff so far

vars == <<channel, account, standing, row, worker, copies, faults, retries>>

Worker == Connector \cup Cron

Waiting == {"pending", "retrying"}

Ended   == {"sent", "cancelled", "suppressed", "expired"}
Settled == Ended \cup {"delivered", "failed"}

\* ref: provider_reference is recorded; seen: delivered_at and read_at.
Row == [status : Waiting \cup Settled \cup {"none", "processing"}, ref : BOOLEAN,
        attempts : Nat, seen : {"no", "delivered", "read"}]

\* What a worker has done with a message it holds: its text (or the email) is
\* with the provider, its reference was offered to the row, the media followed.
Stage == {"none", "waiting", "texted", "told", "done", "half", "undone", "refused"}

\* saw: the rows the claiming statement has chosen from its snapshot.
Process == [at : {"idle", "swept", "screened", "choosing", "working"},
            saw : SUBSET Msg, job : [Msg -> Stage]]

NoJob == [m \in Msg |-> "none"]

Resting == [at |-> "idle", saw |-> {}, job |-> NoJob]

Init ==
    /\ channel \in {"whatsapp", "email"}
    /\ account = "connected"
    /\ standing = [m \in Msg |-> "ok"]
    /\ row = [m \in Msg |-> [status |-> "none", ref |-> FALSE, attempts |-> 0,
                             seen |-> "no"]]
    /\ worker = [w \in Worker |-> Resting]
    /\ copies = [m \in Msg |-> 0]
    /\ faults = 0
    /\ retries = 0

Claims(w) == w \in IF channel = "whatsapp" THEN Connector ELSE Cron

Held(m) == {w \in Worker : worker[w].job[m] # "none"}

Update(R, st) == [m \in Msg |-> IF m \in R THEN [row[m] EXCEPT !.status = st] ELSE row[m]]

-----------------------------------------------------------------------------
(* The application and its staff.                                          *)

\* queue_whatsapp_notification and its email counterpart: what cannot be
\* addressed is not queued.
Enqueue(m) ==
    /\ row[m].status = "none"
    /\ standing[m] = "ok"
    /\ channel = "whatsapp" => account # "away"
    /\ row' = [row EXCEPT ![m].status = "pending"]
    /\ UNCHANGED <<channel, account, standing, worker, copies, faults, retries>>

\* Mutant: a message that is being sent is cancelled as well.
CancelsHeld(m) == row[m].status \in Waiting \cup {"processing"}

Cancels(m) == row[m].status \in Waiting

\* The booking is cancelled, and with it what still waits
\* (cancel_pending_whatsapp_for_booking).
CancelSource(m) ==
    /\ standing[m] = "ok" /\ row[m].status # "none"
    /\ standing' = [standing EXCEPT ![m] = "cancelled"]
    /\ row' = IF Cancels(m) THEN Update({m}, "cancelled") ELSE row
    /\ UNCHANGED <<channel, account, worker, copies, faults, retries>>

RevokeConsent(m) ==
    /\ channel = "whatsapp"
    /\ standing[m] = "ok" /\ row[m].status # "none"
    /\ standing' = [standing EXCEPT ![m] = "revoked"]
    /\ UNCHANGED <<channel, account, row, worker, copies, faults, retries>>

\* retry_failed_whatsapp_message keeps the reference of the earlier attempt.
Retry(m) ==
    /\ channel = "whatsapp"
    /\ row[m].status = "failed"
    /\ standing[m] # "cancelled"
    /\ retries < MaxRetry
    /\ retries' = retries + 1
    /\ row' = [row EXCEPT ![m].status = "pending", ![m].attempts = 0]
    /\ copies' = [copies EXCEPT ![m] = 0]
    /\ UNCHANGED <<channel, account, standing, worker, faults>>

\* The account loses its connection ...
AccountLost ==
    /\ channel = "whatsapp"
    /\ account # "away"
    /\ faults < MaxFault /\ faults' = faults + 1
    /\ account' = "away"
    /\ UNCHANGED <<channel, standing, row, worker, copies, retries>>

\* ... and finds it again; the circuit breaker cools down.
AccountBack ==
    /\ account # "connected"
    /\ account' = "connected"
    /\ UNCHANGED <<channel, standing, row, worker, copies, faults, retries>>

-----------------------------------------------------------------------------
(* A poll of the connector, a run of the cron: sweep, screen, claim.       *)

\* Mutant: the sweep does not look at the reference.
RecoveredAll(m) == "retrying"

\* Mutant: it leaves what has none to the worker.
RecoveredKnown(m) == IF row[m].ref THEN "failed" ELSE "processing"

\* What becomes of a row that was processing for too long: with a reference,
\* the message reached the customer before its worker died.
Recovered(m) == IF row[m].ref THEN "failed" ELSE "retrying"

\* ..._expire_stale: reminders E are too late, rows S have been processing for
\* more than ten minutes.
Sweep(w, E, S) ==
    /\ Claims(w) /\ worker[w].at = "idle"
    /\ \A m \in E : row[m].status \in Waiting
    /\ \A m \in S : row[m].status = "processing"
    /\ IF \E m \in S : Held(m) # {}
       THEN faults < MaxFault /\ faults' = faults + 1
       ELSE UNCHANGED faults
    /\ row' = [m \in Msg |->
            CASE m \in E -> [row[m] EXCEPT !.status = "expired"]
              [] m \in S -> [row[m] EXCEPT !.status = Recovered(m)]
              [] OTHER -> row[m]]
    /\ worker' = [worker EXCEPT ![w].at = "swept"]
    /\ UNCHANGED <<channel, account, standing, copies, retries>>

\* Mutant: only the consent is looked at.
ScreenedConsent(m) ==
    IF standing[m] = "revoked" THEN "suppressed" ELSE row[m].status

\* What becomes of a row that waits: it is cancelled with its source
\* (notification_source_still_valid) and suppressed without consent.
Screened(m) ==
    CASE standing[m] = "cancelled" -> "cancelled"
      [] standing[m] = "revoked" -> "suppressed"
      [] OTHER -> row[m].status

\* The first statements of ..._claim_next_batch.
Screen(w) ==
    /\ worker[w].at = "swept"
    /\ row' = [m \in Msg |->
            IF row[m].status \in Waiting
            THEN [row[m] EXCEPT !.status = Screened(m)] ELSE row[m]]
    /\ worker' = [worker EXCEPT ![w].at = "screened"]
    /\ UNCHANGED <<channel, account, standing, copies, faults, retries>>

\* The last one chooses rows that are due, within the account's limits ...
Choose(w, S) ==
    /\ worker[w].at = "screened"
    /\ \A m \in S : row[m].status \in Waiting
    /\ (S # {} /\ channel = "whatsapp") => account = "connected"
    /\ worker' = [worker EXCEPT ![w] =
            IF S = {} THEN Resting ELSE [@ EXCEPT !.at = "choosing", !.saw = S]]
    /\ UNCHANGED <<channel, account, standing, row, copies, faults, retries>>

\* ... and takes them: its lock does not look at their status again.
Take(w) ==
    LET S == worker[w].saw IN
    /\ worker[w].at = "choosing"
    /\ row' = [m \in Msg |->
            IF m \in S THEN [row[m] EXCEPT !.status = "processing", !.attempts = @ + 1]
            ELSE row[m]]
    /\ worker' = [worker EXCEPT ![w] =
            [at |-> "working", saw |-> {},
             job |-> [m \in Msg |-> IF m \in S THEN "waiting" ELSE "none"]]]
    /\ UNCHANGED <<channel, account, standing, copies, faults, retries>>

-----------------------------------------------------------------------------
(* Sending.                                                                *)

Goes(w, m, st) == worker' = [worker EXCEPT ![w].job[m] = st]

\* The connector handles its batch one by one, the email worker all at once.
Turn(w, m) ==
    /\ worker[w].job[m] = "waiting"
    /\ channel = "whatsapp" =>
            \A n \in Msg : worker[w].job[n] \in {"none", "waiting"}

\* A text reaches the customer.  Emails are not counted: Resend knows them by
\* the key made of their row and drops repeats.
Accept(m) ==
    copies' = IF channel = "whatsapp" THEN [copies EXCEPT ![m] = @ + 1] ELSE copies

\* The provider has it and says so.
Send(w, m) ==
    /\ Turn(w, m)
    /\ channel = "whatsapp" => account # "away"
    /\ Accept(m)
    /\ Goes(w, m, IF channel = "whatsapp" THEN "texted" ELSE "done")
    /\ UNCHANGED <<channel, account, standing, row, faults, retries>>

\* It could not be rendered or sent, or its answer did not come in time.
SendFails(w, m) ==
    /\ Turn(w, m)
    /\ Accept(m) \/ UNCHANGED copies
    /\ Goes(w, m, "undone")
    /\ UNCHANGED <<channel, account, standing, row, faults, retries>>

\* Resend refuses it for good, or it cannot be rendered.
EmailRefused(w, m) ==
    /\ channel = "email"
    /\ Turn(w, m)
    /\ Goes(w, m, "refused")
    /\ UNCHANGED <<channel, account, standing, row, copies, faults, retries>>

\* onTextConfirmed: the reference is recorded before anything else is done; an
\* error is ignored.
Mark(w, m) ==
    /\ worker[w].job[m] = "texted"
    /\ row' \in {row, [row EXCEPT ![m].ref = @ \/ row[m].status = "processing"]}
    /\ Goes(w, m, "told")
    /\ UNCHANGED <<channel, account, standing, copies, faults, retries>>

\* The media of the message, when it has any.
SendMedia(w, m) ==
    /\ worker[w].job[m] = "told"
    /\ Goes(w, m, "done") \/ Goes(w, m, "half")
    /\ UNCHANGED <<channel, account, standing, row, copies, faults, retries>>

-----------------------------------------------------------------------------
(* Reporting.                                                              *)

\* Mutant: attempts are not counted.
NeverSpent(m) == FALSE

Spent(m) == row[m].attempts >= MaxAttempts

\* ..._report_send_result.
Reported(m, st) ==
    row' = [row EXCEPT ![m] =
        CASE st = "done"    -> [@ EXCEPT !.status = "sent", !.ref = TRUE]
          [] st = "refused" -> [@ EXCEPT !.status = "failed"]
          [] OTHER -> [@ EXCEPT !.status = IF Spent(m) THEN "failed" ELSE "retrying"]]

\* The report of a failed WhatsApp message may open the circuit breaker.
MayTrip(st) ==
    account' \in IF channel = "whatsapp" /\ account = "connected" /\ st # "done"
                 THEN {account, "tripped"} ELSE {account}

\* The worker is through with the messages M.
Drop(w, M) ==
    LET left == [m \in Msg |-> IF m \in M THEN "none" ELSE worker[w].job[m]]
    IN  worker' = [worker EXCEPT ![w] =
            IF left = NoJob THEN Resting ELSE [@ EXCEPT !.job = left]]

\* A message that is reported unsent, or whose worker died before its reference
\* was recorded, has a reason to be sent again.
Forgiven(M) == copies' = [m \in Msg |-> IF m \in M THEN 0 ELSE copies[m]]

Over == {"done", "half", "undone", "refused"}

Report(w, m) ==
    LET st == worker[w].job[m] IN
    /\ st \in Over
    /\ Reported(m, st)
    /\ MayTrip(st)
    /\ Drop(w, {m})
    /\ Forgiven(IF st = "done" THEN {} ELSE {m})
    /\ UNCHANGED <<channel, standing, faults, retries>>

Begun(w) == {m \in Msg : worker[w].job[m] \notin {"none", "waiting"}}

\* The report fails, before or after it took effect.  The connector gives up
\* the rest of its batch, the email worker does not notice.
ReportFails(w, m) ==
    LET st == worker[w].job[m] IN
    /\ st \in Over
    /\ faults < MaxFault /\ faults' = faults + 1
    /\ Drop(w, IF channel = "whatsapp" THEN Msg ELSE {m})
    /\ \/ Reported(m, st) /\ MayTrip(st) /\ Forgiven(IF st = "done" THEN {} ELSE {m})
       \/ UNCHANGED <<row, account>> /\ Forgiven(IF row[m].ref THEN {} ELSE {m})
    /\ UNCHANGED <<channel, standing, retries>>

\* The worker dies, and a new one starts its first poll some time later.
Crash(w) ==
    /\ worker[w].at = "working"
    /\ faults < MaxFault /\ faults' = faults + 1
    /\ worker' = [worker EXCEPT ![w] = Resting]
    /\ Forgiven({m \in Begun(w) : ~row[m].ref})
    /\ UNCHANGED <<channel, account, standing, row, retries>>

\* whatsapp_connector_report_delivery_receipt, for the recorded reference.
Receipt(m, level) ==
    LET r == row[m] IN
    /\ channel = "whatsapp" /\ r.ref
    /\ \/ /\ level = "read" /\ r.seen # "read"
          /\ row' = [row EXCEPT ![m].seen = "read", ![m].status = "delivered"]
       \/ /\ level = "delivered" /\ r.seen = "no"
          /\ row' = [row EXCEPT ![m].seen = "delivered",
                                ![m].status = IF @ = "sent" THEN "delivered" ELSE @]
    /\ UNCHANGED <<channel, account, standing, worker, copies, faults, retries>>

-----------------------------------------------------------------------------
Poll(w) ==
    \/ \E E, S \in SUBSET Msg : Sweep(w, E, S)
    \/ Screen(w)
    \/ \E S \in SUBSET Msg : Choose(w, S)
    \/ Take(w)

Handle(w, m) ==
    \/ Send(w, m) \/ SendFails(w, m) \/ EmailRefused(w, m)
    \/ Mark(w, m) \/ SendMedia(w, m)
    \/ Report(w, m)

Next ==
    \/ \E m \in Msg :
        \/ Enqueue(m) \/ CancelSource(m) \/ RevokeConsent(m) \/ Retry(m)
        \/ \E level \in {"delivered", "read"} : Receipt(m, level)
    \/ AccountLost \/ AccountBack
    \/ \E w \in Worker :
        \/ Poll(w) \/ Crash(w)
        \/ \E m \in Msg : Handle(w, m) \/ ReportFails(w, m)

Spec == Init /\ [][Next]_vars

\* Workers go on, the account is connected again, time passes for a row that
\* is stuck, and a row that is due is chosen in its turn (order by
\* scheduled_at).
Fairness ==
    /\ \A w \in Worker :
        /\ WF_vars(Poll(w))
        /\ \A m \in Msg : WF_vars(Handle(w, m))
    /\ WF_vars(AccountBack)
    /\ \A m \in Msg :
        /\ SF_vars(\E w \in Worker, S \in SUBSET Msg :
                        m \in S /\ Held(m) = {} /\ Sweep(w, {}, S))
        /\ SF_vars(\E w \in Worker, S \in SUBSET Msg : m \in S /\ Choose(w, S))

FairSpec == Spec /\ Fairness

-----------------------------------------------------------------------------
\* Types; a message is not tried for ever: what may raise the count beyond the
\* limit are faults, and claims of two runs at once.
TypeOK ==
    /\ channel \in {"whatsapp", "email"}
    /\ account \in {"connected", "tripped", "away"}
    /\ standing \in [Msg -> {"ok", "cancelled", "revoked"}]
    /\ row \in [Msg -> Row]
    /\ \A m \in Msg : row[m].attempts <= Cardinality(Worker) * (MaxAttempts + MaxFault)
    /\ worker \in [Worker -> Process]
    /\ copies \in [Msg -> Nat]
    /\ faults \in 0 .. MaxFault
    /\ retries \in 0 .. MaxRetry

\* The customer gets a WhatsApp text again only for a reason: it was reported
\* unsent or its media failed, the connector died before the reference was
\* recorded, or staff asked for it.  A text whose reference is recorded is not
\* sent again by the recovery of a crashed connector
\* (mark_provider_reference, expire_stale).
TextOncePerReason == channel = "whatsapp" => \A m \in Msg : copies[m] <= 1

\* With one connector, no message is chosen for sending whose booking has been
\* cancelled: not one that was in hand at the time, and failed and is due
\* again, nor one that a sweep took from a dead connector, nor one that staff
\* retried before (claim_next_batch, notification_source_still_valid,
\* cancel_pending_whatsapp_for_booking, retry_failed_whatsapp_message).
CancelledNotChosen ==
    [][channel = "whatsapp" =>
        \A w \in Worker, m \in Msg :
            m \in worker'[w].saw /\ m \notin worker[w].saw
                => standing[m] # "cancelled"]_vars

\* With one connector, a WhatsApp message that was sent, cancelled, suppressed
\* or expired is not sent again, by whatever reports, sweeps, receipts and
\* claims follow; only a claim that had chosen the row before the booking was
\* cancelled takes it still (claim_next_batch, report_send_result).
EndedStaysEnded ==
    [][channel = "whatsapp" => \A m \in Msg :
        row[m].status \in Ended =>
            \/ row'[m].status \notin Waiting \cup {"processing"}
            \/ \E w \in Worker : m \in worker[w].saw]_vars

\* Every message that is queued is sent, given up for a reason that is shown,
\* or cancelled, through crashes and lost connections.
EveryMessageSettles ==
    \A m \in Msg : row[m].status = "pending" ~> row[m].status \in Settled
=============================================================================
