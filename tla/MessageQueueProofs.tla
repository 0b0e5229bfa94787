-------------------------- MODULE MessageQueueProofs --------------------------
(***************************************************************************)
(* The safety properties of MessageQueue, for any number of messages,      *)
(* overlapping email runs, faults and retries.                             *)
(***************************************************************************)
EXTENDS MessageQueue, FiniteSetTheorems, TLAPS

\* What the deployment is meant to be: one process claims WhatsApp messages.
OneConnector == \A v, w \in Connector : v = w

Types ==
    /\ channel \in {"whatsapp", "email"}
    /\ account \in {"connected", "tripped", "away"}
    /\ standing \in [Msg -> {"ok", "cancelled", "revoked"}]
    /\ row \in [Msg -> Row]
    /\ worker \in [Worker -> Process]
    /\ copies \in [Msg -> Nat]

\* A worker has chosen rows, or holds messages, or neither.
Orderly ==
    \A w \in Worker :
        /\ worker[w].at # "choosing" => worker[w].saw = {}
        /\ worker[w].at # "working" => worker[w].job = NoJob

\* Only the channel's own workers do anything.
OwnWorkers == \A w \in Worker : Claims(w) \/ worker[w] = Resting

\* A message that is held is being processed, or a receipt came early.
HeldIsProcessing ==
    \A m \in Msg, w \in Worker :
        worker[w].job[m] # "none" => row[m].status \in {"processing", "delivered"}

\* The connector is through with one message before it begins another.
OneBegun ==
    \A w \in Worker : \A m, n \in Begun(w) : m = n

\* A text that may still be sent has not been: whoever loses track of one
\* leaves its reference behind.
Unsent(m) ==
    \/ row[m].status \in Waiting \cup {"none"}
    \/ \E w \in Worker : m \in worker[w].saw \/ worker[w].job[m] = "waiting"
    \/ row[m].status = "processing" /\ ~row[m].ref /\ Held(m) = {}

TextsTracked ==
    \A m \in Msg : copies[m] <= 1 /\ (Unsent(m) => copies[m] = 0)

Inv ==
    /\ Types
    /\ Orderly
    /\ OwnWorkers
    /\ (channel = "whatsapp" /\ OneConnector) =>
            HeldIsProcessing /\ OneBegun /\ TextsTracked

-----------------------------------------------------------------------------
(* What the helpers do to the workers, the rows and the copies.            *)

LEMMA RestingType == Resting \in Process /\ NoJob \in [Msg -> Stage]
BY DEF Resting, NoJob, Process, Stage

LEMMA GoesFacts ==
    ASSUME Types, NEW w \in Worker, NEW m \in Msg, NEW st \in Stage, Goes(w, m, st)
    PROVE  /\ worker' \in [Worker -> Process]
           /\ \A v \in Worker :
                /\ worker'[v].at = worker[v].at
                /\ worker'[v].saw = worker[v].saw
                /\ \A n \in Msg :
                    worker'[v].job[n] = IF v = w /\ n = m THEN st ELSE worker[v].job[n]
                /\ v # w => worker'[v] = worker[v]
<1> DEFINE s == [worker[w] EXCEPT !.job[m] = st]
<1>1. worker[w] \in Process
  BY DEF Types
<1>2. /\ s \in Process /\ s.at = worker[w].at /\ s.saw = worker[w].saw
      /\ \A n \in Msg : s.job[n] = IF n = m THEN st ELSE worker[w].job[n]
  BY <1>1 DEF Process
<1>3. worker' = [worker EXCEPT ![w] = s]
  BY DEF Goes
<1> HIDE DEF s
<1> QED
  BY <1>2, <1>3 DEF Types

LEMMA DropFacts ==
    ASSUME Types, Orderly, NEW w \in Worker, worker[w].at = "working", NEW M, Drop(w, M)
    PROVE  /\ worker' \in [Worker -> Process]
           /\ \A v \in Worker :
                /\ worker'[v].saw = worker[v].saw
                /\ \A n \in Msg :
                    worker'[v].job[n] = IF v = w /\ n \in M THEN "none" ELSE worker[v].job[n]
                /\ v # w => worker'[v] = worker[v]
           /\ worker'[w].at # "choosing"
           /\ worker'[w].at # "working" => worker'[w].job = NoJob
<1> DEFINE left == [n \in Msg |-> IF n \in M THEN "none" ELSE worker[w].job[n]]
           s == IF left = NoJob THEN Resting ELSE [worker[w] EXCEPT !.job = left]
<1>1. worker[w] \in Process /\ worker[w].saw = {}
  BY DEF Types, Orderly
<1>2. left \in [Msg -> Stage]
  BY <1>1 DEF Process, Stage
<1>3. CASE left = NoJob
  <2>1. s = Resting /\ Resting.job = left /\ Resting.saw = {} /\ Resting.at = "idle"
    BY <1>3 DEF Resting
  <2> QED
    BY <1>1, <1>3, <2>1, RestingType DEF Drop, Types
<1>4. CASE left # NoJob
  <2>1. s \in Process /\ s.at = "working" /\ s.saw = {} /\ s.job = left
    BY <1>1, <1>2, <1>4 DEF Process
  <2>2. worker' = [worker EXCEPT ![w] = s]
    BY DEF Drop
  <2> HIDE DEF s
  <2> QED
    BY <1>1, <2>1, <2>2 DEF Types
<1> QED
  BY <1>3, <1>4

\* A worker that holds a message is working.
LEMMA HoldersWork ==
    ASSUME Types, Orderly, NEW w \in Worker, NEW m \in Msg, worker[w].job[m] # "none"
    PROVE  worker[w].at = "working" /\ worker[w].saw = {}
BY DEF Types, Orderly, NoJob, Process

LEMMA RowsType ==
    ASSUME Types, NEW m \in Msg
    PROVE  /\ row[m] \in Row
           /\ \A st \in Waiting \cup Settled \cup {"processing"} :
                    [row[m] EXCEPT !.status = st] \in Row
BY DEF Types, Row

\* Screening ends a row that waits, or leaves it as it is.
LEMMA ScreenFacts ==
    ASSUME Types, NEW w, Screen(w), NEW m \in Msg
    PROVE  /\ row'[m] \in Row
           /\ row'[m].attempts = row[m].attempts
           /\ \/ row'[m] = row[m]
              \/ row[m].status \in Waiting /\ row'[m].status \in {"cancelled", "suppressed"}
<1> DEFINE r == [row[m] EXCEPT !.status = Screened(m)]
<1>1. row[m] \in Row
  BY DEF Types
<1>2. row'[m] = IF row[m].status \in Waiting THEN r ELSE row[m]
  BY DEF Screen
<1>3. Screened(m) \in {"cancelled", "suppressed", row[m].status}
  BY DEF Screened
<1>4. /\ Screened(m) = row[m].status => r = row[m]
      /\ r.status = Screened(m) /\ r.attempts = row[m].attempts
  BY <1>1 DEF Row
<1>5. Screened(m) \in {"cancelled", "suppressed"} => r \in Row
  BY <1>1 DEF Row, Settled, Ended
<1> HIDE DEF r
<1> QED
  BY <1>1, <1>2, <1>3, <1>4, <1>5

LEMMA ReportedFacts ==
    ASSUME Types, NEW m \in Msg, NEW st \in Over, Reported(m, st)
    PROVE  /\ row' \in [Msg -> Row]
           /\ \A n \in Msg : n # m => row'[n] = row[n]
           /\ st = "done" => row'[m].status = "sent"
           /\ row'[m].status \in {"sent", "failed", "retrying"}
<1> DEFINE r == CASE st = "done" -> [row[m] EXCEPT !.status = "sent", !.ref = TRUE]
                  [] st = "refused" -> [row[m] EXCEPT !.status = "failed"]
                  [] OTHER -> [row[m] EXCEPT !.status =
                                IF Spent(m) THEN "failed" ELSE "retrying"]
<1>1. row[m] \in Row
  BY DEF Types
<1>2. /\ r \in Row /\ r.status \in {"sent", "failed", "retrying"}
      /\ st = "done" => r.status = "sent"
  BY <1>1 DEF Row, Waiting, Settled, Ended, Over
<1>3. row' = [row EXCEPT ![m] = r]
  BY DEF Reported
<1> HIDE DEF r
<1> QED
  BY <1>2, <1>3 DEF Types

LEMMA ForgivenFacts ==
    ASSUME Types, NEW M, Forgiven(M)
    PROVE  /\ copies' \in [Msg -> Nat]
           /\ \A m \in Msg : copies'[m] = copies[m] \/ copies'[m] = 0
           /\ \A m \in Msg : m \in M => copies'[m] = 0
BY DEF Types, Forgiven

LEMMA AcceptType ==
    ASSUME Types, NEW m \in Msg, Accept(m) \/ UNCHANGED copies
    PROVE  /\ copies' \in [Msg -> Nat]
           /\ \A n \in Msg : n # m => copies'[n] = copies[n]
           /\ channel = "whatsapp" => copies'[m] <= copies[m] + 1
BY DEF Types, Accept

LEMMA TripType == ASSUME Types, NEW st, MayTrip(st) PROVE account' \in {"connected", "tripped", "away"}
BY DEF Types, MayTrip

-----------------------------------------------------------------------------
(* Shapes.                                                                 *)

Base == Types /\ Orderly /\ OwnWorkers

\* A step of the application, its staff or the provider.
LEMMA RowStep ==
    ASSUME Base, UNCHANGED <<channel, worker>>,
           account' \in {"connected", "tripped", "away"},
           standing' \in [Msg -> {"ok", "cancelled", "revoked"}],
           row' \in [Msg -> Row], copies' \in [Msg -> Nat]
    PROVE  Base'
BY DEF Base, Types, Orderly, OwnWorkers, Claims

\* A step of a worker.
LEMMA WorkerStep ==
    ASSUME Base, UNCHANGED <<channel, standing>>, NEW w \in Worker, Claims(w),
           account' \in {"connected", "tripped", "away"},
           row' \in [Msg -> Row], copies' \in [Msg -> Nat],
           worker' \in [Worker -> Process],
           \A v \in Worker : v # w => worker'[v] = worker[v],
           worker'[w].at # "choosing" => worker'[w].saw = {},
           worker'[w].at # "working" => worker'[w].job = NoJob
    PROVE  Base'
BY DEF Base, Types, Orderly, OwnWorkers, Claims

LEMMA Busy ==
    ASSUME Base, NEW w \in Worker, worker[w] # Resting
    PROVE  Claims(w)
BY DEF Base, OwnWorkers

LEMMA HoldersClaim ==
    ASSUME Base, NEW w \in Worker, NEW m \in Msg, worker[w].job[m] # "none"
    PROVE  Claims(w)
BY Busy DEF Resting, NoJob

\* Sending, marking and the media change a stage and little else.
LEMMA StageStep ==
    ASSUME Base, UNCHANGED <<channel, standing, account>>,
           NEW w \in Worker, NEW m \in Msg, worker[w].job[m] # "none",
           NEW st \in Stage, Goes(w, m, st),
           row' \in [Msg -> Row], copies' \in [Msg -> Nat]
    PROVE  Base'
<1>1. worker[w].at = "working" /\ worker[w].saw = {} /\ Claims(w)
  BY HoldersWork, HoldersClaim DEF Base
<1>2. /\ worker' \in [Worker -> Process]
      /\ worker'[w].at = "working" /\ worker'[w].saw = {}
      /\ \A v \in Worker : v # w => worker'[v] = worker[v]
  BY <1>1, GoesFacts DEF Base
<1> QED
  BY <1>1, <1>2, WorkerStep DEF Base, Types

LEMMA ReportStep ==
    ASSUME Base, UNCHANGED <<channel, standing>>,
           account' \in {"connected", "tripped", "away"},
           NEW w \in Worker, worker[w].at = "working", NEW M, Drop(w, M),
           row' \in [Msg -> Row], copies' \in [Msg -> Nat]
    PROVE  Base'
<1>1. worker[w].saw = {} /\ Claims(w)
  BY Busy DEF Base, Orderly, Resting
<1>2. /\ worker' \in [Worker -> Process]
      /\ worker'[w].at # "choosing" /\ worker'[w].saw = {}
      /\ worker'[w].at # "working" => worker'[w].job = NoJob
      /\ \A v \in Worker : v # w => worker'[v] = worker[v]
  BY <1>1, DropFacts DEF Base
<1> QED
  BY <1>1, <1>2, WorkerStep

LEMMA UpdateType ==
    ASSUME Types, NEW m \in Msg, NEW st \in Waiting \cup Settled \cup {"processing"}
    PROVE  Update({m}, st) \in [Msg -> Row]
BY RowsType DEF Types, Update

LEMMA BaseStep == ASSUME Base, [Next]_vars PROVE Base'
<1> USE DEF Base
<1>1. ASSUME NEW m \in Msg, Enqueue(m) PROVE Base'
  <2>1. row' \in [Msg -> Row]
    BY <1>1, RowsType DEF Enqueue, Types, Waiting
  <2> QED
    BY <1>1, <2>1, RowStep DEF Enqueue, Types
<1>2. ASSUME NEW m \in Msg, CancelSource(m) PROVE Base'
  <2>1. row' \in [Msg -> Row]
    BY <1>2, UpdateType DEF CancelSource, Types, Settled, Ended
  <2> QED
    BY <1>2, <2>1, RowStep DEF CancelSource, Types
<1>3. ASSUME NEW m \in Msg, RevokeConsent(m) PROVE Base'
  BY <1>3, RowStep DEF RevokeConsent, Types
<1>4. ASSUME NEW m \in Msg, Retry(m) PROVE Base'
  <2>1. row' \in [Msg -> Row]
    BY <1>4 DEF Retry, Types, Row, Waiting
  <2> QED
    BY <1>4, <2>1, RowStep DEF Retry, Types
<1>5. ASSUME NEW m \in Msg, NEW level \in {"delivered", "read"}, Receipt(m, level)
      PROVE  Base'
  <2>1. row[m] \in Row
    BY DEF Types
  <2>2. /\ [row[m] EXCEPT !.seen = "read", !.status = "delivered"] \in Row
        /\ [row[m] EXCEPT !.seen = "delivered", !.status = IF @ = "sent" THEN "delivered" ELSE @]
                \in Row
    BY <2>1 DEF Row, Settled
  <2>3. row' \in [Msg -> Row]
    <3>1. \/ row' = [row EXCEPT ![m] =
                        [row[m] EXCEPT !.seen = "read", !.status = "delivered"]]
          \/ row' = [row EXCEPT ![m] =
                        [row[m] EXCEPT !.seen = "delivered",
                                       !.status = IF @ = "sent" THEN "delivered" ELSE @]]
      BY <1>5, <2>1 DEF Receipt, Types
    <3> QED
      BY <2>2, <3>1 DEF Types
  <2> QED
    BY <1>5, <2>3, RowStep DEF Receipt, Types
<1>6. CASE AccountLost \/ AccountBack
  BY <1>6, RowStep DEF AccountLost, AccountBack, Types
<1>7. ASSUME NEW w \in Worker, NEW E \in SUBSET Msg, NEW S \in SUBSET Msg, Sweep(w, E, S)
      PROVE  Base'
  <2>1. row' \in [Msg -> Row]
    BY <1>7, RowsType DEF Sweep, Recovered, Types, Waiting, Settled, Ended
  <2>2. /\ worker' \in [Worker -> Process] /\ worker'[w].at = "swept"
        /\ worker'[w].saw = worker[w].saw /\ worker'[w].job = worker[w].job
        /\ \A v \in Worker : v # w => worker'[v] = worker[v]
    BY <1>7 DEF Sweep, Types, Process
  <2>3. worker[w].saw = {} /\ worker[w].job = NoJob
    BY <1>7 DEF Sweep, Orderly
  <2> QED
    BY <1>7, <2>1, <2>2, <2>3, WorkerStep DEF Sweep, Types
<1>8. ASSUME NEW w \in Worker, Screen(w) PROVE Base'
  <2>1. row' \in [Msg -> Row]
    BY <1>8, ScreenFacts DEF Screen, Types
  <2>2. /\ worker' \in [Worker -> Process] /\ worker'[w].at = "screened"
        /\ worker'[w].saw = worker[w].saw /\ worker'[w].job = worker[w].job
        /\ \A v \in Worker : v # w => worker'[v] = worker[v]
    BY <1>8 DEF Screen, Types, Process
  <2>3. worker[w].saw = {} /\ worker[w].job = NoJob /\ Claims(w)
    BY <1>8, Busy DEF Screen, Orderly, Resting
  <2> QED
    BY <1>8, <2>1, <2>2, <2>3, WorkerStep DEF Screen, Types
<1>9. ASSUME NEW w \in Worker, NEW S \in SUBSET Msg, Choose(w, S) PROVE Base'
  <2>1. worker[w].saw = {} /\ worker[w].job = NoJob /\ Claims(w)
    BY <1>9, Busy DEF Choose, Orderly, Resting
  <2>2. CASE S = {}
    BY <1>9, <2>1, <2>2, WorkerStep, RestingType DEF Choose, Types, Resting
  <2>3. CASE S # {}
    <3>1. /\ worker' \in [Worker -> Process] /\ worker'[w].at = "choosing"
          /\ worker'[w].job = worker[w].job
          /\ \A v \in Worker : v # w => worker'[v] = worker[v]
      BY <1>9, <2>3 DEF Choose, Types, Process
    <3> QED
      BY <1>9, <2>1, <3>1, WorkerStep DEF Choose, Types
  <2> QED
    BY <2>2, <2>3
<1>10. ASSUME NEW w \in Worker, Take(w) PROVE Base'
  <2>1. worker[w].at = "choosing" /\ Claims(w)
    <3>1. worker[w].at = "choosing" /\ Resting.at = "idle"
      BY <1>10 DEF Take, Resting
    <3> QED
      BY <3>1, Busy
  <2>2. row' \in [Msg -> Row]
    <3>1. ASSUME NEW m \in Msg
          PROVE  [row[m] EXCEPT !.status = "processing", !.attempts = @ + 1] \in Row
      <4>1. row[m] \in Row /\ row[m].attempts + 1 \in Nat
        BY DEF Types, Row
      <4> QED
        BY <4>1 DEF Row
    <3> QED
      BY <1>10, <3>1 DEF Take, Types
  <2> DEFINE s == [at |-> "working", saw |-> {},
                   job |-> [m \in Msg |-> IF m \in worker[w].saw THEN "waiting" ELSE "none"]]
  <2>3. s \in Process /\ s.at = "working" /\ s.saw = {}
    BY DEF Process, Stage
  <2>4. worker' = [worker EXCEPT ![w] = s]
    BY <1>10 DEF Take
  <2> HIDE DEF s
  <2> QED
    BY <1>10, <2>1, <2>2, <2>3, <2>4, WorkerStep DEF Take, Types
<1>11. ASSUME NEW w \in Worker, NEW m \in Msg,
              Send(w, m) \/ SendFails(w, m) \/ EmailRefused(w, m)
       PROVE  Base'
  <2>1. worker[w].job[m] # "none" /\ UNCHANGED <<channel, standing, account, row>>
    BY <1>11 DEF Send, SendFails, EmailRefused, Turn
  <2>2. copies' \in [Msg -> Nat]
    BY <1>11, AcceptType DEF Send, SendFails, EmailRefused
  <2>3. \E st \in Stage : Goes(w, m, st)
    BY <1>11 DEF Send, SendFails, EmailRefused, Stage
  <2> QED
    BY <2>1, <2>2, <2>3, StageStep DEF Types
<1>12. ASSUME NEW w \in Worker, NEW m \in Msg, Mark(w, m) \/ SendMedia(w, m)
       PROVE  Base'
  <2>1. /\ worker[w].job[m] # "none"
        /\ UNCHANGED <<channel, standing, account, copies>>
    BY <1>12 DEF Mark, SendMedia
  <2>2. row' \in [Msg -> Row]
    <3>1. [row[m] EXCEPT !.ref = @ \/ row[m].status = "processing"] \in Row
      BY DEF Types, Row
    <3> QED
      BY <1>12, <3>1 DEF Mark, SendMedia, Types
  <2>3. \E st \in Stage : Goes(w, m, st)
    BY <1>12 DEF Mark, SendMedia, Stage
  <2> QED
    BY <2>1, <2>2, <2>3, StageStep DEF Types
<1>13. ASSUME NEW w \in Worker, NEW m \in Msg, Report(w, m) \/ ReportFails(w, m)
       PROVE  Base'
  <2>1. worker[w].job[m] \in Over
    BY <1>13 DEF Report, ReportFails
  <2>2. worker[w].at = "working"
    BY <2>1, HoldersWork DEF Over
  <2>3. row' \in [Msg -> Row]
    BY <1>13, <2>1, ReportedFacts DEF Report, ReportFails, Types
  <2>4. copies' \in [Msg -> Nat]
    BY <1>13, ForgivenFacts DEF Report, ReportFails
  <2>5. account' \in {"connected", "tripped", "away"}
    BY <1>13, TripType DEF Report, ReportFails, Types
  <2>6. \E M \in {{m}, Msg} : Drop(w, M)
    BY <1>13 DEF Report, ReportFails
  <2>7. UNCHANGED <<channel, standing>>
    BY <1>13 DEF Report, ReportFails
  <2> QED
    BY <2>2, <2>3, <2>4, <2>5, <2>6, <2>7, ReportStep
<1>14. ASSUME NEW w \in Worker, Crash(w) PROVE Base'
  <2>1. Claims(w)
    BY <1>14, Busy DEF Crash, Resting
  <2>2. copies' \in [Msg -> Nat]
    BY <1>14, ForgivenFacts DEF Crash
  <2>3. /\ worker' \in [Worker -> Process] /\ worker'[w] = Resting
        /\ \A v \in Worker : v # w => worker'[v] = worker[v]
    BY <1>14, RestingType DEF Crash, Types
  <2> QED
    BY <1>14, <2>1, <2>2, <2>3, WorkerStep DEF Crash, Types, Resting
<1>15. CASE UNCHANGED vars
  BY <1>15 DEF vars, Types, Orderly, OwnWorkers, Claims
<1> QED
  BY <1>1, <1>2, <1>3, <1>4, <1>5, <1>6, <1>7, <1>8, <1>9, <1>10, <1>11, <1>12,
     <1>13,
     <1>14, <1>15 DEF Next, Poll, Handle

-----------------------------------------------------------------------------
(* The channel.                                                            *)

LEMMA ChannelStays == ASSUME [Next]_vars PROVE channel' = channel
<1>1. ASSUME NEW m \in Msg,
             \/ Enqueue(m) \/ CancelSource(m) \/ RevokeConsent(m) \/ Retry(m)
             \/ \E level \in {"delivered", "read"} : Receipt(m, level)
      PROVE  channel' = channel
  BY <1>1 DEF Enqueue, CancelSource, RevokeConsent, Retry, Receipt
<1>2. ASSUME NEW w \in Worker, Poll(w) \/ Crash(w) PROVE channel' = channel
  BY <1>2 DEF Poll, Sweep, Screen, Choose, Take, Crash
<1>3. ASSUME NEW w \in Worker, NEW m \in Msg, Handle(w, m) \/ ReportFails(w, m)
      PROVE  channel' = channel
  BY <1>3 DEF Handle, Send, SendFails, EmailRefused, Mark, SendMedia, Report,
     ReportFails
<1> QED
  BY <1>1, <1>2, <1>3 DEF Next, vars, AccountLost, AccountBack

-----------------------------------------------------------------------------
(* WhatsApp texts, with one connector.                                     *)

Texting == channel = "whatsapp" /\ OneConnector

Tracked == HeldIsProcessing /\ OneBegun /\ TextsTracked

\* While one worker is busy, the others rest.
LEMMA Alone ==
    ASSUME Base, Texting, NEW w \in Worker, Claims(w), NEW v \in Worker, v # w
    PROVE  worker[v].saw = {} /\ worker[v].job = NoJob
BY DEF Base, OwnWorkers, Texting, OneConnector, Claims, Resting

\* An idle process holds nothing, and nobody else does.
LEMMA NobodyHolds ==
    ASSUME Base, Texting, NEW w \in Worker, Claims(w), worker[w].at # "working", NEW m \in Msg
    PROVE  Held(m) = {}
<1>1. \A v \in Worker : worker[v].job = NoJob
  BY Alone DEF Base, Orderly
<1> QED
  BY <1>1 DEF Held, NoJob

\* What holds of each message by itself.
Fine(m) ==
    /\ \A w \in Worker :
            worker[w].job[m] # "none" => row[m].status \in {"processing", "delivered"}
    /\ copies[m] <= 1
    /\ Unsent(m) => copies[m] = 0

LEMMA AllFine == HeldIsProcessing /\ TextsTracked <=> \A m \in Msg : Fine(m)
BY DEF HeldIsProcessing, TextsTracked, Fine

\* A message nobody moves stays as it is.
LEMMA Untouched ==
    ASSUME NEW m \in Msg, Fine(m), row'[m] = row[m], copies'[m] = copies[m],
           \A w \in Worker : worker'[w].job[m] = worker[w].job[m],
           \A w \in Worker : m \in worker'[w].saw => m \in worker[w].saw
    PROVE  Fine(m)'
BY DEF Fine, Unsent, Held

\* A step that only rewrites the row.
LEMMA Rewritten ==
    ASSUME NEW m \in Msg, Fine(m), UNCHANGED worker, copies'[m] <= 1,
           row'[m].status \in {"processing", "delivered"}
                \/ \A w \in Worker : worker[w].job[m] = "none",
           Unsent(m)' => copies'[m] = 0
    PROVE  Fine(m)'
BY DEF Fine

LEMMA FineStep ==
    ASSUME Base, Base', Texting, Tracked, [Next]_vars, NEW n \in Msg
    PROVE  Fine(n)'
<1> USE DEF Base
<1>0. Fine(n)
  BY AllFine DEF Tracked
<1>1. row[n] \in Row /\ copies[n] \in Nat
  BY DEF Types
<1>2. ASSUME NEW m \in Msg, UNCHANGED worker,
             row'[n] = row[n] \/ m = n, copies'[n] = copies[n] \/ m = n
      PROVE  m # n => Fine(n)'
  BY <1>0, <1>2, Untouched
<1>3. ASSUME NEW m \in Msg, Enqueue(m) PROVE Fine(n)'
  <2>1. CASE m = n
    <3>1. row[n].status = "none" /\ row'[n].status = "pending"
      BY <1>3, <2>1 DEF Enqueue, Types
    <3>2. copies[n] = 0 /\ \A w \in Worker : worker[w].job[n] = "none"
      BY <1>0, <3>1 DEF Fine, Unsent
    <3> QED
      BY <1>3, <3>2, Rewritten, <1>0 DEF Enqueue
  <2> QED
    BY <1>2, <1>3, <2>1 DEF Enqueue, Types
<1>4. ASSUME NEW m \in Msg, CancelSource(m) PROVE Fine(n)'
  <2>1. CASE m = n /\ row'[n] # row[n]
    <3>1. row[n].status \in Waiting /\ row'[n].status = "cancelled"
      BY <1>1, <1>4, <2>1 DEF CancelSource, Cancels, Update, Row
    <3>2. copies[n] = 0 /\ \A w \in Worker : worker[w].job[n] = "none"
      BY <1>0, <3>1 DEF Fine, Unsent, Waiting
    <3> QED
      BY <1>4, <3>2, Rewritten, <1>0 DEF CancelSource
  <2>2. CASE row'[n] = row[n]
    BY <1>0, <1>4, <2>2, Untouched DEF CancelSource
  <2> QED
    BY <1>2, <1>4, <2>1, <2>2 DEF CancelSource, Update
<1>5. ASSUME NEW m \in Msg, RevokeConsent(m) PROVE Fine(n)'
  BY <1>0, <1>5, Untouched DEF RevokeConsent
<1>6. ASSUME NEW m \in Msg, Retry(m) PROVE Fine(n)'
  <2>1. CASE m = n
    <3>1. copies'[n] = 0 /\ UNCHANGED worker /\ row[n].status = "failed"
      BY <1>6, <2>1 DEF Retry, Types
    <3>2. \A w \in Worker : worker[w].job[n] = "none"
      BY <1>0, <3>1 DEF Fine
    <3> QED
      BY <1>0, <3>1, <3>2, Rewritten
  <2> QED
    BY <1>2, <1>6, <2>1 DEF Retry, Types
<1>7. ASSUME NEW m \in Msg, NEW level \in {"delivered", "read"}, Receipt(m, level)
      PROVE  Fine(n)'
  <2>1. CASE m = n
    <3>1. /\ row[n].ref /\ row'[n].ref
          /\ row'[n].status \in {"delivered", row[n].status}
          /\ UNCHANGED <<worker, copies>>
      BY <1>1, <1>7, <2>1 DEF Receipt, Types, Row
    <3>2. Unsent(n)' => Unsent(n)
      BY <3>1 DEF Unsent, Held, Waiting
    <3> QED
      BY <1>0, <3>1, <3>2 DEF Fine
  <2> QED
    BY <1>2, <1>7, <2>1 DEF Receipt, Types
<1>8. ASSUME NEW w \in Worker, NEW E \in SUBSET Msg, NEW S \in SUBSET Msg, Sweep(w, E, S)
      PROVE  Fine(n)'
  <2>1. Held(n) = {}
    BY <1>8, NobodyHolds DEF Sweep
  <2>2. /\ \A v \in Worker : worker'[v].job = worker[v].job /\ worker'[v].saw = worker[v].saw
        /\ copies' = copies
    BY <1>8 DEF Sweep, Types, Process
  <2>3. Held(n)' = {}
    BY <2>1, <2>2 DEF Held
  <2>4. /\ row'[n].ref = row[n].ref
        /\ row'[n].status \in Waiting => Unsent(n)
        /\ row'[n].status \in {"none", "processing"} => row'[n].status = row[n].status
    BY <1>1, <1>8, <2>1 DEF Sweep, Recovered, Row, Unsent, Waiting
  <2>5. Unsent(n)' => Unsent(n)
    BY <2>1, <2>2, <2>4 DEF Unsent
  <2> QED
    BY <1>0, <2>2, <2>3, <2>5 DEF Fine, Held
<1>9. ASSUME NEW w \in Worker, Screen(w) PROVE Fine(n)'
  <2>1. /\ \A v \in Worker : worker'[v].job = worker[v].job /\ worker'[v].saw = worker[v].saw
        /\ copies' = copies
    BY <1>9 DEF Screen, Types, Process
  <2>2. \/ row'[n] = row[n]
        \/ row[n].status \in Waiting /\ row'[n].status \in {"cancelled", "suppressed"}
    BY <1>9, ScreenFacts DEF Base
  <2>3. Unsent(n)' => Unsent(n)
    BY <2>1, <2>2 DEF Unsent, Held, Waiting
  <2> QED
    BY <1>0, <2>1, <2>2, <2>3 DEF Fine, Waiting
<1>10. ASSUME NEW w \in Worker, NEW S \in SUBSET Msg, Choose(w, S) PROVE Fine(n)'
  <2>1. worker[w].saw = {} /\ worker[w].job = NoJob
    BY <1>10 DEF Choose, Orderly
  <2>2. /\ \A v \in Worker : worker'[v].job = worker[v].job
        /\ \A v \in Worker : worker'[v].saw \subseteq worker[v].saw \cup S
        /\ UNCHANGED <<row, copies>>
    BY <1>10, <2>1 DEF Choose, Types, Process, Resting
  <2>3. n \in S => row[n].status \in Waiting
    BY <1>10 DEF Choose
  <2>4. Unsent(n)' => Unsent(n)
    BY <2>2, <2>3 DEF Unsent, Held
  <2> QED
    BY <1>0, <2>2, <2>4 DEF Fine
<1>11. ASSUME NEW w \in Worker, Take(w) PROVE Fine(n)'
  <2>1. /\ worker[w].at = "choosing" /\ worker[w].job = NoJob
        /\ copies' = copies
    BY <1>11 DEF Take, Orderly
  <2>2. \A v \in Worker : v # w => worker'[v] = worker[v]
    BY <1>11 DEF Take, Types
  <2>3. /\ worker'[w].saw = {}
        /\ worker'[w].job[n] = IF n \in worker[w].saw THEN "waiting" ELSE "none"
    BY <1>11 DEF Take, Types
  <2>4. CASE n \in worker[w].saw
    <3>1. row'[n].status = "processing" /\ copies'[n] = 0
      BY <1>0, <1>1, <1>11, <2>1, <2>4 DEF Take, Fine, Unsent, Row
    <3> QED
      BY <3>1 DEF Fine
  <2>5. CASE n \notin worker[w].saw
    <3>1. row'[n] = row[n]
      BY <1>11, <2>5 DEF Take
    <3>2. \A v \in Worker : worker'[v].job[n] = worker[v].job[n]
      BY <2>1, <2>2, <2>3, <2>5 DEF NoJob
    <3>3. \A v \in Worker : n \in worker'[v].saw => n \in worker[v].saw
      BY <2>2, <2>3
    <3> QED
      BY <1>0, <2>1, <3>1, <3>2, <3>3, Untouched
  <2> QED
    BY <2>4, <2>5
\* A stage is passed.
<1>12. ASSUME NEW w \in Worker, NEW m \in Msg, NEW st \in Stage \ {"none", "waiting"},
              worker[w].job[m] # "none", Goes(w, m, st)
       PROVE  /\ m # n => /\ \A v \in Worker : worker'[v].job[n] = worker[v].job[n]
                          /\ \A v \in Worker : n \in worker'[v].saw => n \in worker[v].saw
              /\ m = n => /\ \A v \in Worker : n \notin worker'[v].saw
                          /\ \A v \in Worker : worker'[v].job[n] # "waiting"
                          /\ Held(n)' # {}
                          /\ row[n].status \in {"processing", "delivered"}
  <2>1. worker[w].saw = {} /\ Claims(w)
    BY <1>12, HoldersWork, HoldersClaim
  <2>2. \A v \in Worker : v # w => worker[v].saw = {} /\ worker[v].job = NoJob
    BY <2>1, Alone
  <2>3. \A v \in Worker :
            /\ worker'[v].saw = worker[v].saw
            /\ \A k \in Msg :
                worker'[v].job[k] = IF v = w /\ k = m THEN st ELSE worker[v].job[k]
    BY <1>12, GoesFacts
  <2> QED
    BY <1>0, <1>12, <2>1, <2>2, <2>3 DEF Fine, Held, NoJob
<1>13. ASSUME NEW w \in Worker, NEW m \in Msg, Send(w, m) \/ SendFails(w, m)
       PROVE  Fine(n)'
  <2>1. /\ worker[w].job[m] = "waiting"
        /\ \E st \in Stage \ {"none", "waiting"} : Goes(w, m, st)
        /\ Accept(m) \/ UNCHANGED copies
        /\ row' = row
    BY <1>13 DEF Send, SendFails, Turn, Stage
  <2>2. m # n => copies'[n] = copies[n]
    BY <2>1, AcceptType
  <2>3. m = n => copies'[n] <= 1
    <3>1. m = n => copies[n] = 0
      BY <1>0, <2>1 DEF Fine, Unsent
    <3> QED
      BY <2>1, <3>1, AcceptType DEF Texting
  <2>4. CASE m # n
    BY <1>0, <1>12, <2>1, <2>2, <2>4, Untouched
  <2>5. CASE m = n
    <3>1. ~ Unsent(n)'
      BY <1>12, <2>1, <2>5 DEF Unsent, Waiting
    <3> QED
      BY <1>12, <2>1, <2>3, <2>5, <3>1 DEF Fine
  <2> QED
    BY <2>4, <2>5
<1>14. ASSUME NEW w \in Worker, NEW m \in Msg, Mark(w, m) \/ SendMedia(w, m)
       PROVE  Fine(n)'
  <2>1. /\ worker[w].job[m] # "none"
        /\ \E st \in Stage \ {"none", "waiting"} : Goes(w, m, st)
        /\ copies' = copies
        /\ m # n => row'[n] = row[n]
        /\ row'[n].status = row[n].status
    BY <1>1, <1>14 DEF Mark, SendMedia, Stage, Types, Row
  <2>2. CASE m # n
    BY <1>0, <1>12, <2>1, <2>2, Untouched
  <2>3. CASE m = n
    <3>1. ~ Unsent(n)'
      BY <1>12, <2>1, <2>3 DEF Unsent, Waiting
    <3> QED
      BY <1>0, <1>12, <2>1, <2>3, <3>1 DEF Fine
  <2> QED
    BY <2>2, <2>3
<1>15. ASSUME NEW w \in Worker, NEW m \in Msg, EmailRefused(w, m) PROVE FALSE
  BY <1>15 DEF EmailRefused, Texting
\* Messages M are let go: what is left unsent has not been sent.
<1>16. ASSUME NEW w \in Worker, worker[w].at = "working",
              NEW M \in SUBSET Msg, n \in M => worker[w].job[n] # "none" \/ row'[n] = row[n],
              \A v \in Worker : worker'[v].saw = {},
              \A v \in Worker : worker'[v].job[n] =
                    IF v = w /\ n \in M THEN "none" ELSE worker[v].job[n],
              n \notin M => row'[n] = row[n],
              copies'[n] \in {0, copies[n]},
              n \in M /\ worker[w].job[n] # "none" =>
                    \/ copies'[n] = 0
                    \/ row'[n].status \notin Waiting \cup {"none", "processing"}
                    \/ row'[n].status = "processing" /\ row'[n].ref
       PROVE  Fine(n)'
  <2>1. \A v \in Worker : v # w => worker[v].job[n] = "none"
    BY <1>16, Busy, Alone DEF Resting, NoJob
  <2>2. copies'[n] <= 1
    BY <1>0, <1>1, <1>16 DEF Fine
  <2>3. CASE n \in M /\ worker[w].job[n] # "none"
    <3>1. \A v \in Worker : worker'[v].job[n] = "none"
      BY <1>16, <2>1, <2>3
    <3>2. Unsent(n)' => copies'[n] = 0
      BY <1>16, <2>3, <3>1 DEF Unsent, Waiting
    <3> QED
      BY <2>2, <3>1, <3>2 DEF Fine
  <2>4. CASE n \notin M \/ worker[w].job[n] = "none"
    <3>1. \A v \in Worker : worker'[v].job[n] = worker[v].job[n]
      BY <1>16, <2>4
    <3>2. row'[n] = row[n]
      BY <1>16, <2>4
    <3>3. CASE copies'[n] = copies[n]
      BY <1>0, <1>16, <3>1, <3>2, <3>3, Untouched
    <3>4. CASE copies'[n] = 0
      BY <1>0, <3>1, <3>2, <3>4 DEF Fine
    <3> QED
      BY <1>16, <3>3, <3>4
  <2> QED
    BY <2>3, <2>4
<1>17. ASSUME NEW w \in Worker, worker[w].at = "working"
       PROVE  \A v \in Worker : worker[v].saw = {}
  BY <1>17, Busy, Alone DEF Orderly, Resting
<1>18. ASSUME NEW w \in Worker, NEW m \in Msg, Report(w, m) PROVE Fine(n)'
  <2> DEFINE st == worker[w].job[m]
  <2>1. st \in Over /\ st # "none" /\ worker[w].at = "working"
    BY <1>18, HoldersWork DEF Report, Over
  <2>2. /\ m # n => row'[n] = row[n]
        /\ st = "done" => row'[m].status = "sent"
    BY <1>18, <2>1, ReportedFacts DEF Report
  <2>3. /\ \A v \in Worker : worker'[v].saw = {}
        /\ \A v \in Worker : worker'[v].job[n] =
                IF v = w /\ n \in {m} THEN "none" ELSE worker[v].job[n]
    BY <1>17, <1>18, <2>1, DropFacts DEF Report
  <2>4. /\ copies'[n] \in {0, copies[n]}
        /\ m = n /\ st # "done" => copies'[n] = 0
    BY <1>18, ForgivenFacts DEF Report, Texting
  <2> QED
    BY <1>16, <2>1, <2>2, <2>3, <2>4 DEF Waiting
<1>19. ASSUME NEW w \in Worker, NEW m \in Msg, ReportFails(w, m) PROVE Fine(n)'
  <2> DEFINE st == worker[w].job[m]
  <2>1. st \in Over /\ st # "none" /\ worker[w].at = "working" /\ m \in Begun(w)
    BY <1>19, HoldersWork DEF ReportFails, Over, Begun
  <2>2. /\ \A v \in Worker : worker'[v].saw = {}
        /\ \A v \in Worker : worker'[v].job[n] =
                IF v = w /\ n \in Msg THEN "none" ELSE worker[v].job[n]
    BY <1>17, <1>19, <2>1, DropFacts DEF ReportFails, Texting
  <2>3. /\ m # n => row'[n] = row[n]
        /\ m = n => \/ st = "done" /\ row'[n].status = "sent"
                    \/ copies'[n] = 0
                    \/ row'[n] = row[n] /\ row[n].ref
        /\ copies'[n] \in {0, copies[n]}
    BY <1>19, <2>1, ReportedFacts, ForgivenFacts DEF ReportFails, Texting
  <2>4. m # n => worker[w].job[n] \in {"none", "waiting"}
    BY <2>1 DEF Tracked, OneBegun, Begun
  <2>5. m # n /\ worker[w].job[n] # "none" => copies'[n] = 0
    BY <1>0, <2>3, <2>4 DEF Fine, Unsent
  <2>6. m = n => row[n].status \in {"processing", "delivered"}
    BY <1>0, <2>1 DEF Fine
  <2> QED
    BY <1>16, <2>1, <2>2, <2>3, <2>5, <2>6 DEF Waiting
<1>20. ASSUME NEW w \in Worker, Crash(w) PROVE Fine(n)'
  <2>1. worker[w].at = "working" /\ row' = row
    BY <1>20 DEF Crash
  <2>2. /\ \A v \in Worker : worker'[v].saw = {}
        /\ \A v \in Worker : worker'[v].job[n] =
                IF v = w /\ n \in Msg THEN "none" ELSE worker[v].job[n]
    BY <1>17, <1>20, <2>1 DEF Crash, Resting, NoJob, Types
  <2>3. /\ copies'[n] \in {0, copies[n]}
        /\ worker[w].job[n] \notin {"none", "waiting"} /\ ~row[n].ref => copies'[n] = 0
    BY <1>20, ForgivenFacts DEF Crash, Begun, Texting
  <2>4. worker[w].job[n] = "waiting" => copies'[n] = 0
    BY <1>0, <2>3 DEF Fine, Unsent
  <2>5. worker[w].job[n] # "none" => row[n].status \in {"processing", "delivered"}
    BY <1>0 DEF Fine
  <2> QED
    BY <1>16, <2>1, <2>2, <2>3, <2>4, <2>5 DEF Waiting
<1>21. CASE UNCHANGED <<row, worker, copies>>
  BY <1>0, <1>21, Untouched
<1> QED
  BY <1>3, <1>4, <1>5, <1>6, <1>7, <1>8, <1>9, <1>10, <1>11, <1>13, <1>14, <1>15,
     <1>18,
     <1>19, <1>20, <1>21 DEF Next, Poll, Handle, vars, AccountLost, AccountBack

LEMMA BegunStep ==
    ASSUME Base, Texting, OneBegun, [Next]_vars, NEW v \in Worker, NEW k \in Begun(v)',
           NEW n \in Begun(v)'
    PROVE  k = n
<1> USE DEF Base
<1>1. k \in Msg /\ n \in Msg
  BY DEF Begun
<1>2. CASE \A m \in Begun(v)' : m \in Begun(v)
  BY <1>2 DEF OneBegun
<1>3. ASSUME worker'[v].job = worker[v].job \/ worker'[v].job = NoJob
      PROVE  \A m \in Begun(v)' : m \in Begun(v)
  BY <1>3 DEF Begun, NoJob
<1>4. CASE worker'[v] = worker[v]
  BY <1>2, <1>3, <1>4
<1>5. ASSUME NEW w \in Worker, NEW E \in SUBSET Msg, NEW S \in SUBSET Msg, Sweep(w, E, S)
      PROVE  worker'[v].job = worker[v].job
  BY <1>5 DEF Sweep, Types, Process
<1>6. ASSUME NEW w \in Worker, Screen(w) PROVE worker'[v].job = worker[v].job
  BY <1>6 DEF Screen, Types, Process
<1>7. ASSUME NEW w \in Worker, NEW S \in SUBSET Msg, Choose(w, S)
      PROVE  worker'[v].job = worker[v].job \/ worker'[v].job = NoJob
  BY <1>7 DEF Choose, Types, Process, Resting
<1>8. ASSUME NEW w \in Worker, Crash(w)
      PROVE  worker'[v].job = worker[v].job \/ worker'[v].job = NoJob
  BY <1>8 DEF Crash, Types, Resting
<1>9. ASSUME NEW w \in Worker, Take(w) PROVE k = n
  <2>1. CASE v = w
    <3>1. \A m \in Msg : worker'[v].job[m] \in {"none", "waiting"}
      BY <1>9, <2>1 DEF Take, Types
    <3> QED
      BY <3>1 DEF Begun
  <2> QED
    BY <1>4, <1>9, <2>1 DEF Take, Types
<1>10. ASSUME NEW w \in Worker, NEW m \in Msg, NEW st \in Stage, Goes(w, m, st),
              m \in Begun(w) \/ Turn(w, m)
       PROVE  k = n
  <2>1. \A j \in Msg :
            worker'[v].job[j] = IF v = w /\ j = m THEN st ELSE worker[v].job[j]
    BY <1>10, GoesFacts
  <2>2. CASE m \in Begun(w) \/ v # w
    BY <1>2, <2>1, <2>2 DEF Begun
  <2>3. CASE Turn(w, m) /\ v = w
    <3>1. \A j \in Msg : worker[w].job[j] \in {"none", "waiting"}
      BY <2>3 DEF Turn, Texting
    <3> QED
      BY <1>1, <2>1, <2>3, <3>1 DEF Begun
  <2> QED
    BY <1>10, <2>2, <2>3
<1>11. ASSUME NEW w \in Worker, NEW m \in Msg,
              \/ Send(w, m) \/ SendFails(w, m) \/ EmailRefused(w, m)
              \/ Mark(w, m) \/ SendMedia(w, m)
       PROVE  k = n
  <2>1. \E st \in Stage : Goes(w, m, st)
    BY <1>11 DEF Send, SendFails, EmailRefused, Mark, SendMedia, Stage
  <2>2. m \in Begun(w) \/ Turn(w, m)
    BY <1>11 DEF Send, SendFails, EmailRefused, Mark, SendMedia, Begun
  <2> QED
    BY <1>10, <2>1, <2>2
<1>12. ASSUME NEW w \in Worker, NEW m \in Msg, Report(w, m) \/ ReportFails(w, m)
       PROVE  k = n
  <2>1. worker[w].at = "working"
    BY <1>12, HoldersWork DEF Report, ReportFails, Over
  <2>2. \E M \in {{m}, Msg} : Drop(w, M)
    BY <1>12 DEF Report, ReportFails
  <2>3. \A j \in Msg : worker'[v].job[j] \in {"none", worker[v].job[j]}
    BY <2>1, <2>2, DropFacts
  <2> QED
    BY <1>2, <2>3 DEF Begun
<1>13. CASE UNCHANGED worker
  BY <1>4, <1>13
<1> QED
  BY <1>2, <1>3, <1>5, <1>6, <1>7, <1>8, <1>9, <1>11, <1>12, <1>13 DEF Next, Poll,
     Handle,
     vars, Enqueue, CancelSource, RevokeConsent, Retry, Receipt, AccountLost, AccountBack

-----------------------------------------------------------------------------
LEMMA InitInv == Init => Inv
<1> SUFFICES ASSUME Init PROVE Inv
  OBVIOUS
<1>1. Types
  BY RestingType DEF Init, Types, Row
<1>2. Orderly /\ OwnWorkers
  BY DEF Init, Orderly, OwnWorkers, Resting
<1>3. HeldIsProcessing /\ OneBegun /\ TextsTracked
  BY DEF Init, HeldIsProcessing, OneBegun, Begun, TextsTracked, Resting, NoJob
<1> QED
  BY <1>1, <1>2, <1>3 DEF Inv

LEMMA InvStep == Inv /\ [Next]_vars => Inv'
<1> SUFFICES ASSUME Inv, [Next]_vars PROVE Inv'
  OBVIOUS
<1>1. Base /\ Base'
  BY BaseStep DEF Inv, Base
<1>2. ASSUME channel' = "whatsapp", OneConnector
      PROVE  HeldIsProcessing' /\ OneBegun' /\ TextsTracked'
  <2>1. Texting /\ Tracked
    BY <1>2, ChannelStays DEF Inv, Texting, Tracked
  <2>2. \A m \in Msg : Fine(m)'
    BY <1>1, <2>1, FineStep
  <2>3. HeldIsProcessing' /\ TextsTracked'
    BY <2>2 DEF HeldIsProcessing, TextsTracked, Fine
  <2>4. OneBegun'
    BY <1>1, <2>1, BegunStep DEF OneBegun, Tracked
  <2> QED
    BY <2>3, <2>4
<1> QED
  BY <1>1, <1>2 DEF Inv, Base, OneConnector

LEMMA Invariant == Spec => []Inv
BY InitInv, InvStep, PTL DEF Spec

\* With one connector a text is sent again only for a reason: any number of
\* messages, crashes, failed reports and retries.
THEOREM TextsOnce == Spec => [](OneConnector => TextOncePerReason)
<1>1. Inv => (OneConnector => TextOncePerReason)
  BY DEF Inv, TextsTracked, TextOncePerReason
<1> QED
  BY <1>1, Invariant, PTL

\* With one connector, a message that has ended is not sent again.
THEOREM EndedIsFinal == ASSUME OneConnector PROVE Spec => EndedStaysEnded
<1>1. ASSUME Inv, [Next]_vars, channel = "whatsapp", NEW n \in Msg, row[n].status \in Ended
      PROVE  \/ row'[n].status \notin Waiting \cup {"processing"}
             \/ \E w \in Worker : n \in worker[w].saw
  <2> DEFINE Over2 == row'[n].status \notin Waiting \cup {"processing"}
  <2>1. CASE row'[n] = row[n]
    BY <1>1, <2>1 DEF Ended, Waiting
  <2>2. row[n] \in Row /\ \A w \in Worker : worker[w].job[n] = "none"
    BY <1>1 DEF Inv, Types, HeldIsProcessing, Ended
  <2>3. ASSUME NEW m \in Msg, Enqueue(m) \/ CancelSource(m) \/ Retry(m)
        PROVE  row'[n] = row[n]
    BY <1>1, <2>3 DEF Enqueue, CancelSource, Cancels, Update, Retry, Inv, Types,
       Ended, Waiting
  <2>4. ASSUME NEW m \in Msg, NEW level \in {"delivered", "read"}, Receipt(m, level)
        PROVE  Over2
    BY <1>1, <2>1, <2>2, <2>4 DEF Receipt, Inv, Types, Row, Ended, Waiting
  <2>5. ASSUME NEW w \in Worker, NEW E \in SUBSET Msg, NEW S \in SUBSET Msg, Sweep(w, E, S)
        PROVE  row'[n] = row[n]
    BY <1>1, <2>5 DEF Sweep, Ended, Waiting
  <2>6. ASSUME NEW w \in Worker, Screen(w) PROVE row'[n] = row[n]
    BY <1>1, <2>6 DEF Screen, Ended, Waiting
  <2>7. ASSUME NEW w \in Worker, Take(w), n \notin worker[w].saw
        PROVE  row'[n] = row[n]
    BY <2>7 DEF Take
  <2>8. ASSUME NEW w \in Worker, NEW m \in Msg, Mark(w, m) \/ Report(w, m) \/ ReportFails(w, m)
        PROVE  row'[n] = row[n]
    <3>1. m # n
      BY <2>2, <2>8 DEF Mark, Report, ReportFails, Over
    <3>2. Mark(w, m) => row'[n] = row[n]
      BY <1>1, <3>1 DEF Mark, Inv, Types
    <3>3. ASSUME NEW st \in Over, Reported(m, st) PROVE row'[n] = row[n]
      BY <1>1, <3>1, <3>3, ReportedFacts DEF Inv
    <3> QED
      BY <2>8, <3>2, <3>3 DEF Report, ReportFails
  <2>9. ASSUME NEW w \in Worker, NEW m \in Msg,
               Send(w, m) \/ SendFails(w, m) \/ EmailRefused(w, m) \/ SendMedia(w, m)
        PROVE  row'[n] = row[n]
    BY <2>9 DEF Send, SendFails, EmailRefused, SendMedia
  <2> QED
    BY <1>1, <2>1, <2>3, <2>4, <2>5, <2>6, <2>7, <2>8, <2>9 DEF Next, Poll, Handle,
       vars,
       RevokeConsent, AccountLost, AccountBack, Choose, Crash
<1>2. Inv /\ [Next]_vars =>
        [channel = "whatsapp" => \A m \in Msg :
            row[m].status \in Ended =>
                \/ row'[m].status \notin Waiting \cup {"processing"}
                \/ \E w \in Worker : m \in worker[w].saw]_vars
  BY <1>1
<1> QED
  BY <1>2, Invariant, PTL DEF Spec, EndedStaysEnded

-----------------------------------------------------------------------------
(* Messages of cancelled bookings.                                         *)

\* What a screened queue holds for the connector that is about to choose.
Vetted ==
    channel = "whatsapp" =>
        \A w \in Worker : worker[w].at = "screened" =>
            \A m \in Msg : row[m].status \in Waiting => standing[m] # "cancelled"

\* While the connector is between two statements of a claim, no process
\* sweeps, reports, or claims.
LEMMA Undisturbed ==
    ASSUME Base, Texting, NEW w \in Worker, worker[w].at = "screened",
           NEW v \in Worker
    PROVE  /\ worker[v].at \in {"swept", "choosing", "working"} => FALSE
           /\ Claims(v) => v = w
           /\ \A m \in Msg : worker[v].job[m] = "none"
<1>1. Claims(w)
  BY DEF Base, OwnWorkers, Resting
<1>2. Claims(v) => v = w
  BY <1>1 DEF Claims, Texting, OneConnector
<1>3. worker[v].at \in {"idle", "screened"}
  BY <1>2 DEF Base, OwnWorkers, Resting
<1> QED
  BY <1>2, <1>3 DEF Base, Orderly, NoJob

LEMMA VettedStep ==
    ASSUME Inv, OneConnector, Vetted, [Next]_vars
    PROVE  Vetted'
<1> SUFFICES ASSUME channel' = "whatsapp", NEW w \in Worker,
                    worker'[w].at = "screened",
                    NEW n \in Msg, row'[n].status \in Waiting
             PROVE  standing'[n] # "cancelled"
  BY DEF Vetted
<1>a. Base /\ Texting
  BY ChannelStays DEF Inv, Base, Texting
<1>b. Types /\ Orderly
  BY <1>a DEF Base
<1>1. ASSUME NEW v \in Worker, Screen(v)
      PROVE  standing'[n] # "cancelled"
  BY <1>b, <1>1 DEF Screen, Screened, Types, Row, Waiting
<1>2. ASSUME worker[w].at = "screened", standing'[n] = standing[n],
             row'[n].status \in Waiting => row[n].status \in Waiting
      PROVE  standing'[n] # "cancelled"
  BY <1>a, <1>2 DEF Vetted, Texting
<1>3. ASSUME NEW m \in Msg,
             \/ Enqueue(m) \/ CancelSource(m) \/ RevokeConsent(m) \/ Retry(m)
             \/ \E level \in {"delivered", "read"} : Receipt(m, level)
      PROVE  standing'[n] # "cancelled"
  <2>1. worker[w].at = "screened"
    BY <1>3 DEF Enqueue, CancelSource, RevokeConsent, Retry, Receipt
  <2>2. CASE Enqueue(m) \/ Retry(m)
    BY <1>b, <1>2, <2>1, <2>2 DEF Enqueue, Retry, Types
  <2>3. CASE CancelSource(m)
    BY <1>b, <1>2, <2>1, <2>3 DEF CancelSource, Cancels, Update, Types, Waiting
  <2>4. CASE RevokeConsent(m)
    BY <1>b, <1>2, <2>1, <2>4 DEF RevokeConsent, Types
  <2>5. ASSUME NEW level \in {"delivered", "read"}, Receipt(m, level)
        PROVE  standing'[n] # "cancelled"
    <3>1. row'[n].status \in {row[n].status, "delivered"}
      BY <1>b, <2>5 DEF Receipt, Types, Row
    <3> QED BY <1>2, <2>1, <2>5, <3>1 DEF Receipt, Waiting
  <2> QED
    BY <1>3, <2>2, <2>3, <2>4, <2>5
<1>4. CASE UNCHANGED vars \/ AccountLost \/ AccountBack
  BY <1>2, <1>4 DEF vars, AccountLost, AccountBack
<1>5. ASSUME NEW v \in Worker, NEW E \in SUBSET Msg, NEW S \in SUBSET Msg,
             Sweep(v, E, S) \/ Choose(v, S) \/ Take(v) \/ Crash(v)
      PROVE  FALSE
  <2>1. v # w
    <3>1. v = w => worker'[w].at \in {"swept", "idle", "choosing", "working"}
      <4>1. CASE Sweep(v, E, S)
        BY <1>b, <4>1 DEF Sweep, Types, Process
      <4>2. CASE Choose(v, S)
        BY <1>b, <4>2 DEF Choose, Types, Process, Resting
      <4>3. CASE Take(v)
        BY <1>b, <4>3 DEF Take, Types
      <4>4. CASE Crash(v)
        BY <1>b, <4>4 DEF Crash, Types, Resting
      <4> QED BY <1>5, <4>1, <4>2, <4>3, <4>4
    <3> QED BY <3>1
  <2>2. worker[w].at = "screened"
    BY <1>b, <1>5, <2>1 DEF Sweep, Choose, Take, Crash, Types
  <2>3. /\ worker[v].at \notin {"choosing", "working"}
        /\ ~Claims(v)
    BY <1>a, <2>1, <2>2, Undisturbed
  <2>4. worker[v].at # "screened"
    BY <1>a, <2>3 DEF Base, OwnWorkers, Resting
  <2> QED
    BY <1>5, <2>3, <2>4 DEF Sweep, Choose, Take, Crash
<1>6. ASSUME NEW v \in Worker, NEW m \in Msg, Handle(v, m) \/ ReportFails(v, m)
      PROVE  FALSE
  <2>1. worker[v].job[m] # "none"
    BY <1>6 DEF Handle, Send, SendFails, EmailRefused, Mark, SendMedia, Report,
       ReportFails, Turn, Over
  <2>2. worker[v].at = "working"
    BY <1>b, <2>1, HoldersWork
  <2>3. worker[w].at # "screened"
    BY <1>a, <2>1, Undisturbed
  <2>4. worker'[w].at \in {worker[w].at, "idle"}
    <3>1. ASSUME NEW st, Goes(v, m, st) PROVE worker'[w].at = worker[w].at
      BY <1>b, <3>1 DEF Goes, Types, Process
    <3>2. ASSUME NEW M, Drop(v, M) PROVE worker'[w].at \in {worker[w].at, "idle"}
      BY <1>b, <3>2 DEF Drop, Types, Process, Resting
    <3> QED
      BY <1>6, <3>1, <3>2 DEF Handle, Send, SendFails, EmailRefused, Mark,
         SendMedia, Report, ReportFails
  <2> QED
    BY <2>3, <2>4
<1> QED
  BY <1>1, <1>3, <1>4, <1>5, <1>6 DEF Next, Poll

\* With one connector, a message of a cancelled booking is not chosen for
\* sending, whatever it went through before: any number of messages, crashes,
\* failed reports and retries.
THEOREM CancelledStops == ASSUME OneConnector PROVE Spec => CancelledNotChosen
<1>1. Init => Vetted
  BY DEF Init, Vetted, Resting
<1>2. Inv /\ Vetted /\ [Next]_vars => Vetted'
  BY VettedStep
<1>3. ASSUME Inv, Vetted, Next, channel = "whatsapp", NEW w \in Worker,
             NEW m \in Msg, m \in worker'[w].saw, m \notin worker[w].saw
      PROVE  standing[m] # "cancelled"
  <2>1. Types
    BY <1>3 DEF Inv
  <2>2. PICK v \in Worker : \/ Poll(v) \/ Crash(v)
                            \/ \E n \in Msg : Handle(v, n) \/ ReportFails(v, n)
    BY <1>3 DEF Next, Enqueue, CancelSource, RevokeConsent, Retry, Receipt,
       AccountLost, AccountBack
  <2>3. ASSUME NEW S \in SUBSET Msg, Choose(v, S)
        PROVE  standing[m] # "cancelled"
    <3>1. v = w /\ m \in S
      BY <1>3, <2>1, <2>3 DEF Choose, Types, Process, Resting
    <3> QED BY <1>3, <2>3, <3>1 DEF Choose, Vetted
  <2>4. ASSUME NEW E \in SUBSET Msg, NEW S \in SUBSET Msg,
               Sweep(v, E, S) \/ Screen(v) \/ Take(v) \/ Crash(v)
        PROVE  FALSE
    <3>1. worker'[w].saw \in {worker[w].saw, {}}
      <4>1. CASE Sweep(v, E, S) \/ Screen(v)
        BY <2>1, <4>1 DEF Sweep, Screen, Types, Process
      <4>2. CASE Take(v)
        BY <2>1, <4>2 DEF Take, Types
      <4>3. CASE Crash(v)
        BY <2>1, <4>3 DEF Crash, Types, Resting
      <4> QED BY <2>4, <4>1, <4>2, <4>3
    <3> QED BY <1>3, <3>1
  <2>5. ASSUME NEW n \in Msg, Handle(v, n) \/ ReportFails(v, n)
        PROVE  FALSE
    <3>1. ASSUME NEW st, Goes(v, n, st) PROVE worker'[w].saw = worker[w].saw
      BY <2>1, <3>1 DEF Goes, Types, Process
    <3>2. ASSUME NEW M, Drop(v, M) PROVE worker'[w].saw \in {worker[w].saw, {}}
      BY <2>1, <3>2 DEF Drop, Types, Process, Resting
    <3> QED
      BY <1>3, <2>5, <3>1, <3>2 DEF Handle, Send, SendFails, EmailRefused, Mark,
         SendMedia, Report, ReportFails
  <2> QED
    BY <2>2, <2>3, <2>4, <2>5 DEF Poll
<1>4. Inv /\ Vetted /\ [Next]_vars =>
        [channel = "whatsapp" =>
            \A w \in Worker, m \in Msg :
                m \in worker'[w].saw /\ m \notin worker[w].saw
                    => standing[m] # "cancelled"]_vars
  BY <1>3
<1> QED
  BY <1>1, <1>2, <1>4, Invariant, PTL DEF Spec, CancelledNotChosen

-----------------------------------------------------------------------------
(* How often a message is tried.                                           *)

Choosers(m) == {w \in Worker : m \in worker[w].saw}

\* The count is raised past MaxAttempts only by the claims that were pending
\* when a message last could be chosen: at most one of each worker, and again
\* for each fault that let the sweep bring it back.
Limit == MaxAttempts - 1 + Cardinality(Worker) * faults

\* The message can be chosen, or will be after the sweep.
Loose(m) ==
    \/ row[m].status \in Waiting \cup {"none"}
    \/ row[m].status = "processing" /\ Held(m) = {}

Tried(m) ==
    /\ row[m].attempts + Cardinality(Choosers(m)) <= Limit + Cardinality(Worker)
    /\ Loose(m) => row[m].attempts <= Limit
    /\ Worker = {} => row[m].attempts = 0

Counted ==
    /\ faults \in 0 .. MaxFault
    /\ retries \in 0 .. MaxRetry
    /\ \A m \in Msg : Tried(m)

LEMMA ChoosersFinite ==
    ASSUME IsFiniteSet(Worker), NEW S \in SUBSET Worker
    PROVE  /\ IsFiniteSet(S) /\ Cardinality(S) \in Nat /\ Cardinality(Worker) \in Nat
           /\ Cardinality(S) <= Cardinality(Worker)
           /\ \A T \in SUBSET S : Cardinality(T) <= Cardinality(S)
           /\ \A w \in S : Cardinality(S \ {w}) = Cardinality(S) - 1
BY FS_Subset, FS_CardinalityType, FS_RemoveElement

LEMMA FaultsStep ==
    ASSUME faults \in 0 .. MaxFault, retries \in 0 .. MaxRetry, [Next]_vars
    PROVE  /\ faults' \in 0 .. MaxFault /\ retries' \in 0 .. MaxRetry
           /\ faults' \in {faults, faults + 1}
<1> DEFINE Steps == /\ UNCHANGED faults \/ (faults < MaxFault /\ faults' = faults + 1)
                    /\ UNCHANGED retries \/ (retries < MaxRetry /\ retries' = retries + 1)
<1>1. ASSUME NEW m \in Msg,
             \/ Enqueue(m) \/ CancelSource(m) \/ RevokeConsent(m) \/ Retry(m)
             \/ \E level \in {"delivered", "read"} : Receipt(m, level)
      PROVE  Steps
  BY <1>1 DEF Enqueue, CancelSource, RevokeConsent, Retry, Receipt
<1>2. ASSUME NEW w \in Worker, Poll(w) \/ Crash(w) PROVE Steps
  BY <1>2 DEF Poll, Sweep, Screen, Choose, Take, Crash
<1>3. ASSUME NEW w \in Worker, NEW m \in Msg, Handle(w, m) \/ ReportFails(w, m)
      PROVE  Steps
  BY <1>3 DEF Handle, Send, SendFails, EmailRefused, Mark, SendMedia, Report,
     ReportFails
<1>4. ASSUME AccountLost \/ AccountBack \/ UNCHANGED vars PROVE Steps
  BY <1>4 DEF AccountLost, AccountBack, vars
<1>5. Steps
  <2> HIDE DEF Steps
  <2> QED
    BY <1>1, <1>2, <1>3, <1>4 DEF Next
<1> QED
  BY <1>5, QueueAssumption

LEMMA LimitGrows ==
    ASSUME IsFiniteSet(Worker), faults \in Nat, faults' \in {faults, faults + 1}
    PROVE  /\ Limit \in Int /\ Limit' \in Int /\ Limit <= Limit'
           /\ MaxAttempts - 1 <= Limit /\ 0 <= Limit
           /\ faults' = faults + 1 => Limit' = Limit + Cardinality(Worker)
<1> DEFINE n == Cardinality(Worker)
<1>1. n \in Nat
  BY FS_CardinalityType
<1>2. n * faults \in Nat /\ n * (faults + 1) = n * faults + n
  <2> HIDE DEF n
  <2> QED
    BY <1>1
<1>3. n * faults' \in {n * faults, n * faults + n}
  BY <1>2
<1>4. /\ Limit = MaxAttempts - 1 + n * faults /\ Limit' = MaxAttempts - 1 + n * faults'
      /\ MaxAttempts \in Nat \ {0}
  BY QueueAssumption DEF Limit
<1>5. faults' = faults + 1 => n * faults' = n * faults + n
  BY <1>2
<1> DEFINE p == n * faults  q == n * faults'
<1>6. p \in Nat /\ q \in {p, p + n}
  BY <1>2, <1>3
<1>7. /\ Limit = MaxAttempts - 1 + p /\ Limit' = MaxAttempts - 1 + q
      /\ faults' = faults + 1 => q = p + n
  BY <1>4, <1>5
<1> DEFINE l == Limit  k == Limit'  x == MaxAttempts  up == faults' = faults + 1
<1>8. /\ l = x - 1 + p /\ k = x - 1 + q
      /\ up => q = p + n
      /\ x \in Nat \ {0}
  BY <1>4, <1>7
<1> HIDE DEF n, p, q, l, k, x, up
<1>9. /\ l \in Int /\ k \in Int /\ l <= k /\ x - 1 <= l /\ 0 <= l
      /\ up => k = l + n
  BY <1>1, <1>6, <1>8
<1> QED
  BY <1>9 DEF n, l, k, x, up

\* A step that does not count the message, nor lets anybody choose it, makes it
\* loose only for less than the limit, or by a fault.
LEMMA NotCounted ==
    ASSUME IsFiniteSet(Worker), faults \in Nat, faults' \in {faults, faults + 1},
           NEW m \in Msg, row[m].attempts \in Nat, Tried(m),
           row'[m].attempts = row[m].attempts,
           Choosers(m)' \subseteq Choosers(m),
           Loose(m)' => \/ Loose(m)
                        \/ faults' = faults + 1
                        \/ row[m].attempts < MaxAttempts
    PROVE  Tried(m)'
<1> DEFINE n == Cardinality(Worker)
           c == Cardinality(Choosers(m))
           d == Cardinality(Choosers(m)')
           a == row[m].attempts
<1>1. c \in Nat /\ d \in Nat /\ n \in Nat /\ d <= c
  BY ChoosersFinite DEF Choosers
<1>2. /\ a + c <= Limit + n
      /\ Loose(m) => a <= Limit
      /\ Worker = {} => a = 0
  BY DEF Tried
<1>3. /\ Limit \in Int /\ Limit' \in Int /\ Limit <= Limit' /\ MaxAttempts - 1 <= Limit
      /\ faults' = faults + 1 => Limit' = Limit + n
      /\ MaxAttempts \in Nat
  BY LimitGrows, QueueAssumption
<1> HIDE DEF n, c, d, a
<1>4. a \in Nat /\ row'[m].attempts = a
  BY DEF a
<1>5. a + d <= Limit' + n
  BY <1>1, <1>2, <1>3, <1>4
<1>6. Loose(m)' => a <= Limit'
  BY <1>1, <1>2, <1>3, <1>4 DEF a
<1> QED
  BY <1>2, <1>4, <1>5, <1>6 DEF Tried, n, d

\* What the workers hold and have chosen of a message stays.
LEMMA Alike ==
    ASSUME NEW m \in Msg,
           \A w \in Worker : m \in worker'[w].saw <=> m \in worker[w].saw,
           \A w \in Worker : worker'[w].job[m] = "none" <=> worker[w].job[m] = "none"
    PROVE  Choosers(m)' = Choosers(m) /\ Held(m)' = Held(m)
BY DEF Choosers, Held

LEMMA TriedStep ==
    ASSUME IsFiniteSet(Worker), Base, Counted, [Next]_vars, NEW n \in Msg
    PROVE  Tried(n)'
<1> USE DEF Base
<1>0. /\ Tried(n) /\ row[n] \in Row /\ row[n].attempts \in Nat
      /\ faults \in Nat /\ faults' \in {faults, faults + 1}
  BY FaultsStep, QueueAssumption DEF Counted, Types, Row
<1>1. ASSUME UNCHANGED worker, row'[n].attempts = row[n].attempts,
             \/ row'[n].status = row[n].status
             \/ row'[n].status \notin Waiting \cup {"none", "processing"}
             \/ Loose(n)
      PROVE  Tried(n)'
  <2>1. Choosers(n)' = Choosers(n) /\ Held(n)' = Held(n)
    BY <1>1, Alike
  <2>2. Loose(n)' => Loose(n)
    BY <1>1, <2>1 DEF Loose
  <2> QED
    BY <1>0, <1>1, <2>1, <2>2, NotCounted
<1>2. ASSUME NEW m \in Msg, Enqueue(m) PROVE Tried(n)'
  BY <1>0, <1>1, <1>2 DEF Enqueue, Types, Row, Loose
<1>3. ASSUME NEW m \in Msg, CancelSource(m) PROVE Tried(n)'
  BY <1>0, <1>1, <1>3 DEF CancelSource, Cancels, Update, Row, Loose
<1>4. ASSUME NEW m \in Msg, RevokeConsent(m) PROVE Tried(n)'
  BY <1>1, <1>4 DEF RevokeConsent
<1>5. ASSUME NEW m \in Msg, Retry(m) PROVE Tried(n)'
  <2>1. CASE m = n
    <3>1. row'[n].attempts = 0 /\ UNCHANGED <<worker, faults>>
      BY <1>0, <1>5, <2>1 DEF Retry, Types, Row
    <3>2. /\ Cardinality(Choosers(n)') \in Nat /\ Cardinality(Worker) \in Nat
          /\ Cardinality(Choosers(n)') <= Cardinality(Worker)
      BY ChoosersFinite DEF Choosers
    <3>3. 0 <= Limit' /\ Limit' \in Int
      BY <1>0, LimitGrows
    <3> QED
      BY <3>1, <3>2, <3>3 DEF Tried
  <2>2. CASE m # n
    BY <1>1, <1>5, <2>2 DEF Retry, Types
  <2> QED
    BY <2>1, <2>2
<1>6. ASSUME NEW m \in Msg, NEW level \in {"delivered", "read"}, Receipt(m, level)
      PROVE  Tried(n)'
  <2>1. CASE m = n
    <3>1. /\ row'[n].attempts = row[n].attempts
          /\ row'[n].status \in {"delivered", row[n].status}
          /\ UNCHANGED worker
      BY <1>0, <1>6, <2>1 DEF Receipt, Types, Row
    <3> QED
      BY <1>1, <3>1 DEF Waiting
  <2>2. CASE m # n
    BY <1>1, <1>6, <2>2 DEF Receipt, Types
  <2> QED
    BY <2>1, <2>2
<1>7. CASE AccountLost \/ AccountBack
  BY <1>1, <1>7 DEF AccountLost, AccountBack
<1>8. ASSUME NEW w \in Worker, NEW E \in SUBSET Msg, NEW S \in SUBSET Msg, Sweep(w, E, S)
      PROVE  Tried(n)'
  <2>1. Choosers(n)' = Choosers(n) /\ Held(n)' = Held(n)
    <3>1. \A v \in Worker : worker'[v].job = worker[v].job /\ worker'[v].saw = worker[v].saw
      BY <1>8 DEF Sweep, Types, Process
    <3> QED
      BY <3>1, Alike
  <2>2. /\ row'[n].attempts = row[n].attempts
        /\ \/ row'[n] = row[n]
           \/ row'[n].status = "expired"
           \/ n \in S /\ row[n].status = "processing"
    BY <1>0, <1>8 DEF Sweep, Row
  <2>3. n \in S => Held(n) = {} \/ faults' = faults + 1
    BY <1>8 DEF Sweep
  <2>4. Loose(n)' => Loose(n) \/ faults' = faults + 1
    BY <2>1, <2>2, <2>3 DEF Loose, Waiting
  <2> QED
    BY <1>0, <2>1, <2>2, <2>4, NotCounted
<1>9. ASSUME NEW w \in Worker, Screen(w) PROVE Tried(n)'
  <2>1. Choosers(n)' = Choosers(n) /\ Held(n)' = Held(n)
    <3>1. \A v \in Worker : worker'[v].job = worker[v].job /\ worker'[v].saw = worker[v].saw
      BY <1>9 DEF Screen, Types, Process
    <3> QED
      BY <3>1, Alike
  <2>2. /\ row'[n].attempts = row[n].attempts
        /\ row'[n] = row[n] \/ row'[n].status \in {"cancelled", "suppressed"}
    BY <1>9, ScreenFacts
  <2>3. Loose(n)' => Loose(n)
    BY <2>1, <2>2 DEF Loose, Waiting
  <2> QED
    BY <1>0, <2>1, <2>2, <2>3, NotCounted
<1>10. ASSUME NEW w \in Worker, NEW S \in SUBSET Msg, Choose(w, S) PROVE Tried(n)'
  <2>1. worker[w].saw = {} /\ worker[w].job = NoJob
    BY <1>10 DEF Choose, Orderly
  <2>2. /\ \A v \in Worker : worker'[v].job = worker[v].job
        /\ \A v \in Worker : worker'[v].saw \subseteq worker[v].saw \cup S
        /\ UNCHANGED <<row, faults>>
    BY <1>10, <2>1 DEF Choose, Types, Process, Resting
  <2>3. Held(n)' = Held(n)
    BY <2>2 DEF Held
  <2>4. Loose(n)' <=> Loose(n)
    BY <2>2, <2>3 DEF Loose
  <2>5. CASE n \in S
    <3>1. Loose(n)
      BY <1>10, <2>5 DEF Choose, Loose
    <3>2. row[n].attempts <= Limit /\ (Worker = {} => row[n].attempts = 0)
      BY <1>0, <3>1 DEF Tried
    <3>3. /\ Cardinality(Choosers(n)') \in Nat /\ Cardinality(Worker) \in Nat
          /\ Cardinality(Choosers(n)') <= Cardinality(Worker)
      BY ChoosersFinite DEF Choosers
    <3>4. Limit' = Limit /\ Limit \in Int
      BY <1>0, <2>2, LimitGrows DEF Limit
    <3> QED
      BY <1>0, <2>2, <3>2, <3>3, <3>4 DEF Tried
  <2>6. CASE n \notin S
    <3>1. Choosers(n)' \subseteq Choosers(n)
      BY <2>2, <2>6 DEF Choosers
    <3> QED
      BY <1>0, <2>2, <2>4, <3>1, NotCounted
  <2> QED
    BY <2>5, <2>6
<1>11. ASSUME NEW w \in Worker, Take(w) PROVE Tried(n)'
  <2>1. /\ worker[w].job = NoJob
        /\ \A v \in Worker : v # w => worker'[v] = worker[v]
        /\ worker'[w].saw = {}
        /\ worker'[w].job[n] = IF n \in worker[w].saw THEN "waiting" ELSE "none"
        /\ UNCHANGED faults
    BY <1>11 DEF Take, Orderly, Types
  <2>2. CASE n \in worker[w].saw
    <3>1. /\ row'[n].status = "processing" /\ row'[n].attempts = row[n].attempts + 1
      BY <1>0, <1>11, <2>2 DEF Take, Row
    <3>2. w \in Choosers(n) /\ Choosers(n)' = Choosers(n) \ {w}
      BY <2>1, <2>2 DEF Choosers
    <3>3. /\ Cardinality(Choosers(n)') = Cardinality(Choosers(n)) - 1
          /\ Cardinality(Choosers(n)) \in Nat /\ Cardinality(Worker) \in Nat
      BY <3>2, ChoosersFinite DEF Choosers
    <3>4. Limit' = Limit /\ Limit \in Int
      BY <1>0, <2>1, LimitGrows DEF Limit
    <3>5. row'[n].attempts + Cardinality(Choosers(n)') <= Limit' + Cardinality(Worker)
      <4>1. row[n].attempts + Cardinality(Choosers(n)) <= Limit + Cardinality(Worker)
        BY <1>0 DEF Tried
      <4> QED
        BY <1>0, <3>1, <3>3, <3>4, <4>1
    <3>6. ~ Loose(n)'
      <4>1. w \in Held(n)'
        BY <2>1, <2>2 DEF Held
      <4> QED
        BY <3>1, <4>1 DEF Loose, Waiting
    <3> QED
      BY <3>5, <3>6 DEF Tried
  <2>3. CASE n \notin worker[w].saw
    <3>1. row'[n] = row[n]
      BY <1>11, <2>3 DEF Take
    <3>2. Choosers(n)' = Choosers(n) /\ Held(n)' = Held(n)
      BY <2>1, <2>3, Alike DEF NoJob
    <3> QED
      BY <1>0, <3>1, <3>2, NotCounted DEF Loose
  <2> QED
    BY <2>2, <2>3
<1>12. ASSUME NEW w \in Worker, NEW m \in Msg,
              \/ Send(w, m) \/ SendFails(w, m) \/ EmailRefused(w, m)
              \/ Mark(w, m) \/ SendMedia(w, m)
       PROVE  Tried(n)'
  <2>1. /\ worker[w].job[m] # "none"
        /\ \E st \in Stage \ {"none"} : Goes(w, m, st)
    BY <1>12 DEF Send, SendFails, EmailRefused, Turn, Mark, SendMedia, Stage
  <2>2. Choosers(n)' = Choosers(n) /\ Held(n)' = Held(n)
    <3>1. PICK st \in Stage \ {"none"} : Goes(w, m, st)
      BY <2>1
    <3>2. \A v \in Worker :
                /\ worker'[v].saw = worker[v].saw
                /\ worker'[v].job[n] = IF v = w /\ n = m THEN st ELSE worker[v].job[n]
      BY <3>1, GoesFacts
    <3> QED
      BY <2>1, <3>1, <3>2, Alike
  <2>3. row'[n].attempts = row[n].attempts /\ row'[n].status = row[n].status
    BY <1>0, <1>12 DEF Send, SendFails, EmailRefused, Mark, SendMedia, Types, Row
  <2> QED
    BY <1>0, <2>2, <2>3, NotCounted DEF Loose
<1>13. ASSUME NEW w \in Worker, NEW m \in Msg, Report(w, m) PROVE Tried(n)'
  <2> DEFINE st == worker[w].job[m]
  <2>1. st \in Over /\ worker[w].at = "working"
    BY <1>13, HoldersWork DEF Report, Over
  <2>2. \A v \in Worker :
            /\ worker'[v].saw = worker[v].saw
            /\ worker'[v].job[n] = IF v = w /\ n \in {m} THEN "none" ELSE worker[v].job[n]
    BY <1>13, <2>1, DropFacts DEF Report
  <2>3. CASE m = n
    <3>1. /\ row'[n].attempts = row[n].attempts
          /\ \/ row'[n].status \in {"sent", "failed"}
             \/ row'[n].status = "retrying" /\ ~Spent(n)
      BY <1>0, <1>13, <2>3 DEF Report, Reported, Types, Row
    <3>2. Loose(n)' => row[n].attempts < MaxAttempts
      BY <1>0, <3>1, QueueAssumption DEF Loose, Waiting, Spent
    <3> QED
      BY <1>0, <2>2, <3>1, <3>2, NotCounted DEF Choosers
  <2>4. CASE m # n
    <3>1. row'[n] = row[n]
      BY <1>13, <2>1, <2>4, ReportedFacts DEF Report
    <3>2. Choosers(n)' = Choosers(n) /\ Held(n)' = Held(n)
      BY <2>2, <2>4, Alike
    <3> QED
      BY <1>0, <3>1, <3>2, NotCounted DEF Loose
  <2> QED
    BY <2>3, <2>4
<1>14. ASSUME NEW w \in Worker, NEW m \in Msg, ReportFails(w, m) PROVE Tried(n)'
  <2>1. worker[w].at = "working" /\ \E M \in {{m}, Msg} : Drop(w, M)
    BY <1>14, HoldersWork DEF ReportFails, Over
  <2>2. \A v \in Worker : worker'[v].saw = worker[v].saw
    BY <2>1, DropFacts
  <2>3. row'[n].attempts = row[n].attempts /\ faults' = faults + 1
    <3>1. row' = row \/ Reported(m, worker[w].job[m])
      BY <1>14 DEF ReportFails
    <3>2. Reported(m, worker[w].job[m]) => row'[n].attempts = row[n].attempts
      BY <1>0 DEF Reported, Types, Row
    <3> QED
      BY <1>14, <3>1, <3>2 DEF ReportFails
  <2> QED
    BY <1>0, <2>2, <2>3, NotCounted DEF Choosers
<1>15. ASSUME NEW w \in Worker, Crash(w) PROVE Tried(n)'
  <2>1. \A v \in Worker : worker'[v].saw \subseteq worker[v].saw
    BY <1>15 DEF Crash, Types, Resting
  <2>2. row' = row /\ faults' = faults + 1
    BY <1>15 DEF Crash
  <2> QED
    BY <1>0, <2>1, <2>2, NotCounted DEF Choosers
<1>16. CASE UNCHANGED vars
  BY <1>1, <1>16 DEF vars
<1> QED
  BY <1>2, <1>3, <1>4, <1>5, <1>6, <1>7, <1>8, <1>9, <1>10, <1>11, <1>12, <1>13, <1>14,
     <1>15, <1>16 DEF Next, Poll, Handle

\* The bound TypeOK states follows: each worker may be late once for the limit
\* itself and once for every fault.
LEMMA TriedBound ==
    ASSUME IsFiniteSet(Worker), Types, Counted, NEW m \in Msg
    PROVE  row[m].attempts <= Cardinality(Worker) * (MaxAttempts + MaxFault)
<1> DEFINE n == Cardinality(Worker)  a == row[m].attempts  c == Cardinality(Choosers(m))
<1>1. n \in Nat /\ c \in Nat /\ (n = 0 <=> Worker = {})
  BY ChoosersFinite, FS_EmptySet DEF Choosers
<1>2. /\ a \in Nat /\ (Worker = {} => a = 0)
      /\ a + c <= MaxAttempts - 1 + n * faults + n
      /\ faults \in 0 .. MaxFault
  BY DEF Counted, Tried, Limit, Types, Row
<1>3. MaxAttempts \in Nat \ {0} /\ MaxFault \in Nat
  BY QueueAssumption
<1> HIDE DEF n, a, c
<1>4. CASE n = 0
  BY <1>1, <1>2, <1>3, <1>4 DEF a, n
<1>5. CASE n # 0
  <2>1. n * faults <= n * MaxFault
    BY <1>1, <1>2, <1>3
  <2>2. MaxAttempts - 1 + n <= n * MaxAttempts
    <3>1. (n - 1) * (MaxAttempts - 1) \in Nat
      BY <1>1, <1>3, <1>5
    <3>2. (n - 1) * (MaxAttempts - 1) = n * MaxAttempts - n - MaxAttempts + 1
      BY <1>1, <1>3
    <3> QED
      BY <1>1, <1>3, <3>1, <3>2
  <2>3. n * (MaxAttempts + MaxFault) = n * MaxAttempts + n * MaxFault
    BY <1>1, <1>3
  <2>4. n * faults \in Nat /\ n * MaxFault \in Nat /\ n * MaxAttempts \in Nat
    BY <1>1, <1>2, <1>3
  <2> DEFINE p == n * faults  q == n * MaxFault  r == n * MaxAttempts
  <2>5. a <= q + r
    <3>1. p <= q /\ MaxAttempts - 1 + n <= r /\ a + c <= MaxAttempts - 1 + p + n
      BY <1>2, <2>1, <2>2
    <3>2. p \in Nat /\ q \in Nat /\ r \in Nat
      BY <2>4
    <3> HIDE DEF p, q, r
    <3> QED
      BY <1>1, <1>2, <1>3, <3>1, <3>2
  <2> QED
    BY <2>3, <2>4, <2>5 DEF a, n
<1> QED
  BY <1>4, <1>5

LEMMA CountedInvariant == ASSUME IsFiniteSet(Worker) PROVE Spec => []Counted
<1>1. Init => Counted
  <2> SUFFICES ASSUME Init PROVE Counted
    OBVIOUS
  <2>1. faults = 0 /\ retries = 0
    BY DEF Init
  <2>2. ASSUME NEW m \in Msg PROVE Tried(m)
    <3>1. row[m].attempts = 0 /\ Choosers(m) = {}
      BY DEF Init, Choosers, Resting
    <3>2. Cardinality(Choosers(m)) = 0 /\ Cardinality(Worker) \in Nat
      BY <3>1, FS_EmptySet, FS_CardinalityType
    <3>3. Limit = MaxAttempts - 1
      BY <2>1, <3>2, QueueAssumption DEF Limit
    <3> QED
      BY <3>1, <3>2, <3>3, QueueAssumption DEF Tried
  <2> QED
    BY <2>1, <2>2, QueueAssumption DEF Counted
<1>2. Inv /\ Counted /\ [Next]_vars => Counted'
  <2> SUFFICES ASSUME Inv, Counted, [Next]_vars PROVE Counted'
    OBVIOUS
  <2>1. Base
    BY DEF Inv, Base
  <2>2. faults' \in 0 .. MaxFault /\ retries' \in 0 .. MaxRetry
    BY FaultsStep DEF Counted
  <2>3. \A m \in Msg : Tried(m)'
    BY <2>1, TriedStep
  <2> QED
    BY <2>2, <2>3 DEF Counted
<1> QED
  BY <1>1, <1>2, Invariant, PTL DEF Spec

\* A message is not tried for ever: whatever workers overlap, crash and report
\* too late, its attempts are bounded by the limit, the workers and the faults
\* (claim_next_batch, report_send_result, expire_stale).
THEOREM AttemptsBounded == ASSUME IsFiniteSet(Worker) PROVE Spec => []TypeOK
<1>1. Inv /\ Counted => TypeOK
  BY TriedBound DEF Inv, Counted, Types, TypeOK
<1> QED
  BY <1>1, Invariant, CountedInvariant, PTL
=============================================================================
