---------------------------- MODULE WhatsAppSession ----------------------------
(***************************************************************************)
(* The WhatsApp connection of one club: the operator, who asks through the *)
(* status column of whatsapp_accounts, the connector process with its      *)
(* poller, its provider objects and their sockets, and the status reports  *)
(* and saved sessions that travel back to the same row, in any order.      *)
(***************************************************************************)
EXTENDS Integers, FiniteSets, Sequences

CONSTANTS
    MaxProv,    \* providers that are made, over all processes (bound)
    MaxSock,    \* dials of a provider (bound)
    MaxTry,     \* MAX_RECONNECT_ATTEMPTS
    MaxCred,    \* pairings (bound)
    MaxFlight,  \* reports in flight at once (bound)
    MaxAsk      \* requests of the operator (bound)

ASSUME SessionAssumption ==
    {MaxProv, MaxSock, MaxTry, MaxCred, MaxFlight, MaxAsk} \subseteq Nat \ {0}

\* A provider is known by the generation it claims, a socket by its local
\* generation, credentials by the pairing that made them.
Prov == 1 .. MaxProv
Gen  == 1 .. MaxSock + 1
Cred == 1 .. MaxCred

VARIABLES
    row,     \* whatsapp_accounts of the club
    asks,    \* how often the operator asked for something
    device,  \* what WhatsApp makes of each credentials
    boot,    \* the process: "down", "restoring" or "polling"
    disk,    \* credentials in the local auth directory; 0: none
    poll,    \* "idle", "healing", or what the poller has read
    known,   \* knownConnecting holds the club
    map,     \* TenantConnectionManager's provider of the club; 0: none
    asking,  \* calls of getOrCreateProvider that wait for a generation
    claims,  \* generations claimed in the database and not yet received
    prov,    \* the provider objects
    reports, \* status reports in flight
    saves    \* sessions on their way to the row

poller == <<boot, poll, known>>
maker  == <<map, asking, claims>>
vars   == <<row, asks, device, poller, disk, maker, prov, reports, saves>>

State == {"disconnected", "qr_required", "connecting", "connected",
          "reconnecting", "logged_out", "failed"}

Socket == [gen : Gen, cred : Cred \cup {0}, at : {"new", "qr", "paired", "open"}]

\* A logout() that is not through: the socket it logs out, and how far it is.
Goodbye == [sock : {0} \cup Gen, at : {"asked", "answered", "wiped"}]

\* conn: the local generation of the connectPromise, 0 without one; sock:
\* this.socket; live: the sockets that still deliver events; left: those that a
\* logout() forgot without closing them (history); timer: the generation of the
\* reconnect timer.
Provider == [st : State, seq : Nat, gen : {0} \cup Gen, conn : {0} \cup Gen,
             sock : {0} \cup Gen, live : SUBSET Socket, left : SUBSET Gen,
             timer : {0} \cup Gen, tries : 0 .. MaxTry + 1,
             bye : BOOLEAN, byes : SUBSET Goodbye]

NewProvider == [st |-> "disconnected", seq |-> 0, gen |-> 0, conn |-> 0,
                sock |-> 0, live |-> {}, left |-> {}, timer |-> 0,
                tries |-> 0, bye |-> FALSE, byes |-> {}]

\* The connector starts; the club was never paired, or its session is stored,
\* and then the operator may have asked to disconnect meanwhile.
Init ==
    /\ \E k \in {0, 1}, st \in {"disconnected", "connected"} :
        /\ k = 0 => st = "disconnected"
        /\ row = [status |-> st, gen |-> 0, seq |-> 0, creds |-> k]
        /\ device = [j \in Cred |-> IF j = k THEN "linked" ELSE "new"]
    /\ asks = 0
    /\ boot = "down" /\ poll = "idle" /\ known = FALSE
    /\ disk = 0
    /\ map = 0 /\ asking = 0 /\ claims = {}
    /\ prov = [p \in Prov |-> NewProvider]
    /\ reports = {}
    /\ saves = {}

-----------------------------------------------------------------------------
(* BaileysProvider.                                                        *)

\* Provider p turns into q by way of the states path; setState() reports each
\* of them, and nobody waits for the reports.
SetStates(p, q, path) ==
    /\ Cardinality(reports) + Len(path) <= MaxFlight
    /\ prov' = [prov EXCEPT ![p] =
            [q EXCEPT !.st = path[Len(path)], !.seq = @ + Len(path)]]
    /\ reports' = reports \cup
            {[st |-> path[i], gen |-> p, seq |-> q.seq + i] : i \in 1 .. Len(path)}

SetState(p, q, st) == SetStates(p, q, <<st>>)

\* Mutant: the old socket is left alone.
DialsBeside(q) ==
    [q EXCEPT !.bye = FALSE, !.timer = 0, !.sock = 0, !.gen = @ + 1,
              !.conn = q.gen + 1]

\* doInitializeConnection up to the auth directory: the old socket is torn down
\* first, which waits for nothing.
Dials(q) ==
    [q EXCEPT !.bye = FALSE, !.timer = 0, !.sock = 0, !.gen = @ + 1,
              !.conn = q.gen + 1, !.live = {s \in @ : s.gen # q.sock}]

\* (Bound: a provider made after the first dials less often.)
MayDial(q) == q.gen + 2 * (row.gen - 1) < MaxSock

Dial(p, q, path) == MayDial(q) /\ SetStates(p, Dials(q), path)

\* initializeConnection(): a caller that finds an attempt under way joins it.
Initialize(p, q) ==
    IF q.conn # 0 THEN prov' = [prov EXCEPT ![p] = q] /\ UNCHANGED reports
                  ELSE Dial(p, q, <<"connecting">>)

\* The rest, after the auth directory and Baileys' version are read.
SocketMade(p) ==
    LET q == prov[p]
        s == [gen |-> q.gen, cred |-> disk, at |-> "new"]
    IN  /\ q.conn # 0
        /\ prov' = [prov EXCEPT ![p] =
                IF q.conn # q.gen THEN [q EXCEPT !.conn = 0]
                ELSE [q EXCEPT !.conn = 0, !.sock = q.gen, !.live = @ \cup {s}]]
        /\ UNCHANGED <<row, asks, device, poller, disk, maker, reports, saves>>

\* Mutant: the events of a socket that was superseded are handled.
HeardAnyway(p, s) == TRUE

\* Only the socket of the current generation is listened to.
Heard(p, s) == s.gen = prov[p].gen

Gets(q, s, at) ==
    [q EXCEPT !.live = (@ \ {s}) \cup {[s EXCEPT !.at = at]}]

Without(q, s) == [q EXCEPT !.live = @ \ {s}, !.left = @ \ {s.gen}]

\* WhatsApp offers a QR code to a device it does not know.
QrOffered(p, s) ==
    /\ s.cred = 0 /\ s.at = "new"
    /\ IF Heard(p, s) THEN SetState(p, Gets(prov[p], s, "qr"), "qr_required")
       ELSE prov' = [prov EXCEPT ![p] = Gets(@, s, "qr")] /\ UNCHANGED reports
    /\ UNCHANGED <<row, asks, device, poller, disk, maker, saves>>

\* The code is scanned: new credentials are written to the directory and sent
\* to the row.
QrScanned(p, s) ==
    /\ s.at = "qr" /\ Heard(p, s)
    /\ \E k \in Cred :
        /\ device[k] = "new" /\ \A j \in 1 .. k - 1 : device[j] # "new"
        /\ device' = [device EXCEPT ![k] = "linked"]
        /\ disk' = k
        /\ saves' = saves \cup {k}
    /\ prov' = [prov EXCEPT ![p] = Gets(@, s, "paired")]
    /\ UNCHANGED <<row, asks, poller, maker, reports>>

\* Then WhatsApp asks for a new socket (restartRequired).
PairingRestarts(p, s) ==
    /\ s.at = "paired"
    /\ LET q == Without(prov[p], s) IN
       IF Heard(p, s)
       THEN IF q.conn # 0 THEN SetState(p, q, "reconnecting")
                          ELSE Dial(p, q, <<"reconnecting", "connecting">>)
       ELSE prov' = [prov EXCEPT ![p] = q] /\ UNCHANGED reports
    /\ UNCHANGED <<row, asks, device, poller, disk, maker, saves>>

Opens(p, s) ==
    /\ s.at = "new" /\ s.cred # 0 /\ device[s.cred] = "linked"
    /\ LET q == Gets(prov[p], s, "open") IN
       IF Heard(p, s) THEN SetState(p, [q EXCEPT !.timer = 0], "connected")
       ELSE prov' = [prov EXCEPT ![p] = q] /\ UNCHANGED reports
    /\ UNCHANGED <<row, asks, device, poller, disk, maker, saves>>

\* The connection was stable long enough.
Steady(p) ==
    /\ prov[p].st = "connected" /\ prov[p].tries > 0
    /\ prov' = [prov EXCEPT ![p].tries = 0]
    /\ UNCHANGED <<row, asks, device, poller, disk, maker, reports, saves>>

Revoked(s) == s.cred # 0 /\ device[s.cred] = "revoked"

\* Mutant: every close is taken for a logout.
AnyClose(p, s) == TRUE

LoggedOut(p, s) == Revoked(s) \/ prov[p].bye

\* Mutant: the attempts are not counted against the maximum.
NeverGivesUp(q) == FALSE

GivesUp(q) == q.tries >= MaxTry

\* The socket closes: because the device was logged out, or the connection
\* is lost, and then the provider tries again a number of times.
Closes(p, s) ==
    LET q == Without(prov[p], s) IN
    /\ \/ ~Heard(p, s) /\ prov' = [prov EXCEPT ![p] = q] /\ UNCHANGED <<reports, disk>>
       \/ /\ Heard(p, s) /\ LoggedOut(p, s)
          /\ SetState(p, q, "logged_out")
          /\ disk' = 0
       \/ /\ Heard(p, s) /\ ~LoggedOut(p, s)
          /\ IF GivesUp(q)
             THEN SetState(p, [q EXCEPT !.tries = MaxTry + 1], "failed")
             ELSE SetState(p, [q EXCEPT !.tries = @ + 1, !.timer = q.gen],
                           "reconnecting")
          /\ UNCHANGED disk
    /\ UNCHANGED <<row, asks, device, poller, maker, saves>>

TimerFires(p) ==
    LET q == [prov[p] EXCEPT !.timer = 0] IN
    /\ prov[p].timer # 0
    /\ IF prov[p].timer = q.gen THEN Initialize(p, q)
       ELSE prov' = [prov EXCEPT ![p] = q] /\ UNCHANGED reports
    /\ UNCHANGED <<row, asks, device, poller, disk, maker, saves>>

\* logout() up to the answer of WhatsApp ...  (Bound: one at a time.)
LogoutBegins(p) ==
    LET q == prov[p]
        b == [sock |-> q.sock, at |-> "asked"]
    IN  /\ q.gen <= MaxSock /\ q.byes = {}
        /\ prov' = [prov EXCEPT ![p] =
                [q EXCEPT !.bye = TRUE, !.timer = 0, !.gen = @ + 1, !.byes = {b}]]

\* ... and on to the wiping of the directory.  WhatsApp revokes the device and
\* the socket is closed, or an error is ignored and leaves both as they are;
\* this.socket, perhaps a newer one by now, is forgotten in either case.
LogoutAnswered(p, b) ==
    /\ b.at = "asked"
    /\ \E closed \in {{s \in prov[p].live : s.gen = b.sock}, {}} :
        LET live == prov[p].live \ closed
            gone == {s.cred : s \in closed}
        IN  /\ device' = [k \in Cred |-> IF k \in gone THEN "revoked" ELSE device[k]]
            /\ SetState(p, [prov[p] EXCEPT !.sock = 0, !.live = live,
                                !.left = {s.gen : s \in live},
                                !.byes = {[sock |-> 0, at |-> "answered"]}],
                        "disconnected")
    /\ UNCHANGED <<row, asks, poller, disk, maker, saves>>

\* The directory is wiped; or rm() throws, perhaps half way, and disconnect()
\* rejects.
LogoutWipes(p, b) ==
    /\ b.at = "answered"
    /\ \/ disk' = 0 /\ prov' = [prov EXCEPT ![p].byes = {[b EXCEPT !.at = "wiped"]}]
       \/ disk' \in {0, disk} /\ prov' = [prov EXCEPT ![p].byes = {}]
    /\ UNCHANGED <<row, asks, device, poller, maker, reports, saves>>

\* The manager forgets the provider it has by then.
LogoutEnds(p, b) ==
    /\ b.at = "wiped"
    /\ prov' = [prov EXCEPT ![p].byes = {}]
    /\ map' = 0
    /\ UNCHANGED <<row, asks, device, poller, disk, asking, claims, reports, saves>>

-----------------------------------------------------------------------------
(* TenantConnectionManager and ConnectionRequestPoller.                    *)

\* connect(): with no provider in the map a new one is made first.
Connect ==
    IF map # 0 THEN Initialize(map, prov[map]) /\ UNCHANGED asking
    ELSE asking' = asking + 1 /\ UNCHANGED <<prov, reports>>

\* whatsapp_connector_claim_generation.
ClaimServed ==
    /\ asking > Cardinality(claims)
    /\ row.gen < MaxProv
    /\ row' = [row EXCEPT !.gen = @ + 1, !.seq = 0]
    /\ claims' = claims \cup {row.gen + 1}
    /\ UNCHANGED <<asks, device, poller, disk, map, asking, prov, reports, saves>>

ClaimReturns(p) ==
    /\ p \in claims
    /\ claims' = claims \ {p}
    /\ asking' = asking - 1
    /\ map' = p
    /\ Initialize(p, prov[p])
    /\ UNCHANGED <<row, asks, device, poller, disk, saves>>

StateOf == IF map = 0 THEN "disconnected" ELSE prov[map].st

\* recoverFailedConnections() comes first in a poll, and is waited for.
Heal ==
    /\ boot = "polling" /\ poll = "idle"
    /\ map # 0 /\ prov[map].st = "failed"
    /\ poll' = "healing"
    /\ Initialize(map, prov[map])
    /\ UNCHANGED <<row, asks, device, boot, known, disk, maker, saves>>

\* What of whatsapp_connector_list_accounts' answer the poller acts on.
Listed ==
    IF row.status = "connecting" \/ (row.status = "disconnected" /\ row.creds # 0)
    THEN row.status ELSE "other"

\* What was listed and asks for nothing is done with at once.
Asked == Listed = "disconnected" \/ (Listed = "connecting" /\ ~known)

PollRead ==
    /\ boot = "polling"
    /\ \/ poll = "idle" /\ ~(map # 0 /\ prov[map].st = "failed")
       \/ poll = "healing" /\ ~(map # 0 /\ prov[map].conn # 0)
    /\ IF Asked THEN poll' = Listed /\ UNCHANGED known
                ELSE poll' = "idle" /\ known' = (Listed = "connecting")
    /\ UNCHANGED <<row, asks, device, boot, disk, maker, prov, reports, saves>>

PollAct ==
    /\ poll \in {"connecting", "disconnected"}
    /\ poll' = "idle"
    /\ known' = (poll = "connecting")
    /\ \/ /\ poll = "connecting" /\ StateOf # "qr_required"
          /\ Connect
       \/ /\ poll = "disconnected" /\ StateOf # "disconnected"
          /\ LogoutBegins(map)
          /\ UNCHANGED <<asking, reports>>
       \/ /\ ~(poll = "connecting" /\ StateOf # "qr_required")
          /\ ~(poll = "disconnected" /\ StateOf # "disconnected")
          /\ UNCHANGED <<asking, prov, reports>>
    /\ UNCHANGED <<row, asks, device, boot, disk, map, claims, saves>>

-----------------------------------------------------------------------------
(* The process.                                                            *)

\* (Bound: followed only while another provider can be made.)
Dies ==
    /\ row.gen < MaxProv
    /\ boot' = "down" /\ poll' = "idle" /\ known' = FALSE
    /\ map' = 0 /\ asking' = 0 /\ claims' = {}
    /\ disk' = 0
    /\ UNCHANGED <<row, asks, device, saves>>

\* A container that is shut down closes its sockets first.
GracefulStop ==
    /\ boot # "down"
    /\ prov' = [p \in Prov |-> NewProvider]
    /\ IF map = 0 THEN UNCHANGED reports
       ELSE /\ Cardinality(reports) < MaxFlight
            /\ reports' = reports \cup {[st |-> "disconnected", gen |-> map,
                                         seq |-> prov[map].seq + 1]}
    /\ Dies

Crash ==
    /\ boot # "down"
    /\ prov' = [p \in Prov |-> NewProvider]
    /\ UNCHANGED reports
    /\ Dies

\* restoreAllPersistedSessions(), whatever the status in the row.
Start ==
    /\ boot = "down"
    /\ IF row.creds # 0 THEN boot' = "restoring" /\ disk' = row.creds /\ asking' = 1
       ELSE boot' = "polling" /\ UNCHANGED <<disk, asking>>
    /\ UNCHANGED <<row, asks, device, poll, known, map, claims, prov, reports, saves>>

Restored ==
    /\ boot = "restoring"
    /\ asking = 0 /\ (map # 0 => prov[map].conn = 0)
    /\ boot' = "polling"
    /\ UNCHANGED <<row, asks, device, poll, known, disk, maker, prov, reports, saves>>

-----------------------------------------------------------------------------
(* The row.                                                                *)

\* start_whatsapp_pairing and platform_retry_whatsapp_connection.  (A request
\* that repeats the status changes no row and is not counted.)
AskPairing ==
    /\ row.status # "connecting"
    /\ row' = [row EXCEPT !.status = "connecting"]
    /\ asks < MaxAsk /\ asks' = asks + 1
    /\ UNCHANGED <<device, poller, disk, maker, prov, reports, saves>>

\* disconnect_whatsapp.
AskDisconnect ==
    /\ row.status # "disconnected"
    /\ row' = [row EXCEPT !.status = "disconnected"]
    /\ asks < MaxAsk /\ asks' = asks + 1
    /\ UNCHANGED <<device, poller, disk, maker, prov, reports, saves>>

\* Mutant: no fence.
AlwaysNewer(r) == TRUE

Newer(r) == r.gen > row.gen \/ (r.gen = row.gen /\ r.seq > row.seq)

\* whatsapp_connector_report_status: only what is newer is written.
ReportArrives(r) ==
    /\ reports' = reports \ {r}
    /\ IF Newer(r)
       THEN row' = [status |-> r.st, gen |-> r.gen, seq |-> r.seq,
                    creds |-> IF r.st = "logged_out" THEN 0 ELSE row.creds]
       ELSE UNCHANGED row
    /\ UNCHANGED <<asks, device, poller, disk, maker, prov, saves>>

SaveArrives(k) ==
    /\ saves' = saves \ {k}
    /\ row' = [row EXCEPT !.creds = k]
    /\ UNCHANGED <<asks, device, poller, disk, maker, prov, reports>>

\* The phone removes the linked device.
Unlink(k) ==
    /\ device[k] = "linked"
    /\ device' = [device EXCEPT ![k] = "revoked"]
    /\ UNCHANGED <<row, asks, poller, disk, maker, prov, reports, saves>>

-----------------------------------------------------------------------------
SocketStep(p) ==
    \E s \in prov[p].live :
        \/ QrOffered(p, s) \/ QrScanned(p, s) \/ PairingRestarts(p, s)
        \/ Opens(p, s) \/ Closes(p, s)

ProviderStep(p) ==
    \/ SocketMade(p) \/ TimerFires(p) \/ ClaimReturns(p)
    \/ \E b \in prov[p].byes :
            LogoutAnswered(p, b) \/ LogoutWipes(p, b) \/ LogoutEnds(p, b)

PollerStep == Heal \/ PollRead \/ PollAct \/ ClaimServed \/ Start \/ Restored

Next ==
    \/ AskPairing \/ AskDisconnect
    \/ \E k \in Cred : Unlink(k)
    \/ \E p \in Prov : SocketStep(p) \/ ProviderStep(p) \/ Steady(p)
    \/ PollerStep
    \/ GracefulStop \/ Crash
    \/ \E r \in reports : ReportArrives(r)
    \/ \E k \in saves : SaveArrives(k)

Spec == Init /\ [][Next]_vars

-----------------------------------------------------------------------------
\* Types, and the bounds of the attempts to reconnect.
TypeOK ==
    /\ row \in [status : State, gen : 0 .. MaxProv, seq : Nat, creds : 0 .. MaxCred]
    /\ asks \in 0 .. MaxAsk
    /\ device \in [Cred -> {"new", "linked", "revoked"}]
    /\ boot \in {"down", "restoring", "polling"}
    /\ disk \in 0 .. MaxCred
    /\ poll \in {"idle", "healing", "connecting", "disconnected"}
    /\ known \in BOOLEAN
    /\ map \in 0 .. MaxProv
    /\ asking \in Nat
    /\ claims \in SUBSET Prov
    /\ prov \in [Prov -> Provider]
    /\ \A p \in Prov : prov[p].st = "reconnecting" => prov[p].tries <= MaxTry
    /\ reports \in SUBSET [st : State, gen : Prov, seq : Nat]
    /\ saves \in SUBSET Cred

\* Reports are sent and forgotten and may overtake each other, and those of an
\* earlier process may still be on their way: when all that the current
\* provider sent have arrived, the row shows its state, or a request of the
\* operator that came after it (whatsapp_connector_report_status).
StatusCatchesUp ==
    map # 0 /\ row.gen = map /\ ~(\E r \in reports : r.gen = map)
    => /\ row.seq = prov[map].seq
       /\ row.status \in {prov[map].st, "connecting", "disconnected"}

\* A provider that calls itself connected has an open socket whose events it
\* hears, whatever older sockets, timers and connect() calls did meanwhile;
\* only while a logout() waits for WhatsApp may it be without one
\* (connection.update and its generation check).
ConnectedHasSocket ==
    \A p \in Prov : prov[p].st = "connected" =>
        \/ \E s \in prov[p].live : s.gen = prov[p].gen /\ s.at = "open"
        \/ \E b \in prov[p].byes : b.at = "asked"

\* Timers, polls, pairings and restarts never make a provider keep two sockets
\* to WhatsApp, which would throw each other out (initializeConnection,
\* teardownCurrentSocket).  Only a logout() does: it forgets a socket that it
\* failed to close, or that a connect() made meanwhile, and until the manager
\* has forgotten the provider another connect() may dial beside it.
OneSocket ==
    \A p \in Prov :
        Cardinality({s \in prov[p].live : s.gen \notin prov[p].left}) <= 1

\* The stored session is erased only by the newest provider, and only after
\* WhatsApp revoked a session of the club, on the phone or because a logout()
\* asked it to: no connection that is lost and no attempt that is given up
\* erases it, and no report that comes late from an earlier provider.  (With
\* two pairings it may be the other one that was revoked: the report does not
\* say.  And a restart can lead there: the status that a stopped container
\* reports has the next poller log the club out.)
PurgedWhenRevoked ==
    [][row.creds # 0 /\ row'.creds = 0 =>
            /\ \E k \in Cred : device[k] = "revoked"
            /\ row'.gen = row.gen]_vars
=============================================================================
