------------------------ MODULE WhatsAppSessionProofs ------------------------
(***************************************************************************)
(* The safety properties of WhatsAppSession, for any number of providers,  *)
(* dials, attempts, pairings, reports in flight and requests.              *)
(*                                                                         *)
(* What a provider does depends on its own record (Sound).  Every step     *)
(* moves at most one provider, quietly or with reports (Moves).            *)
(***************************************************************************)
EXTENDS WhatsAppSession, FiniteSetTheorems, TLAPS

-----------------------------------------------------------------------------
(* A provider.                                                             *)

\* A provider knows each of its sockets, or a logout() left it; while an attempt
\* is under way it knows none; a socket that is heard has no attempt beside it
\* and is not logged out.
Dialled(q) ==
    /\ \A s, t \in q.live : s.gen = t.gen => s = t
    /\ \A s \in q.live : s.gen = q.sock \/ s.gen \in q.left
    /\ \A s \in q.live : s.gen <= q.gen
    /\ \A g \in q.left : g <= q.gen
    /\ q.conn <= q.gen
    /\ q.conn # 0 /\ q.conn = q.gen => q.sock = 0 /\ q.gen \notin q.left /\ ~q.bye
    /\ \A s \in q.live : s.gen = q.gen => q.conn = 0 /\ ~q.bye

Open(q) ==
    q.st = "connected" =>
        \/ \E s \in q.live : s.gen = q.gen /\ s.at = "open"
        \/ q.byes # {} /\ \A b \in q.byes : b.at = "asked"

Trying(q) == q.st = "reconnecting" => q.tries <= MaxTry

Sound(q) == Dialled(q) /\ Open(q) /\ Trying(q)

-----------------------------------------------------------------------------
(* The system.                                                             *)

\* Generations are claimed one after the other and used once.
Claimed ==
    /\ map <= row.gen /\ map \notin claims
    /\ \A p \in claims : p <= row.gen /\ prov[p] = NewProvider
    /\ \A p \in Prov : prov[p] # NewProvider => p <= row.gen
    /\ \A r \in reports : r.gen <= row.gen /\ r.gen \notin claims
    /\ row.gen \in claims => row.seq = 0

\* Who waits for a generation, and when nobody does.
Asking ==
    /\ Cardinality(claims) <= asking
    /\ boot = "down" => claims = {} /\ asking = 0 /\ poll = "idle"

Latest(p) == [st |-> prov[p].st, gen |-> p, seq |-> prov[p].seq]

\* The last thing the current provider said is in the row or on its way.
Current ==
    map # 0 /\ row.gen = map =>
        /\ row.seq <= prov[map].seq
        /\ \A r \in reports : r.gen = map =>
                r.seq <= prov[map].seq /\ (r.seq = prov[map].seq => r = Latest(map))
        /\ row.seq = prov[map].seq =>
                row.status \in {prov[map].st, "connecting", "disconnected"}
        /\ row.seq # prov[map].seq => Latest(map) \in reports

SomeRevoked == \E k \in Cred : device[k] = "revoked"

Reason == (\E r \in reports : r.st = "logged_out") => SomeRevoked

Inv ==
    /\ TypeOK
    /\ \A p \in Prov : Sound(prov[p])
    /\ Claimed
    /\ Asking
    /\ Current
    /\ Reason

-----------------------------------------------------------------------------
(* Steps.                                                                  *)

\* Provider p becomes q and says nothing.
Quiet(p, q) ==
    /\ prov' = [prov EXCEPT ![p] = q]
    /\ q.st = prov[p].st /\ q.seq = prov[p].seq
    /\ UNCHANGED reports

\* r is something p said on its way to q.
Told(p, q, r) ==
    /\ r \in [st : State, gen : Prov, seq : Nat]
    /\ r.gen = p
    /\ r.seq > prov[p].seq /\ r.seq <= q.seq
    /\ r.seq = q.seq => r.st = q.st
    /\ r.st = "logged_out" => q.st = "logged_out"

\* Provider p becomes q and says so.
Loud(p, q) ==
    /\ prov' = [prov EXCEPT ![p] = q]
    /\ q.seq > prov[p].seq
    /\ reports \subseteq reports'
    /\ \A r \in reports' \ reports : Told(p, q, r)
    /\ [st |-> q.st, gen |-> p, seq |-> q.seq] \in reports'

\* What a step may do to providers: one of those in use moves.
Moves(p) ==
    \E q \in Provider :
        /\ Sound(q)
        /\ \/ Quiet(p, q)
           \/ Loud(p, q) /\ (q.st = "logged_out" => SomeRevoked)

-----------------------------------------------------------------------------
(* What the parts of a provider's steps do.                                *)

LEMMA NewSound ==
    NewProvider \in Provider /\ Sound(NewProvider)
BY SessionAssumption DEF NewProvider, Provider, Sound, Dialled, Open, Trying,
   State, Gen

\* One state is set, and reported.
LEMMA OneState ==
    ASSUME TypeOK, NEW p \in Prov, NEW q \in Provider, q.seq = prov[p].seq,
           NEW st \in State, SetState(p, q, st),
           NEW k, k = q.seq + 1,
           NEW n, n = [q EXCEPT !.st = st, !.seq = k]
    PROVE  n \in Provider /\ Loud(p, n)
<1>1. /\ prov' = [prov EXCEPT ![p] = n]
      /\ reports' = reports \cup {[st |-> st, gen |-> p, seq |-> q.seq + 1]}
  <2>1. /\ Len(<<st>>) = 1
        /\ \A i \in 1 .. 1 : i = 1
    OBVIOUS
  <2> QED BY <2>1 DEF SetState, SetStates, Provider
<1>2. q.seq \in Nat /\ k \in Nat
  BY DEF Provider
<1>3. n \in Provider /\ n.st = st /\ n.seq = k
  BY <1>2 DEF Provider
<1> QED BY <1>1, <1>2, <1>3 DEF Loud, Told

\* The same with a state passed through.
LEMMA TwoStates ==
    ASSUME TypeOK, NEW p \in Prov, NEW q \in Provider, q.seq = prov[p].seq,
           SetStates(p, q, <<"reconnecting", "connecting">>),
           NEW k, k = q.seq + 2,
           NEW n, n = [q EXCEPT !.st = "connecting", !.seq = k]
    PROVE  n \in Provider /\ Loud(p, n)
<1>1. /\ prov' = [prov EXCEPT ![p] = n]
      /\ reports' = reports \cup {[st |-> "reconnecting", gen |-> p, seq |-> q.seq + 1],
                                  [st |-> "connecting", gen |-> p, seq |-> q.seq + 2]}
  <2> DEFINE path == <<"reconnecting", "connecting">>
  <2>1. /\ Len(path) = 2 /\ path[1] = "reconnecting" /\ path[2] = "connecting"
        /\ \A i : i \in 1 .. 2 <=> i = 1 \/ i = 2
    OBVIOUS
  <2>2. /\ prov' = [prov EXCEPT ![p] =
                [q EXCEPT !.st = path[Len(path)], !.seq = @ + Len(path)]]
        /\ reports' = reports \cup
                {[st |-> path[i], gen |-> p, seq |-> q.seq + i] : i \in 1 .. Len(path)}
    BY DEF SetStates
  <2> HIDE DEF path
  <2>3. {[st |-> path[i], gen |-> p, seq |-> q.seq + i] : i \in 1 .. Len(path)}
            = {[st |-> path[1], gen |-> p, seq |-> q.seq + 1],
               [st |-> path[2], gen |-> p, seq |-> q.seq + 2]}
    BY <2>1
  <2> QED BY <2>1, <2>2, <2>3 DEF Provider
<1>2. q.seq \in Nat /\ k \in Nat /\ "connecting" \in State
  BY DEF Provider, State
<1>3. n \in Provider /\ n.st = "connecting" /\ n.seq = k
  BY <1>2 DEF Provider
<1> QED BY <1>1, <1>2, <1>3 DEF Loud, Told, State

\* A new attempt tears the old socket down.
LEMMA DialDoes ==
    ASSUME TypeOK, NEW p \in Prov, p <= row.gen,
           NEW q \in Provider, q.seq = prov[p].seq, Dialled(q),
           NEW path \in {<<"connecting">>, <<"reconnecting", "connecting">>},
           Dial(p, q, path)
    PROVE  Moves(p) /\ prov'[p].seq > prov[p].seq
<1> DEFINE d == Dials(q)
<1>1. row.gen \in Nat /\ row.gen >= 1 /\ q.gen \in Nat
  <2>1. row.gen \in 0 .. MaxProv /\ q.gen \in {0} \cup Gen
    BY DEF TypeOK, Provider
  <2> QED BY <2>1, SessionAssumption DEF Prov, Gen
<1>2. MayDial(q) /\ SetStates(p, d, path)
  BY DEF Dial
<1>3. q.gen + 1 \in Gen /\ 0 \notin Gen
  BY <1>1, <1>2, SessionAssumption DEF MayDial, Gen
<1> DEFINE g == q.gen + 1
<1> HIDE DEF g
<1> DEFINE rest == {s \in q.live : s.gen # q.sock}
<1>4. /\ d \in Provider /\ d.seq = q.seq /\ d.live = rest /\ d.left = q.left
      /\ d.conn = g /\ d.gen = g /\ d.sock = 0 /\ ~d.bye
  <2>2. d = [q EXCEPT !.bye = FALSE, !.timer = 0, !.sock = 0,
                      !.gen = g, !.conn = g, !.live = rest]
    BY DEF Dials, Provider, g
  <2>3. rest \in SUBSET q.live
    OBVIOUS
  <2> HIDE DEF rest, d
  <2>4. g \in Gen
    BY <1>3 DEF g
  <2> QED BY <2>2, <2>3, <2>4 DEF Provider
<1> HIDE DEF d, rest
<1>5. \E k : LET n == [d EXCEPT !.st = "connecting", !.seq = k]
             IN  n \in Provider /\ Loud(p, n)
  <2>1. CASE path = <<"connecting">>
    <3>1. SetState(p, d, "connecting") /\ "connecting" \in State
      BY <1>2, <2>1 DEF SetState, State
    <3>2. d \in Provider /\ d.seq = prov[p].seq
      BY <1>4
    <3> DEFINE k == d.seq + 1  m == [d EXCEPT !.st = "connecting", !.seq = k]
    <3> HIDE DEF k
    <3>3. m \in Provider /\ Loud(p, m)
      <4>1. k = d.seq + 1
        BY DEF k
      <4> HIDE DEF m
      <4>2. m = [d EXCEPT !.st = "connecting", !.seq = k]
        BY DEF m
      <4> QED BY <3>1, <3>2, <4>1, <4>2, OneState
    <3> QED BY <3>3
  <2>2. CASE path = <<"reconnecting", "connecting">>
    BY <1>2, <1>4, <2>2, TwoStates
  <2> QED BY <2>1, <2>2
<1>6. PICK k : LET n == [d EXCEPT !.st = "connecting", !.seq = k]
               IN  n \in Provider /\ Loud(p, n)
  BY <1>5
<1> DEFINE n == [d EXCEPT !.st = "connecting", !.seq = k]
<1>7. Sound(n) /\ n.st = "connecting"
  <2>1. /\ n.st = "connecting" /\ n.live = rest /\ n.left = q.left /\ n.sock = 0
        /\ n.conn = q.gen + 1 /\ n.gen = q.gen + 1 /\ ~n.bye
    BY <1>4 DEF Provider, g
  <2>2. q.live \in SUBSET Socket /\ q.left \in SUBSET Gen
    BY DEF Provider
  <2>3. \A h \in Gen : h \in Nat
    BY SessionAssumption DEF Gen
  <2> HIDE DEF n
  <2>4. Dialled(n)
    BY <1>1, <2>1, <2>2, <2>3 DEF Dialled, Socket, rest
  <2> QED BY <2>1, <2>4 DEF Sound, Open, Trying
<1> HIDE DEF n
<1>8. n \in Provider /\ Loud(p, n)
  BY <1>6 DEF n
<1>9. prov'[p] = n /\ n.seq > prov[p].seq
  BY <1>8 DEF Loud, TypeOK
<1> QED BY <1>7, <1>8, <1>9 DEF Moves

\* A caller of initializeConnection() joins an attempt or starts one.
LEMMA InitializeDoes ==
    ASSUME TypeOK, NEW p \in Prov, p <= row.gen,
           NEW q \in Provider, q.seq = prov[p].seq, q.st = prov[p].st,
           Sound(q), Initialize(p, q)
    PROVE  Moves(p)
<1>1. CASE q.conn # 0
  BY <1>1 DEF Initialize, Moves, Quiet
<1>2. CASE q.conn = 0
  BY <1>2, DialDoes DEF Initialize, Sound
<1> QED BY <1>1, <1>2

\* p says one thing.
LEMMA Speaks ==
    ASSUME TypeOK, NEW p \in Prov, NEW q \in Provider, q.seq = prov[p].seq,
           NEW st \in State, SetState(p, q, st), Dialled(q),
           st = "connected" => \E s \in q.live : s.gen = q.gen /\ s.at = "open",
           st = "reconnecting" => q.tries <= MaxTry,
           st = "logged_out" => SomeRevoked
    PROVE  Moves(p)
<1> DEFINE k == q.seq + 1  n == [q EXCEPT !.st = st, !.seq = k]
<1> HIDE DEF k
<1>1. n \in Provider /\ Loud(p, n)
  BY OneState DEF k
<1>2. /\ n.st = st /\ n.live = q.live /\ n.gen = q.gen /\ n.conn = q.conn
      /\ n.bye = q.bye /\ n.tries = q.tries /\ n.sock = q.sock /\ n.left = q.left
  BY DEF Provider
<1> HIDE DEF n
<1>3. Sound(n)
  BY <1>2 DEF Sound, Dialled, Open, Trying
<1> QED BY <1>1, <1>2, <1>3 DEF Moves

\* One of its sockets is gone.
LEMMA Removed ==
    ASSUME NEW q \in Provider, Dialled(q), NEW s \in q.live,
           NEW n, n = Without(q, s)
    PROVE  /\ n \in Provider /\ Dialled(n) /\ n.live = q.live \ {s}
           /\ n.st = q.st /\ n.seq = q.seq /\ n.gen = q.gen /\ n.conn = q.conn
           /\ n.tries = q.tries /\ n.byes = q.byes /\ n.bye = q.bye
<1> DEFINE L == q.live \ {s}  G == q.left \ {s.gen}
<1>1. L \in SUBSET q.live /\ G \in SUBSET q.left
  OBVIOUS
<1>2. n = [q EXCEPT !.live = L, !.left = G]
  BY DEF Without
<1>3. \A t \in L : t.gen # s.gen
  BY DEF Dialled
<1>4. \A t \in L : t.gen = q.sock \/ t.gen \in G
  BY <1>3 DEF Dialled
<1> HIDE DEF L, G
<1>5. /\ n \in Provider /\ n.live = L /\ n.left = G /\ n.st = q.st /\ n.seq = q.seq
      /\ n.gen = q.gen /\ n.conn = q.conn /\ n.tries = q.tries /\ n.sock = q.sock
      /\ n.byes = q.byes /\ n.bye = q.bye
  BY <1>1, <1>2 DEF Provider
<1>6. Dialled(n)
  BY <1>1, <1>4, <1>5 DEF Dialled
<1> QED BY <1>5, <1>6 DEF L

\* One of its sockets is in another stage.
LEMMA Gotten ==
    ASSUME NEW q \in Provider, Dialled(q), NEW s \in q.live,
           NEW at \in {"new", "qr", "paired", "open"},
           NEW n, n = Gets(q, s, at)
    PROVE  /\ n \in Provider /\ Dialled(n) /\ q.live \ {s} \subseteq n.live
           /\ \E t \in n.live : t.gen = s.gen /\ t.at = at
           /\ n.st = q.st /\ n.seq = q.seq /\ n.gen = q.gen /\ n.conn = q.conn
           /\ n.tries = q.tries /\ n.byes = q.byes /\ n.bye = q.bye
           /\ n.left = q.left /\ n.sock = q.sock
<1> DEFINE t == [s EXCEPT !.at = at]  L == (q.live \ {s}) \cup {t}
<1>1. s \in Socket /\ q.live \in SUBSET Socket
  BY DEF Provider
<1>2. t \in Socket /\ t.gen = s.gen /\ t.at = at
  BY <1>1 DEF Socket
<1> HIDE DEF t
<1>3. /\ L \in SUBSET Socket /\ t \in L
      /\ \A u \in L : u = t \/ (u \in q.live /\ u # s)
  BY <1>1, <1>2
<1>4. n = [q EXCEPT !.live = L] /\ q.live \ {s} \subseteq L
  BY DEF Gets, t
<1> HIDE DEF L
<1>5. /\ n \in Provider /\ n.live = L /\ n.left = q.left /\ n.st = q.st
      /\ n.seq = q.seq /\ n.gen = q.gen /\ n.conn = q.conn /\ n.tries = q.tries
      /\ n.sock = q.sock /\ n.byes = q.byes /\ n.bye = q.bye
  BY <1>3, <1>4 DEF Provider
<1>6. Dialled(n)
  BY <1>2, <1>3, <1>5 DEF Dialled
<1> QED BY <1>2, <1>3, <1>4, <1>5, <1>6

-----------------------------------------------------------------------------
(* The steps of a provider.                                                *)

\* Only providers that claimed a generation do anything.
InUse(p) == p <= row.gen /\ p \notin claims

LEMMA Used ==
    ASSUME Inv, NEW p \in Prov, prov[p] # NewProvider
    PROVE  InUse(p)
BY DEF Inv, Claimed, InUse

LEMMA LiveUsed ==
    ASSUME Inv, NEW p \in Prov, NEW s \in prov[p].live
    PROVE  prov[p] \in Provider /\ Sound(prov[p]) /\ InUse(p)
<1>1. prov[p] # NewProvider
  BY DEF NewProvider
<1>2. p # 0
  BY DEF Prov
<1> QED BY <1>1, <1>2, Used DEF Inv, TypeOK

LEMMA QrOfferedMoves ==
    ASSUME Inv, NEW p \in Prov, NEW s \in prov[p].live, QrOffered(p, s)
    PROVE  Moves(p)
<1> DEFINE q == prov[p]  n == Gets(q, s, "qr")
<1>1. q \in Provider /\ Sound(q) /\ TypeOK
  BY LiveUsed DEF QrOffered, maker, Inv
<1>2. /\ n \in Provider /\ Dialled(n) /\ q.live \ {s} \subseteq n.live
      /\ n.st = q.st /\ n.seq = q.seq /\ n.gen = q.gen /\ n.tries = q.tries
      /\ n.byes = q.byes
  BY <1>1, Gotten DEF Sound
<1> HIDE DEF n
<1>3. CASE SetState(p, n, "qr_required")
  BY <1>1, <1>2, <1>3, Speaks DEF State
<1>4. CASE ~Heard(p, s) /\ prov' = [prov EXCEPT ![p] = n] /\ UNCHANGED reports
  <2>1. Sound(n)
    BY <1>1, <1>2, <1>4 DEF Sound, Open, Trying, Heard, Dialled
  <2> QED BY <1>1, <1>2, <1>4, <2>1 DEF Moves, Quiet
<1> QED BY <1>3, <1>4 DEF QrOffered, n

LEMMA QrScannedMoves ==
    ASSUME Inv, NEW p \in Prov, NEW s \in prov[p].live, QrScanned(p, s)
    PROVE  Moves(p)
<1> DEFINE q == prov[p]  n == Gets(q, s, "paired")
<1>1. q \in Provider /\ Sound(q) /\ TypeOK
  BY LiveUsed DEF QrScanned, maker, Inv
<1>2. /\ n \in Provider /\ Dialled(n) /\ q.live \ {s} \subseteq n.live
      /\ n.st = q.st /\ n.seq = q.seq /\ n.gen = q.gen /\ n.tries = q.tries
      /\ n.byes = q.byes
  BY <1>1, Gotten DEF Sound
<1> HIDE DEF n
<1>3. /\ s.at = "qr" /\ prov' = [prov EXCEPT ![p] = n] /\ UNCHANGED reports
  BY DEF QrScanned, n
<1>4. Sound(n)
  BY <1>1, <1>2, <1>3 DEF Sound, Open, Trying, Dialled
<1> QED BY <1>1, <1>2, <1>3, <1>4 DEF Moves, Quiet

LEMMA PairingRestartsMoves ==
    ASSUME Inv, NEW p \in Prov, NEW s \in prov[p].live, PairingRestarts(p, s)
    PROVE  Moves(p)
<1> DEFINE q == prov[p]  n == Without(q, s)
<1>1. q \in Provider /\ Sound(q) /\ InUse(p) /\ TypeOK
  BY LiveUsed DEF Inv
<1>2. /\ n \in Provider /\ Dialled(n) /\ n.live = q.live \ {s}
      /\ n.st = q.st /\ n.seq = q.seq /\ n.gen = q.gen /\ n.tries = q.tries
      /\ n.conn = q.conn /\ n.byes = q.byes
  BY <1>1, Removed DEF Sound
<1> HIDE DEF n
<1>3. CASE Heard(p, s)
  <2>1. n.conn = 0
    BY <1>1, <1>2, <1>3 DEF Heard, Sound, Dialled
  <2>2. Dial(p, n, <<"reconnecting", "connecting">>)
    BY <1>3, <2>1 DEF PairingRestarts, n
  <2> QED BY <1>1, <1>2, <2>2, DialDoes DEF InUse
<1>4. CASE ~Heard(p, s)
  <2>1. prov' = [prov EXCEPT ![p] = n] /\ UNCHANGED reports
    BY <1>4 DEF PairingRestarts, n
  <2>2. Sound(n)
    BY <1>1, <1>2, <1>4 DEF Sound, Open, Trying, Heard, Dialled
  <2> QED BY <1>2, <2>1, <2>2 DEF Moves, Quiet
<1> QED BY <1>3, <1>4

LEMMA OpensMoves ==
    ASSUME Inv, NEW p \in Prov, NEW s \in prov[p].live, Opens(p, s)
    PROVE  Moves(p)
<1> DEFINE q == prov[p]  n == Gets(q, s, "open")  m == [n EXCEPT !.timer = 0]
<1>1. q \in Provider /\ Sound(q) /\ TypeOK
  BY LiveUsed DEF Opens, maker, Inv
<1>2. /\ n \in Provider /\ Dialled(n) /\ q.live \ {s} \subseteq n.live
      /\ \E t \in n.live : t.gen = s.gen /\ t.at = "open"
      /\ n.st = q.st /\ n.seq = q.seq /\ n.gen = q.gen /\ n.tries = q.tries
      /\ n.byes = q.byes
  BY <1>1, Gotten DEF Sound
<1>3. Heard(p, s) \/ (prov' = [prov EXCEPT ![p] = n] /\ UNCHANGED reports)
  BY DEF Opens
<1>4. Heard(p, s) => SetState(p, m, "connected")
  BY DEF Opens
<1> HIDE DEF n
<1>5. CASE Heard(p, s)
  <2>1. /\ m \in Provider /\ m.live = n.live /\ m.gen = n.gen /\ m.seq = n.seq
        /\ m.sock = n.sock /\ m.conn = n.conn /\ m.bye = n.bye /\ m.left = n.left
    BY <1>2 DEF Provider
  <2> HIDE DEF m
  <2>2. Dialled(m)
    BY <1>2, <2>1 DEF Dialled
  <2> QED BY <1>1, <1>2, <1>4, <1>5, <2>1, <2>2, Speaks DEF State, Heard
<1>6. CASE ~Heard(p, s)
  <2>1. Sound(n)
    BY <1>1, <1>2, <1>6 DEF Sound, Open, Trying, Heard, Dialled
  <2> QED BY <1>1, <1>2, <1>3, <1>6, <2>1 DEF Moves, Quiet
<1> QED BY <1>5, <1>6

LEMMA ClosesMoves ==
    ASSUME Inv, NEW p \in Prov, NEW s \in prov[p].live, Closes(p, s)
    PROVE  Moves(p)
<1> DEFINE q == prov[p]  n == Without(q, s)
<1>1. q \in Provider /\ Sound(q) /\ TypeOK
  BY LiveUsed DEF Inv
<1>2. /\ n \in Provider /\ Dialled(n) /\ n.live = q.live \ {s}
      /\ n.st = q.st /\ n.seq = q.seq /\ n.gen = q.gen /\ n.tries = q.tries
      /\ n.conn = q.conn /\ n.byes = q.byes /\ n.bye = q.bye
  BY <1>1, Removed DEF Sound
<1>3. /\ ~Heard(p, s) => prov' = [prov EXCEPT ![p] = n] /\ UNCHANGED reports
      /\ Heard(p, s) /\ LoggedOut(p, s) => SetState(p, n, "logged_out")
      /\ Heard(p, s) /\ ~LoggedOut(p, s) =>
            IF GivesUp(n) THEN SetState(p, [n EXCEPT !.tries = MaxTry + 1], "failed")
            ELSE SetState(p, [n EXCEPT !.tries = n.tries + 1, !.timer = n.gen],
                          "reconnecting")
  BY DEF Closes
<1> HIDE DEF n
<1>4. CASE ~Heard(p, s)
  <2>1. Sound(n)
    BY <1>1, <1>2, <1>4 DEF Sound, Open, Trying, Heard, Dialled
  <2> QED BY <1>2, <1>3, <1>4, <2>1 DEF Moves, Quiet
<1>5. CASE Heard(p, s) /\ LoggedOut(p, s)
  <2>1. Revoked(s)
    BY <1>1, <1>5 DEF Heard, LoggedOut, Sound, Dialled
  <2>2. SomeRevoked
    BY <1>1, <2>1 DEF Revoked, SomeRevoked, Provider, Socket
  <2> QED BY <1>1, <1>2, <1>3, <1>5, <2>2, Speaks DEF State
<1>6. CASE Heard(p, s) /\ ~LoggedOut(p, s) /\ GivesUp(n)
  <2> DEFINE m == [n EXCEPT !.tries = MaxTry + 1]
  <2>1. MaxTry + 1 \in 0 .. MaxTry + 1
    BY SessionAssumption
  <2>2. /\ m \in Provider /\ m.live = n.live /\ m.gen = n.gen /\ m.seq = n.seq
        /\ m.conn = n.conn /\ m.bye = n.bye /\ m.left = n.left /\ m.sock = n.sock
    BY <1>2, <2>1 DEF Provider
  <2>3. SetState(p, m, "failed")
    BY <1>3, <1>6
  <2> HIDE DEF m
  <2>4. Dialled(m)
    BY <1>2, <2>2 DEF Dialled
  <2> QED BY <1>1, <1>2, <2>2, <2>3, <2>4, Speaks DEF State
<1>7. CASE Heard(p, s) /\ ~LoggedOut(p, s) /\ ~GivesUp(n)
  <2> DEFINE k == n.tries + 1  m == [n EXCEPT !.tries = k, !.timer = n.gen]
  <2>1. k \in 0 .. MaxTry + 1 /\ k <= MaxTry /\ n.gen \in {0} \cup Gen
    BY <1>2, <1>7, SessionAssumption DEF GivesUp, Provider
  <2>2. SetState(p, m, "reconnecting")
    BY <1>3, <1>7
  <2> HIDE DEF k
  <2>3. /\ m \in Provider /\ m.live = n.live /\ m.gen = n.gen /\ m.seq = n.seq
        /\ m.conn = n.conn /\ m.bye = n.bye /\ m.left = n.left /\ m.sock = n.sock
        /\ m.tries = k
    BY <1>2, <2>1 DEF Provider
  <2> HIDE DEF m
  <2>4. Dialled(m)
    BY <1>2, <2>3 DEF Dialled
  <2> QED BY <1>1, <1>2, <2>1, <2>2, <2>3, <2>4, Speaks DEF State
<1> QED BY <1>4, <1>5, <1>6, <1>7

LEMMA SteadyMoves ==
    ASSUME Inv, NEW p \in Prov, Steady(p)
    PROVE  Moves(p)
<1> DEFINE q == prov[p]  n == [q EXCEPT !.tries = 0]
<1>1. /\ q \in Provider /\ Sound(q)
      /\ q.st = "connected" /\ prov' = [prov EXCEPT ![p] = n] /\ UNCHANGED reports
  <2>1. UNCHANGED map /\ p # 0 /\ prov \in [Prov -> Provider]
    BY DEF Steady, maker, Prov, Inv, TypeOK
  <2> QED BY <2>1 DEF Steady, Inv
<1>2. /\ n \in Provider /\ n.st = q.st /\ n.seq = q.seq /\ n.gen = q.gen
      /\ n.conn = q.conn /\ n.live = q.live /\ n.bye = q.bye /\ n.left = q.left
      /\ n.byes = q.byes /\ n.sock = q.sock
  BY <1>1, SessionAssumption DEF Provider
<1> HIDE DEF n
<1>3. Sound(n)
  BY <1>1, <1>2 DEF Sound, Dialled, Open, Trying
<1> QED BY <1>1, <1>2, <1>3 DEF Moves, Quiet

LEMMA TimerFiresMoves ==
    ASSUME Inv, NEW p \in Prov, TimerFires(p)
    PROVE  Moves(p) /\ InUse(p)
<1> DEFINE q == prov[p]  n == [q EXCEPT !.timer = 0]
<1>1. /\ q \in Provider /\ Sound(q) /\ q.timer # 0 /\ TypeOK
      /\ Initialize(p, n) \/ (prov' = [prov EXCEPT ![p] = n] /\ UNCHANGED reports)
  BY DEF TimerFires, Inv, TypeOK
<1>2. InUse(p)
  BY <1>1, Used DEF NewProvider
<1>3. /\ n \in Provider /\ n.st = q.st /\ n.seq = q.seq /\ n.gen = q.gen
      /\ n.conn = q.conn /\ n.live = q.live /\ n.bye = q.bye /\ n.left = q.left
      /\ n.byes = q.byes /\ n.tries = q.tries /\ n.sock = q.sock
  BY <1>1 DEF Provider
<1> HIDE DEF n
<1>4. Sound(n)
  BY <1>1, <1>3 DEF Sound, Dialled, Open, Trying
<1>5. CASE Initialize(p, n)
  BY <1>1, <1>2, <1>3, <1>4, <1>5, InitializeDoes DEF InUse
<1>6. CASE prov' = [prov EXCEPT ![p] = n] /\ UNCHANGED reports
  <2>1. Quiet(p, n)
    BY <1>3, <1>6 DEF Quiet
  <2> QED BY <1>2, <1>3, <1>4, <2>1 DEF Moves
<1> QED BY <1>1, <1>2, <1>5, <1>6

LEMMA SocketMadeMoves ==
    ASSUME Inv, NEW p \in Prov, SocketMade(p)
    PROVE  Moves(p) /\ InUse(p)
<1> DEFINE q == prov[p]
           s == [gen |-> q.gen, cred |-> disk, at |-> "new"]
           L == q.live \cup {s}
           n == [q EXCEPT !.conn = 0]
           m == [q EXCEPT !.conn = 0, !.sock = q.gen, !.live = L]
<1>1. /\ q \in Provider /\ Sound(q) /\ q.conn # 0 /\ disk \in 0 .. MaxCred
      /\ UNCHANGED reports
  BY DEF SocketMade, Inv, TypeOK
<1>2. InUse(p)
  BY <1>1, Used DEF NewProvider
<1>3. CASE q.conn # q.gen
  <2>1. prov' = [prov EXCEPT ![p] = n]
    BY <1>3 DEF SocketMade
  <2>2. /\ n \in Provider /\ n.st = q.st /\ n.seq = q.seq /\ n.gen = q.gen
        /\ n.conn = 0 /\ n.live = q.live /\ n.bye = q.bye /\ n.left = q.left
        /\ n.byes = q.byes /\ n.tries = q.tries /\ n.sock = q.sock
    BY <1>1 DEF Provider
  <2> HIDE DEF n
  <2>3. q.gen >= 0
    BY <1>1 DEF Provider, Gen
  <2>4. Sound(n)
    BY <1>1, <2>2, <2>3 DEF Sound, Dialled, Open, Trying
  <2> QED BY <1>1, <1>2, <2>1, <2>2, <2>4 DEF Moves, Quiet
<1>4. CASE q.conn = q.gen
  <2>1. /\ q.sock = 0 /\ q.gen \notin q.left /\ ~q.bye
        /\ \A t \in q.live : t.gen # q.gen
    BY <1>1, <1>4 DEF Sound, Dialled
  <2>2. q.gen \in Gen /\ s \in Socket /\ s.gen = q.gen /\ s.at = "new"
    <3>1. q.gen \in Gen /\ disk \in Cred \cup {0}
      BY <1>1, <1>4, SessionAssumption DEF Provider, Cred
    <3> QED BY <3>1 DEF Socket
  <2>3. prov' = [prov EXCEPT ![p] = m]
    BY <1>1, <1>4 DEF SocketMade
  <2> HIDE DEF s
  <2>4. L \in SUBSET Socket
    BY <1>1, <2>2 DEF Provider
  <2>5. \A t \in L : t = s \/ t \in q.live
    OBVIOUS
  <2>6. q.live \subseteq L
    OBVIOUS
  <2> HIDE DEF L
  <2>7. /\ m \in Provider /\ m.st = q.st /\ m.seq = q.seq /\ m.gen = q.gen
        /\ m.conn = 0 /\ m.live = L /\ m.bye = q.bye /\ m.left = q.left
        /\ m.byes = q.byes /\ m.tries = q.tries /\ m.sock = q.gen
    BY <1>1, <2>2, <2>4 DEF Provider
  <2> HIDE DEF m
  <2>8. /\ q.gen \in Nat
        /\ \A t \in q.live : t.gen \in q.left
    <3>1. \A t \in q.live : t.gen # 0
      BY <1>1, SessionAssumption DEF Provider, Socket, Gen
    <3> QED BY <1>1, <2>1, <2>2, <3>1, SessionAssumption DEF Sound, Dialled, Gen
  <2>9. Dialled(m)
    BY <1>1, <2>1, <2>2, <2>5, <2>7, <2>8 DEF Sound, Dialled
  <2>10. Sound(m)
    BY <1>1, <2>6, <2>7, <2>9 DEF Sound, Open, Trying
  <2> QED BY <1>1, <1>2, <2>3, <2>7, <2>10 DEF Moves, Quiet
<1> QED BY <1>3, <1>4

LEMMA LogoutBeginsMoves ==
    ASSUME Inv, NEW p \in Prov, UNCHANGED reports, LogoutBegins(p)
    PROVE  Moves(p)
<1> DEFINE q == prov[p]  g == q.gen + 1  b == [sock |-> q.sock, at |-> "asked"]
           n == [q EXCEPT !.bye = TRUE, !.timer = 0, !.gen = g, !.byes = {b}]
<1>1. /\ q \in Provider /\ Sound(q) /\ q.gen <= MaxSock
      /\ prov' = [prov EXCEPT ![p] = n]
  BY DEF LogoutBegins, Inv, TypeOK
<1>2. q.gen \in Nat /\ g \in Gen /\ g = q.gen + 1
  BY <1>1, SessionAssumption DEF Provider, Gen
<1> HIDE DEF g
<1>3. b \in Goodbye /\ b.at = "asked"
  BY <1>1 DEF Goodbye, Provider
<1> HIDE DEF b
<1>4. /\ n \in Provider /\ n.st = q.st /\ n.seq = q.seq /\ n.gen = g
      /\ n.conn = q.conn /\ n.live = q.live /\ n.left = q.left
      /\ n.byes = {b} /\ n.tries = q.tries /\ n.sock = q.sock
  BY <1>1, <1>2, <1>3 DEF Provider
<1> HIDE DEF n
<1>5. /\ q.conn \in Nat
      /\ \A s \in q.live : s.gen \in Nat
      /\ \A h \in q.left : h \in Nat
  BY <1>1, SessionAssumption DEF Provider, Socket, Gen
<1>6. Dialled(n)
  BY <1>1, <1>2, <1>4, <1>5 DEF Sound, Dialled
<1>7. Sound(n)
  BY <1>1, <1>3, <1>4, <1>6 DEF Sound, Open, Trying
<1> QED BY <1>1, <1>4, <1>7 DEF Moves, Quiet

LEMMA LogoutAnsweredMoves ==
    ASSUME Inv, NEW p \in Prov, NEW b \in prov[p].byes, LogoutAnswered(p, b)
    PROVE  Moves(p) /\ InUse(p)
<1> DEFINE q == prov[p]
<1>1. PICK closed \in SUBSET q.live :
        SetState(p, [q EXCEPT !.sock = 0, !.live = q.live \ closed,
                        !.left = {s.gen : s \in q.live \ closed},
                        !.byes = {[sock |-> 0, at |-> "answered"]}],
                 "disconnected")
  BY DEF LogoutAnswered
<1> DEFINE L == q.live \ closed  G == {s.gen : s \in L}
           c == [sock |-> 0, at |-> "answered"]
           n == [q EXCEPT !.sock = 0, !.live = L, !.left = G, !.byes = {c}]
<1>2. q \in Provider /\ Sound(q) /\ TypeOK /\ SetState(p, n, "disconnected")
  BY <1>1 DEF Inv, TypeOK
<1>3. InUse(p)
  BY Used DEF NewProvider
<1>4. c \in Goodbye /\ L \in SUBSET q.live
  BY DEF Goodbye
<1>5. /\ G \in SUBSET Gen
      /\ \A g \in G : \E s \in q.live : g = s.gen
      /\ \A s \in L : s.gen \in G
  BY <1>2 DEF Provider, Socket
<1> HIDE DEF c, L, G
<1>6. /\ n \in Provider /\ n.seq = q.seq /\ n.gen = q.gen /\ n.conn = q.conn
      /\ n.live = L /\ n.left = G /\ n.sock = 0 /\ n.bye = q.bye
  BY <1>2, <1>4, <1>5 DEF Provider
<1> HIDE DEF n
<1>7. Dialled(n)
  BY <1>2, <1>4, <1>5, <1>6 DEF Sound, Dialled
<1> QED BY <1>2, <1>3, <1>6, <1>7, Speaks DEF State

\* The rest of a logout() touches no socket.
LEMMA LogoutGoesOnMoves ==
    ASSUME Inv, NEW p \in Prov, NEW b \in prov[p].byes,
           LogoutWipes(p, b) \/ LogoutEnds(p, b)
    PROVE  Moves(p) /\ InUse(p)
<1> DEFINE q == prov[p]
<1>1. PICK B \in {{[b EXCEPT !.at = "wiped"]}, {}} :
        /\ prov' = [prov EXCEPT ![p].byes = B] /\ b.at \in {"answered", "wiped"}
        /\ UNCHANGED reports
  BY DEF LogoutWipes, LogoutEnds
<1>2. q \in Provider /\ Sound(q) /\ b \in Goodbye
  BY DEF Inv, TypeOK, Provider
<1>3. InUse(p)
  BY Used DEF NewProvider
<1>4. B \in SUBSET Goodbye
  BY <1>2 DEF Goodbye
<1> DEFINE n == [q EXCEPT !.byes = B]
<1>5. prov' = [prov EXCEPT ![p] = n]
  BY <1>1 DEF Inv, TypeOK
<1>6. /\ n \in Provider /\ n.st = q.st /\ n.seq = q.seq /\ n.gen = q.gen
      /\ n.conn = q.conn /\ n.live = q.live /\ n.left = q.left /\ n.bye = q.bye
      /\ n.sock = q.sock /\ n.tries = q.tries /\ n.byes = B
  BY <1>2, <1>4 DEF Provider
<1> HIDE DEF n
<1>7. Open(n)
  BY <1>1, <1>2, <1>6 DEF Sound, Open
<1> QED BY <1>1, <1>2, <1>3, <1>5, <1>6, <1>7 DEF Moves, Quiet, Sound, Dialled, Trying

\* A provider that was just made dials.
LEMMA ClaimReturnsMoves ==
    ASSUME Inv, NEW p \in Prov, ClaimReturns(p)
    PROVE  Moves(p) /\ prov'[p].seq > prov[p].seq
<1>1. prov[p] = NewProvider /\ p <= row.gen /\ TypeOK
  BY DEF ClaimReturns, Inv, Claimed
<1>2. Dial(p, prov[p], <<"connecting">>)
  BY <1>1 DEF ClaimReturns, Initialize, NewProvider
<1> QED BY <1>1, <1>2, NewSound, DialDoes DEF Sound

\* The manager's provider is asked to connect.
LEMMA AskedToConnect ==
    ASSUME Inv, NEW p \in Prov, map = p, Initialize(p, prov[p])
    PROVE  Moves(p)
<1>1. /\ prov[p] \in Provider /\ Sound(prov[p]) /\ TypeOK
      /\ p <= row.gen
  <2>1. p # 0
    BY DEF Prov
  <2> QED BY <2>1 DEF Inv, TypeOK, Claimed
<1> QED BY <1>1, InitializeDoes

-----------------------------------------------------------------------------
(* What a move keeps.                                                      *)

LEMMA MoveTypes ==
    ASSUME Inv, NEW p \in Prov, Moves(p)
    PROVE  /\ prov' \in [Prov -> Provider]
           /\ reports' \in SUBSET [st : State, gen : Prov, seq : Nat]
           /\ \A o \in Prov : Sound(prov'[o])
           /\ \A o \in Prov : prov'[o].st = "reconnecting" => prov'[o].tries <= MaxTry
           /\ \A o \in Prov \ {p} : prov'[o] = prov[o]
<1>1. PICK q \in Provider :
        /\ Sound(q)
        /\ Quiet(p, q) \/ Loud(p, q)
  BY DEF Moves
<1>2. prov' = [prov EXCEPT ![p] = q] /\ prov \in [Prov -> Provider]
  BY <1>1 DEF Quiet, Loud, Inv, TypeOK
<1>3. /\ prov' \in [Prov -> Provider] /\ prov'[p] = q
      /\ \A o \in Prov \ {p} : prov'[o] = prov[o]
  BY <1>2
<1>4. \A o \in Prov : Sound(prov'[o])
  BY <1>1, <1>3 DEF Inv
<1>5. reports' \in SUBSET [st : State, gen : Prov, seq : Nat]
  BY <1>1 DEF Quiet, Loud, Told, Inv, TypeOK
<1> QED BY <1>1, <1>3, <1>4, <1>5 DEF Sound, Trying

LEMMA MoveCurrent ==
    ASSUME Inv, NEW p \in Prov, Moves(p), UNCHANGED row, map' \in {0, map, p},
           map' # map /\ map' = p => p \in claims /\ prov'[p].seq > prov[p].seq
    PROVE  Current'
<1> SUFFICES ASSUME map' # 0, row.gen = map'
             PROVE  Current'
  BY DEF Current
<1>1. PICK q \in Provider : Quiet(p, q) \/ Loud(p, q)
  BY DEF Moves
<1>2. /\ prov' = [prov EXCEPT ![p] = q] /\ prov \in [Prov -> Provider]
      /\ prov'[p] = q /\ row.seq \in Nat /\ map' \in Prov
      /\ prov[p].seq \in Nat /\ q.seq \in Nat /\ map \in 0 .. MaxProv
      /\ \A r \in reports : r \in [st : State, gen : Prov, seq : Nat]
  <2>1. prov' = [prov EXCEPT ![p] = q] /\ prov \in [Prov -> Provider]
    BY <1>1 DEF Quiet, Loud, Inv, TypeOK
  <2>2. prov'[p] = q /\ prov[p] \in Provider
    BY <2>1
  <2>3. prov[p].seq \in Nat /\ q.seq \in Nat
    BY <2>2 DEF Provider
  <2>4. /\ row.seq \in Nat /\ map \in 0 .. MaxProv
        /\ \A r \in reports : r \in [st : State, gen : Prov, seq : Nat]
    BY DEF Inv, TypeOK
  <2>5. map' \in Prov
    BY <2>4, SessionAssumption DEF Prov
  <2> QED BY <2>1, <2>2, <2>3, <2>4, <2>5
<1>3. CASE map' # p
  <2>1. map' = map /\ prov'[map] = prov[map]
    BY <1>2, <1>3
  <2>2. \A r : r.gen = map => (r \in reports' <=> r \in reports)
    BY <1>1, <1>3, <2>1 DEF Quiet, Loud, Told
  <2>3. Latest(map)' = Latest(map) /\ Latest(map).gen = map
    BY <2>1 DEF Latest
  <2> QED BY <2>1, <2>2, <2>3 DEF Inv, Current
<1>4. CASE map' = p /\ map = p
  <2>1. CASE Quiet(p, q)
    BY <1>2, <1>4, <2>1 DEF Quiet, Inv, Current, Latest
  <2>2. CASE Loud(p, q)
    <3>1. Latest(p)' = [st |-> q.st, gen |-> p, seq |-> q.seq]
      BY <1>2 DEF Latest
    <3>2. row.seq <= prov[p].seq /\ q.seq > prov[p].seq /\ Latest(p)' \in reports'
      BY <1>4, <2>2, <3>1 DEF Inv, Current, Loud
    <3>3. ASSUME NEW r \in reports', r.gen = p
          PROVE  r.seq <= q.seq /\ (r.seq = q.seq => r = Latest(p)')
      <4>1. CASE r \in reports
        <5>1. r.seq <= prov[p].seq /\ r.seq \in Nat
          BY <1>2, <1>4, <3>3, <4>1 DEF Inv, Current
        <5> QED BY <1>2, <3>2, <5>1
      <4>2. CASE r \notin reports
        BY <2>2, <3>1, <3>3, <4>2 DEF Loud, Told
      <4> QED BY <4>1, <4>2
    <3> QED BY <1>2, <1>4, <3>2, <3>3 DEF Current
  <2> QED BY <1>1, <2>1, <2>2
<1>5. CASE map' = p /\ map # p
  <2>1. p \in claims /\ q.seq > prov[p].seq
    BY <1>2, <1>5
  <2>2. Loud(p, q) /\ row.seq = 0 /\ prov[p] = NewProvider
        /\ \A r \in reports : r.gen # p
    BY <1>1, <1>2, <1>5, <2>1 DEF Quiet, Inv, Claimed
  <2>3. Latest(p)' = [st |-> q.st, gen |-> p, seq |-> q.seq]
    BY <1>2 DEF Latest
  <2>4. Latest(p)' \in reports'
    BY <2>2, <2>3 DEF Loud
  <2>5. \A r \in reports' : r.gen = p => r.seq <= q.seq /\ (r.seq = q.seq => r = Latest(p)')
    BY <2>2, <2>3 DEF Loud, Told
  <2> QED BY <1>2, <1>5, <2>1, <2>2, <2>4, <2>5 DEF Current
<1> QED BY <1>2, <1>3, <1>4, <1>5

\* A step in which a provider in use moves keeps all that is about providers,
\* reports and claims.
LEMMA MoveKeeps ==
    ASSUME Inv, NEW p \in Prov, Moves(p), UNCHANGED row, claims' \subseteq claims,
           p <= row.gen, p \notin claims', map' \in {0, map, p},
           map' # map /\ map' = p => p \in claims /\ prov'[p].seq > prov[p].seq,
           SomeRevoked => SomeRevoked'
    PROVE  /\ prov' \in [Prov -> Provider]
           /\ \A o \in Prov : prov'[o].st = "reconnecting" => prov'[o].tries <= MaxTry
           /\ reports' \in SUBSET [st : State, gen : Prov, seq : Nat]
           /\ \A o \in Prov : Sound(prov'[o])
           /\ Claimed' /\ Current' /\ Reason'
<1>1. Current'
  BY MoveCurrent
<1>3. PICK q \in Provider :
        \/ Quiet(p, q)
        \/ Loud(p, q) /\ (q.st = "logged_out" => SomeRevoked)
  BY DEF Moves
<1>4. \A r \in reports' \ reports : Told(p, q, r)
  BY <1>3 DEF Quiet, Loud
<1>5. Reason'
  BY <1>3, <1>4 DEF Told, Reason, Inv, Quiet, Loud
<1>6. Claimed'
  <2>1. map' <= row.gen /\ map' \notin claims'
    <3>1. 0 \notin claims /\ 0 <= row.gen
      BY SessionAssumption DEF Inv, TypeOK, Prov
    <3> QED BY <3>1 DEF Inv, Claimed
  <2>2. \A o \in claims' : o <= row.gen /\ prov'[o] = NewProvider
    <3>1. \A o \in claims' : o \in Prov \ {p}
      BY DEF Inv, TypeOK
    <3> QED BY <3>1, MoveTypes DEF Inv, Claimed
  <2>3. \A o \in Prov : prov'[o] # NewProvider => o <= row.gen
    BY MoveTypes DEF Inv, Claimed
  <2>4. \A r \in reports' : r.gen <= row.gen /\ r.gen \notin claims'
    BY <1>4 DEF Told, Inv, Claimed
  <2>5. row.gen \in claims' => row.seq = 0
    BY DEF Inv, Claimed
  <2> QED BY <2>1, <2>2, <2>3, <2>4, <2>5 DEF Claimed
<1> QED BY <1>1, <1>5, <1>6, MoveTypes

-----------------------------------------------------------------------------
(* Every step keeps the invariant.                                         *)

\* The types of what is not a provider, a report or a row.
Rest ==
    /\ asks \in 0 .. MaxAsk
    /\ device \in [Cred -> {"new", "linked", "revoked"}]
    /\ boot \in {"down", "restoring", "polling"}
    /\ disk \in 0 .. MaxCred
    /\ poll \in {"idle", "healing", "connecting", "disconnected"}
    /\ known \in BOOLEAN
    /\ saves \in SUBSET Cred

LEMMA InitInv == Init => Inv
<1> SUFFICES ASSUME Init PROVE Inv
  OBVIOUS
<1>1. \A p \in Prov : prov[p] = NewProvider
  BY DEF Init
<1>2. /\ prov \in [Prov -> Provider] /\ \A p \in Prov : Sound(prov[p])
      /\ \A p \in Prov : prov[p].st = "reconnecting" => prov[p].tries <= MaxTry
  BY <1>1, NewSound DEF Init, NewProvider
<1>3. PICK k \in {0, 1}, st \in {"disconnected", "connected"} :
        /\ row = [status |-> st, gen |-> 0, seq |-> 0, creds |-> k]
        /\ device = [j \in Cred |-> IF j = k THEN "linked" ELSE "new"]
  BY DEF Init
<1>4. /\ row \in [status : State, gen : 0 .. MaxProv, seq : Nat, creds : 0 .. MaxCred]
      /\ row.gen = 0 /\ row.seq = 0
  BY <1>3, SessionAssumption DEF State
<1>5. Rest
  <2>1. device \in [Cred -> {"new", "linked", "revoked"}]
    BY <1>3
  <2>2. 0 \in 0 .. MaxAsk /\ 0 \in 0 .. MaxCred
    BY SessionAssumption
  <2> QED BY <2>1, <2>2 DEF Init, Rest
<1>6. TypeOK
  BY <1>2, <1>4, <1>5, SessionAssumption DEF Init, Rest, TypeOK
<1>7. Cardinality(claims) = 0 /\ asking = 0
  BY FS_EmptySet DEF Init
<1> QED BY <1>1, <1>2, <1>4, <1>6, <1>7 DEF Init, Inv, Claimed, Asking, Current, Reason

\* A provider in use moves, and nothing is asked of the manager.
LEMMA MoveInv ==
    ASSUME Inv, NEW p \in Prov, Moves(p), InUse(p),
           UNCHANGED <<row, claims, asking>>, map' \in {0, map, p}, map' # map => map' = 0,
           Rest', boot' = boot, boot = "down" => poll' = poll,
           SomeRevoked => SomeRevoked'
    PROVE  Inv'
<1>1. /\ prov' \in [Prov -> Provider]
      /\ \A o \in Prov : prov'[o].st = "reconnecting" => prov'[o].tries <= MaxTry
      /\ reports' \in SUBSET [st : State, gen : Prov, seq : Nat]
      /\ \A o \in Prov : Sound(prov'[o])
      /\ Claimed' /\ Current' /\ Reason'
  <2>1. p # 0
    BY DEF Prov
  <2> QED BY <2>1, MoveKeeps DEF InUse
<1>2. TypeOK'
  BY <1>1, SessionAssumption DEF Inv, TypeOK, Rest
<1>3. Asking'
  BY DEF Inv, Asking
<1> QED BY <1>1, <1>2, <1>3 DEF Inv

\* The connector does nothing but read, and the row keeps what it was told.
LEMMA StillInv ==
    ASSUME Inv, UNCHANGED <<prov, reports, map, claims>>, Rest', Asking', asking' \in Nat,
           row' \in [status : State, gen : 0 .. MaxProv, seq : Nat, creds : 0 .. MaxCred],
           row'.gen = row.gen, row'.seq = row.seq,
           row'.status \in {row.status, "connecting", "disconnected"},
           SomeRevoked => SomeRevoked'
    PROVE  Inv'
<1>1. TypeOK'
  BY DEF Inv, TypeOK, Rest
<1>2. Claimed' /\ Reason'
  BY DEF Inv, Claimed, Reason
<1>3. Current'
  BY DEF Inv, Current, Latest
<1> QED BY <1>1, <1>2, <1>3 DEF Inv

LEMMA RestOf == TypeOK => Rest
BY DEF TypeOK, Rest

LEMMA AskInv ==
    ASSUME Inv, \/ AskPairing \/ AskDisconnect \/ \E k \in saves : SaveArrives(k)
    PROVE  Inv'
<1>1. TypeOK /\ Rest
  BY RestOf DEF Inv
<1>2. /\ row' \in [status : State, gen : 0 .. MaxProv, seq : Nat, creds : 0 .. MaxCred]
      /\ row'.gen = row.gen /\ row'.seq = row.seq
      /\ row'.status \in {row.status, "connecting", "disconnected"}
  <2>1. CASE AskPairing
    BY <1>1, <2>1 DEF AskPairing, TypeOK, State
  <2>2. CASE AskDisconnect
    BY <1>1, <2>2 DEF AskDisconnect, TypeOK, State
  <2>3. CASE \E k \in saves : SaveArrives(k)
    <3>1. PICK k \in Cred : row' = [row EXCEPT !.creds = k]
      BY <1>1, <2>3 DEF SaveArrives, TypeOK
    <3>2. k \in 0 .. MaxCred
      BY SessionAssumption DEF Cred
    <3> QED BY <1>1, <3>1, <3>2 DEF TypeOK
  <2> QED BY <2>1, <2>2, <2>3
<1>3. UNCHANGED <<prov, reports, map, claims, asking, device, boot, disk, poll, known>>
  BY DEF AskPairing, AskDisconnect, SaveArrives, poller, maker
<1>4. asks' \in 0 .. MaxAsk /\ saves' \in SUBSET Cred
  BY <1>1, SessionAssumption DEF Rest, AskPairing, AskDisconnect, SaveArrives
<1>5. Rest' /\ Asking' /\ asking' \in Nat
  BY <1>1, <1>3, <1>4 DEF Rest, Inv, Asking, TypeOK
<1> QED BY <1>2, <1>3, <1>5, StillInv DEF SomeRevoked

LEMMA UnlinkInv ==
    ASSUME Inv, NEW k \in Cred, Unlink(k)
    PROVE  Inv'
<1>1. TypeOK /\ Rest
  BY RestOf DEF Inv
<1>2. /\ UNCHANGED <<prov, reports, map, claims, asking, row, boot, poll>>
      /\ Rest' /\ (SomeRevoked => SomeRevoked')
  BY <1>1 DEF Unlink, Rest, SomeRevoked, poller, maker
<1>3. Asking' /\ asking' \in Nat
  BY <1>1, <1>2 DEF Inv, Asking, TypeOK
<1> QED BY <1>1, <1>2, <1>3, StillInv DEF TypeOK

LEMMA SocketStepInv ==
    ASSUME Inv, NEW p \in Prov, SocketStep(p)
    PROVE  Inv'
<1>1. PICK s \in prov[p].live :
        \/ QrOffered(p, s) \/ QrScanned(p, s) \/ PairingRestarts(p, s)
        \/ Opens(p, s) \/ Closes(p, s)
  BY DEF SocketStep
<1>2. InUse(p) /\ Rest
  BY LiveUsed, RestOf DEF Inv
<1>3. CASE QrOffered(p, s)
  <2>1. Rest' /\ UNCHANGED <<row, claims, asking, map, boot, poll, device>>
    BY <1>2, <1>3 DEF QrOffered, Rest, poller, maker
  <2> QED BY <1>2, <1>3, <2>1, QrOfferedMoves, MoveInv DEF SomeRevoked
<1>4. CASE QrScanned(p, s)
  <2>1. UNCHANGED <<row, claims, asking, map, boot, poll, known, asks>>
    BY <1>4 DEF QrScanned, poller, maker
  <2>2. PICK k \in Cred : /\ device[k] = "new"
                          /\ device' = [device EXCEPT ![k] = "linked"]
                          /\ disk' = k /\ saves' = saves \cup {k}
    BY <1>4 DEF QrScanned
  <2>3. k \in 0 .. MaxCred
    BY SessionAssumption DEF Cred
  <2>4. Rest'
    BY <1>2, <2>1, <2>2, <2>3 DEF Rest
  <2>5. SomeRevoked => SomeRevoked'
    <3> SUFFICES ASSUME NEW j \in Cred, device[j] = "revoked" PROVE device'[j] = "revoked"
      BY DEF SomeRevoked
    <3> QED BY <1>2, <2>2 DEF Rest
  <2> QED BY <1>2, <1>4, <2>1, <2>4, <2>5, QrScannedMoves, MoveInv
<1>5. CASE PairingRestarts(p, s)
  <2>1. Rest' /\ UNCHANGED <<row, claims, asking, map, boot, poll, device>>
    BY <1>2, <1>5 DEF PairingRestarts, Rest, poller, maker
  <2> QED BY <1>2, <1>5, <2>1, PairingRestartsMoves, MoveInv DEF SomeRevoked
<1>6. CASE Opens(p, s)
  <2>1. Rest' /\ UNCHANGED <<row, claims, asking, map, boot, poll, device>>
    BY <1>2, <1>6 DEF Opens, Rest, poller, maker
  <2> QED BY <1>2, <1>6, <2>1, OpensMoves, MoveInv DEF SomeRevoked
<1>7. CASE Closes(p, s)
  <2>1. 0 \in 0 .. MaxCred
    BY SessionAssumption
  <2>2. Rest' /\ UNCHANGED <<row, claims, asking, map, boot, poll, device>>
    BY <1>2, <1>7, <2>1 DEF Closes, Rest, poller, maker
  <2> QED BY <1>2, <1>7, <2>2, ClosesMoves, MoveInv DEF SomeRevoked
<1> QED BY <1>1, <1>3, <1>4, <1>5, <1>6, <1>7

LEMMA LogoutInv ==
    ASSUME Inv, NEW p \in Prov, NEW b \in prov[p].byes,
           LogoutAnswered(p, b) \/ LogoutWipes(p, b) \/ LogoutEnds(p, b)
    PROVE  Inv'
<1>1. TypeOK /\ Rest
  BY RestOf DEF Inv
<1>2. CASE LogoutAnswered(p, b)
  <2>1. UNCHANGED <<row, map, claims, asking, boot, poll, known, asks, saves, disk>>
    BY <1>2 DEF LogoutAnswered, poller, maker
  <2>2. PICK gone : device' = [k \in Cred |-> IF k \in gone THEN "revoked" ELSE device[k]]
    BY <1>2 DEF LogoutAnswered
  <2>3. Rest' /\ (SomeRevoked => SomeRevoked')
    BY <1>1, <2>1, <2>2 DEF Rest, SomeRevoked
  <2> QED BY <1>2, <2>1, <2>3, LogoutAnsweredMoves, MoveInv
<1>3. CASE LogoutWipes(p, b)
  <2>1. /\ UNCHANGED <<row, map, claims, asking, boot, poll, known, asks, saves, device>>
        /\ disk' \in {0, disk}
    BY <1>3 DEF LogoutWipes, poller, maker
  <2>2. Rest' /\ (SomeRevoked => SomeRevoked')
    BY <1>1, <2>1, SessionAssumption DEF Rest, SomeRevoked
  <2> QED BY <1>3, <2>1, <2>2, LogoutGoesOnMoves, MoveInv
<1>4. CASE LogoutEnds(p, b)
  <2>1. /\ UNCHANGED <<row, claims, asking, boot, poll, known, asks, saves, device, disk>>
        /\ map' = 0
    BY <1>4 DEF LogoutEnds, poller
  <2>2. Rest' /\ (SomeRevoked => SomeRevoked')
    BY <1>1, <2>1 DEF Rest, SomeRevoked
  <2> QED BY <1>4, <2>1, <2>2, LogoutGoesOnMoves, MoveInv
<1> QED BY <1>2, <1>3, <1>4

LEMMA ClaimReturnsInv ==
    ASSUME Inv, NEW p \in Prov, ClaimReturns(p)
    PROVE  Inv'
<1>1. TypeOK /\ Rest
  BY RestOf DEF Inv
<1>2. /\ p \in claims /\ claims' = claims \ {p} /\ asking' = asking - 1 /\ map' = p
      /\ UNCHANGED <<row, asks, device, boot, poll, known, disk, saves>>
  BY DEF ClaimReturns, poller
<1>3. p <= row.gen /\ Moves(p) /\ prov'[p].seq > prov[p].seq
  BY <1>2, ClaimReturnsMoves DEF Inv, Claimed
<1>4. /\ prov' \in [Prov -> Provider]
      /\ \A o \in Prov : prov'[o].st = "reconnecting" => prov'[o].tries <= MaxTry
      /\ reports' \in SUBSET [st : State, gen : Prov, seq : Nat]
      /\ \A o \in Prov : Sound(prov'[o])
      /\ Claimed' /\ Current' /\ Reason'
  <2>1. claims' \subseteq claims /\ p \notin claims' /\ (SomeRevoked => SomeRevoked')
    BY <1>2 DEF SomeRevoked
  <2> QED BY <1>2, <1>3, <2>1, MoveKeeps
<1>5. /\ IsFiniteSet(claims) /\ Cardinality(claims) \in Nat
      /\ Cardinality(claims') = Cardinality(claims) - 1
      /\ Cardinality(claims') \in Nat
  <2>1. IsFiniteSet(Prov)
    BY SessionAssumption, FS_Interval DEF Prov
  <2>2. IsFiniteSet(claims)
    BY <1>1, <2>1, FS_Subset DEF TypeOK
  <2> QED BY <1>2, <2>2, FS_RemoveElement, FS_CardinalityType
<1>6. asking' \in Nat /\ Asking'
  <2>1. asking \in Nat /\ Cardinality(claims) <= asking
    BY <1>1 DEF TypeOK, Inv, Asking
  <2>2. boot # "down"
    BY <1>2 DEF Inv, Asking
  <2> QED BY <1>2, <1>5, <2>1, <2>2 DEF Asking
<1>7. TypeOK'
  <2>1. map' \in 0 .. MaxProv
    BY <1>2, SessionAssumption DEF Prov
  <2> QED BY <1>1, <1>2, <1>4, <1>6, <2>1 DEF TypeOK
<1> QED BY <1>4, <1>6, <1>7 DEF Inv

LEMMA ProviderStepInv ==
    ASSUME Inv, NEW p \in Prov, ProviderStep(p) \/ Steady(p)
    PROVE  Inv'
<1>1. Rest
  BY RestOf DEF Inv
<1>2. CASE SocketMade(p)
  <2>1. Rest' /\ UNCHANGED <<row, claims, asking, map, boot, poll, device>>
    BY <1>1, <1>2 DEF SocketMade, Rest, poller, maker
  <2> QED BY <1>2, <2>1, SocketMadeMoves, MoveInv DEF SomeRevoked
<1>3. CASE TimerFires(p)
  <2>1. Rest' /\ UNCHANGED <<row, claims, asking, map, boot, poll, device>>
    BY <1>1, <1>3 DEF TimerFires, Rest, poller, maker
  <2> QED BY <1>3, <2>1, TimerFiresMoves, MoveInv DEF SomeRevoked
<1>4. CASE Steady(p)
  <2>1. Rest' /\ UNCHANGED <<row, claims, asking, map, boot, poll, device>>
    BY <1>1, <1>4 DEF Steady, Rest, poller, maker
  <2>2. InUse(p)
    BY <1>4, Used DEF Steady, NewProvider
  <2> QED BY <1>4, <2>1, <2>2, SteadyMoves, MoveInv DEF SomeRevoked
<1> QED BY <1>2, <1>3, <1>4, ClaimReturnsInv, LogoutInv DEF ProviderStep

LEMMA HealInv ==
    ASSUME Inv, Heal
    PROVE  Inv'
<1>1. TypeOK /\ Rest
  BY RestOf DEF Inv
<1>2. /\ map # 0 /\ Initialize(map, prov[map]) /\ boot = "polling" /\ poll' = "healing"
      /\ UNCHANGED <<row, asks, device, boot, known, disk, map, asking, claims, saves>>
  BY DEF Heal, maker
<1>3. map \in Prov /\ InUse(map)
  <2>1. map \in Prov
    BY <1>1, <1>2, SessionAssumption DEF TypeOK, Prov
  <2> QED BY <2>1 DEF Inv, Claimed, InUse
<1>4. Moves(map)
  BY <1>2, <1>3, AskedToConnect
<1>5. Rest' /\ (SomeRevoked => SomeRevoked')
  BY <1>1, <1>2 DEF Rest, SomeRevoked
<1> QED BY <1>2, <1>3, <1>4, <1>5, MoveInv

LEMMA PollActInv ==
    ASSUME Inv, PollAct
    PROVE  Inv'
<1>1. TypeOK /\ Rest
  BY RestOf DEF Inv
<1>2. /\ poll # "idle" /\ poll' = "idle" /\ known' \in BOOLEAN
      /\ UNCHANGED <<row, asks, device, boot, disk, map, claims, saves>>
  BY DEF PollAct
<1>3. Rest' /\ (SomeRevoked => SomeRevoked') /\ boot # "down"
  BY <1>1, <1>2 DEF Rest, SomeRevoked, Inv, Asking
<1>4. ASSUME map # 0
      PROVE  map \in Prov /\ InUse(map)
  <2>1. map \in Prov
    BY <1>1, <1>4, SessionAssumption DEF TypeOK, Prov
  <2> QED BY <2>1 DEF Inv, Claimed, InUse
<1>5. CASE map # 0 /\ Initialize(map, prov[map]) /\ UNCHANGED asking
  BY <1>2, <1>3, <1>4, <1>5, AskedToConnect, MoveInv
<1>6. CASE map # 0 /\ LogoutBegins(map) /\ UNCHANGED <<asking, reports>>
  BY <1>2, <1>3, <1>4, <1>6, LogoutBeginsMoves, MoveInv
<1>7. CASE asking' \in {asking, asking + 1} /\ UNCHANGED <<prov, reports>>
  <2>1. asking' \in Nat /\ asking' >= asking
    BY <1>1, <1>7 DEF TypeOK
  <2>2. IsFiniteSet(claims) /\ Cardinality(claims) \in Nat
    <3>1. IsFiniteSet(Prov)
      BY SessionAssumption, FS_Interval DEF Prov
    <3> QED BY <1>1, <3>1, FS_Subset, FS_CardinalityType DEF TypeOK
  <2>3. Asking'
    BY <1>1, <1>2, <1>3, <2>1, <2>2 DEF Inv, Asking, TypeOK
  <2> QED BY <1>1, <1>2, <1>3, <1>7, <2>1, <2>3, StillInv DEF TypeOK
<1>8. CASE poll = "disconnected" /\ StateOf # "disconnected"
  <2>1. map # 0 /\ poll # "connecting"
    BY <1>8 DEF StateOf
  <2> QED BY <1>6, <1>8, <2>1 DEF PollAct
<1>9. CASE ~(poll = "disconnected" /\ StateOf # "disconnected")
  BY <1>5, <1>7, <1>9 DEF PollAct, Connect
<1> QED BY <1>8, <1>9

\* What only reads, starts or ends a start.
LEMMA ReadInv ==
    ASSUME Inv, PollRead \/ Start \/ Restored
    PROVE  Inv'
<1>1. TypeOK /\ Rest
  BY RestOf DEF Inv
<1>2. /\ UNCHANGED <<row, asks, device, map, claims, prov, reports, saves>>
      /\ SomeRevoked => SomeRevoked'
  BY DEF PollRead, Start, Restored, maker, SomeRevoked
<1>3. Rest' /\ Asking' /\ asking' \in Nat
  <2>1. CASE PollRead
    <3>1. poll' \in {"idle", "connecting", "disconnected"} /\ known' \in BOOLEAN
      BY <1>1, <2>1 DEF PollRead, Asked, Listed, Rest
    <3> QED BY <1>1, <2>1, <3>1 DEF PollRead, maker, Rest, Asking, Inv, TypeOK
  <2>2. CASE Start
    <3>1. /\ boot = "down" /\ boot' \in {"restoring", "polling"}
          /\ UNCHANGED <<poll, known, claims>>
          /\ (disk' = row.creds /\ asking' = 1) \/ UNCHANGED <<disk, asking>>
      BY <2>2 DEF Start
    <3>2. claims = {} /\ Cardinality(claims) = 0 /\ asking \in Nat /\ row.creds \in 0 .. MaxCred
      BY <1>1, <3>1, FS_EmptySet DEF Inv, Asking, TypeOK
    <3>3. asking' \in Nat /\ disk' \in 0 .. MaxCred /\ 0 <= asking'
      BY <1>1, <3>1, <3>2 DEF Rest
    <3> QED BY <1>1, <1>2, <3>1, <3>2, <3>3 DEF Rest, Asking
  <2>3. CASE Restored
    BY <1>1, <2>3 DEF Restored, maker, Rest, Asking, Inv, TypeOK
  <2> QED BY <2>1, <2>2, <2>3
<1> QED BY <1>1, <1>2, <1>3, StillInv DEF TypeOK

\* The database hands out the next generation.
LEMMA ClaimServedInv ==
    ASSUME Inv, ClaimServed
    PROVE  Inv'
<1> DEFINE g == row.gen + 1
<1>1. TypeOK /\ Rest
  BY RestOf DEF Inv
<1>2. /\ asking > Cardinality(claims) /\ row.gen < MaxProv
      /\ row' = [row EXCEPT !.gen = g, !.seq = 0] /\ claims' = claims \cup {g}
      /\ UNCHANGED <<asks, device, boot, poll, known, disk, map, asking, prov,
                     reports, saves>>
  BY DEF ClaimServed, poller
<1>3. row.gen \in Nat /\ g \in Prov /\ g \in 0 .. MaxProv
      /\ g > row.gen /\ g \notin claims
  <2>1. row.gen \in 0 .. MaxProv /\ MaxProv \in Nat
    BY <1>1, SessionAssumption DEF TypeOK
  <2>2. g \in Prov /\ row.gen \in Nat /\ g > row.gen /\ g \in 0 .. MaxProv
    BY <1>2, <2>1 DEF Prov
  <2>3. g \notin claims
    BY <2>1, <2>2 DEF Inv, Claimed, Prov
  <2> QED BY <2>2, <2>3
<1> HIDE DEF g
<1>4. /\ row' \in [status : State, gen : 0 .. MaxProv, seq : Nat, creds : 0 .. MaxCred]
      /\ row'.gen = g /\ row'.seq = 0
  BY <1>1, <1>2, <1>3 DEF TypeOK
<1>5. Claimed'
  <2>1. map \in Nat /\ map <= row.gen /\ map \notin claims /\ \A p \in Prov : p \in Nat
    BY <1>1, SessionAssumption DEF Inv, Claimed, TypeOK, Prov
  <2>2. map' <= row'.gen /\ map' \notin claims'
    BY <1>2, <1>3, <1>4, <2>1
  <2>3. \A p \in claims' : p <= row'.gen /\ prov'[p] = NewProvider
    <3>1. prov[g] = NewProvider /\ g <= g
      BY <1>3, <2>1 DEF Inv, Claimed
    <3>2. \A p \in claims : p \in Nat /\ p <= row.gen /\ prov[p] = NewProvider
      BY <1>1, <2>1 DEF Inv, Claimed, TypeOK
    <3>3. \A p \in claims : p <= g
      BY <1>3, <2>1, <3>2
    <3> QED BY <1>2, <1>4, <3>1, <3>2, <3>3
  <2>4. \A p \in Prov : prov'[p] # NewProvider => p <= row'.gen
    BY <1>2, <1>3, <1>4, <2>1 DEF Inv, Claimed
  <2>5. \A r \in reports' : r.gen <= row'.gen /\ r.gen \notin claims'
    <3> SUFFICES ASSUME NEW r \in reports PROVE r.gen <= g /\ r.gen \notin claims'
      BY <1>2, <1>4
    <3>1. r.gen \in Prov
      BY <1>1 DEF TypeOK
    <3>2. r.gen \in Nat /\ r.gen <= row.gen /\ r.gen \notin claims
      BY <2>1, <3>1 DEF Inv, Claimed
    <3> QED BY <1>2, <1>3, <2>1, <3>2
  <2> QED BY <1>4, <2>2, <2>3, <2>4, <2>5 DEF Claimed
<1>6. Asking'
  <2>1. IsFiniteSet(claims) /\ Cardinality(claims) \in Nat
    <3>1. IsFiniteSet(Prov)
      BY SessionAssumption, FS_Interval DEF Prov
    <3> QED BY <1>1, <3>1, FS_Subset, FS_CardinalityType DEF TypeOK
  <2>2. Cardinality(claims') = Cardinality(claims) + 1
    BY <1>2, <1>3, <2>1, FS_AddElement
  <2>3. asking \in Nat /\ boot # "down"
    BY <1>1, <1>2, <2>1 DEF TypeOK, Inv, Asking
  <2> QED BY <1>2, <2>1, <2>2, <2>3 DEF Asking
<1>7. Current'
  BY <1>1, <1>2, <1>3, <1>4 DEF Current, Inv, Claimed, TypeOK
<1>8. TypeOK'
  BY <1>1, <1>2, <1>3, <1>4 DEF TypeOK
<1> QED BY <1>2, <1>5, <1>6, <1>7, <1>8 DEF Inv, Reason, SomeRevoked

LEMMA DiesInv ==
    ASSUME Inv, GracefulStop \/ Crash
    PROVE  Inv'
<1>1. TypeOK /\ Rest
  BY RestOf DEF Inv
<1>2. /\ prov' = [p \in Prov |-> NewProvider]
      /\ boot' = "down" /\ poll' = "idle" /\ known' = FALSE
      /\ map' = 0 /\ asking' = 0 /\ claims' = {} /\ disk' = 0
      /\ UNCHANGED <<row, asks, device, saves>>
  BY DEF GracefulStop, Crash, Dies
<1>3. \A r \in reports' \ reports :
        /\ r \in [st : State, gen : Prov, seq : Nat]
        /\ r.gen <= row.gen /\ r.st = "disconnected"
  <2>1. CASE reports' = reports
    BY <2>1
  <2>2. CASE /\ map # 0
             /\ reports' = reports \cup {[st |-> "disconnected", gen |-> map,
                                          seq |-> prov[map].seq + 1]}
    <3>1. map \in Prov /\ map <= row.gen
      BY <1>1, <2>2, SessionAssumption DEF TypeOK, Prov, Inv, Claimed
    <3>2. prov[map] \in Provider
      BY <1>1, <3>1 DEF TypeOK
    <3>3. prov[map].seq + 1 \in Nat
      BY <3>2 DEF Provider
    <3> DEFINE k == prov[map].seq + 1
    <3> HIDE DEF k
    <3>4. [st |-> "disconnected", gen |-> map, seq |-> k]
                \in [st : State, gen : Prov, seq : Nat]
      BY <3>1, <3>3 DEF k, State
    <3> QED BY <2>2, <3>1, <3>4 DEF k
  <2> QED BY <2>1, <2>2 DEF GracefulStop, Crash
<1>4. reports' \in SUBSET [st : State, gen : Prov, seq : Nat]
  BY <1>1, <1>3 DEF TypeOK
<1>5. /\ prov' \in [Prov -> Provider] /\ \A p \in Prov : Sound(prov'[p])
      /\ \A p \in Prov : prov'[p].st = "reconnecting" => prov'[p].tries <= MaxTry
  BY <1>2, NewSound DEF NewProvider
<1>6. TypeOK'
  <2>1. /\ row' = row /\ asks' = asks /\ device' = device /\ saves' = saves
        /\ 0 \in 0 .. MaxProv /\ 0 \in 0 .. MaxCred /\ {} \in SUBSET Prov
    BY <1>2, SessionAssumption
  <2>2. /\ boot' \in {"down", "restoring", "polling"} /\ known' \in BOOLEAN
        /\ poll' \in {"idle", "healing", "connecting", "disconnected"}
        /\ map' \in 0 .. MaxProv /\ asking' \in Nat
        /\ disk' \in 0 .. MaxCred /\ claims' \in SUBSET Prov
    BY <1>2, <2>1
  <2> QED BY <1>1, <1>4, <1>5, <2>1, <2>2 DEF TypeOK
<1>7. Claimed'
  <2>1. 0 <= row.gen
    BY <1>1, SessionAssumption DEF TypeOK
  <2>2. \A r \in reports' : r.gen <= row.gen
    BY <1>3 DEF Inv, Claimed
  <2> QED BY <1>2, <2>1, <2>2 DEF Claimed
<1>8. Asking'
  BY <1>2, FS_EmptySet DEF Asking
<1>9. Reason'
  <2>1. ASSUME NEW r \in reports', r.st = "logged_out"
        PROVE  r \in reports
    BY <1>3, <2>1
  <2> QED BY <1>2, <2>1 DEF Reason, SomeRevoked, Inv
<1> QED BY <1>2, <1>5, <1>6, <1>7, <1>8, <1>9 DEF Inv, Current

LEMMA ReportArrivesInv ==
    ASSUME Inv, NEW r \in reports, ReportArrives(r)
    PROVE  Inv'
<1>1. TypeOK /\ Rest /\ r \in [st : State, gen : Prov, seq : Nat]
  BY RestOf DEF Inv, TypeOK
<1>2. /\ reports' = reports \ {r}
      /\ UNCHANGED <<asks, device, boot, poll, known, disk, map, asking, claims, prov, saves>>
  BY DEF ReportArrives, poller, maker
<1>3. /\ row.gen \in Nat /\ r.gen \in Nat /\ r.gen <= row.gen /\ r.gen \notin claims
      /\ row.seq \in Nat /\ r.seq \in Nat
  BY <1>1, SessionAssumption DEF Inv, Claimed, TypeOK, Prov
<1>4. CASE ~Newer(r)
  <2>1. UNCHANGED row
    BY <1>4 DEF ReportArrives
  <2>2. TypeOK'
    BY <1>1, <1>2, <2>1 DEF TypeOK
  <2>3. Claimed' /\ Asking' /\ Reason'
    BY <1>2, <2>1 DEF Inv, Claimed, Asking, Reason, SomeRevoked
  <2>4. Current'
    <3> SUFFICES ASSUME map # 0, row.gen = map PROVE Current'
      BY <1>2, <2>1 DEF Current
    <3>1. r.gen = map => r.seq <= row.seq
      BY <1>3, <1>4 DEF Newer
    <3>2. map \in Prov
      BY <1>1, SessionAssumption DEF TypeOK, Prov
    <3>3. prov[map].seq \in Nat
      BY <1>1, <3>2 DEF TypeOK, Provider
    <3>4. row.seq # prov[map].seq => r # Latest(map)
      BY <1>3, <3>1, <3>3 DEF Inv, Current, Latest
    <3> QED BY <1>2, <2>1, <3>4 DEF Inv, Current, Latest
  <2> QED BY <1>2, <2>1, <2>2, <2>3, <2>4 DEF Inv
<1>5. CASE Newer(r)
  <2>1. /\ row' = [status |-> r.st, gen |-> r.gen, seq |-> r.seq,
                   creds |-> IF r.st = "logged_out" THEN 0 ELSE row.creds]
        /\ r.gen = row.gen /\ r.seq > row.seq
    BY <1>3, <1>5 DEF ReportArrives, Newer
  <2>2. /\ row' \in [status : State, gen : 0 .. MaxProv, seq : Nat, creds : 0 .. MaxCred]
        /\ row'.gen = row.gen /\ row'.seq = r.seq /\ row'.status = r.st
    <3>1. row.gen \in 0 .. MaxProv /\ row.creds \in 0 .. MaxCred /\ 0 \in 0 .. MaxCred
      BY <1>1, SessionAssumption DEF TypeOK
    <3> QED BY <1>1, <2>1, <3>1
  <2>3. TypeOK'
    BY <1>1, <1>2, <2>2 DEF TypeOK
  <2>4. Claimed' /\ Asking' /\ Reason'
    BY <1>2, <1>3, <2>1, <2>2 DEF Inv, Claimed, Asking, Reason, SomeRevoked
  <2>5. Current'
    <3> SUFFICES ASSUME map # 0, row.gen = map PROVE Current'
      BY <1>2, <2>2 DEF Current
    <3>1. map \in Prov
      BY <1>1, SessionAssumption DEF TypeOK, Prov
    <3>2. prov[map].seq \in Nat
      BY <1>1, <3>1 DEF TypeOK, Provider
    <3>3. r.seq <= prov[map].seq /\ (r.seq = prov[map].seq => r = Latest(map))
      BY <2>1 DEF Inv, Current
    <3>4. row.seq # prov[map].seq /\ Latest(map) \in reports
      BY <1>3, <2>1, <3>2, <3>3 DEF Inv, Current
    <3>5. Latest(map).seq = prov[map].seq /\ Latest(map).st = prov[map].st
      BY DEF Latest
    <3> QED BY <1>2, <2>2, <3>3, <3>4, <3>5 DEF Inv, Current, Latest
  <2> QED BY <1>2, <2>3, <2>4, <2>5 DEF Inv
<1> QED BY <1>4, <1>5

LEMMA InvStep == Inv /\ [Next]_vars => Inv'
<1> SUFFICES ASSUME Inv, [Next]_vars PROVE Inv'
  OBVIOUS
<1>1. CASE UNCHANGED vars
  BY <1>1 DEF vars, poller, maker, Inv, TypeOK, Claimed, Asking, Current, Latest,
     Reason, SomeRevoked
<1>2. CASE AskPairing \/ AskDisconnect \/ \E k \in saves : SaveArrives(k)
  BY <1>2, AskInv
<1>3. CASE \E k \in Cred : Unlink(k)
  BY <1>3, UnlinkInv
<1>4. CASE \E p \in Prov : SocketStep(p) \/ ProviderStep(p) \/ Steady(p)
  BY <1>4, SocketStepInv, ProviderStepInv
<1>5. CASE PollerStep
  BY <1>5, HealInv, PollActInv, ReadInv, ClaimServedInv DEF PollerStep
<1>6. CASE GracefulStop \/ Crash
  BY <1>6, DiesInv
<1>7. CASE \E r \in reports : ReportArrives(r)
  BY <1>7, ReportArrivesInv
<1> QED BY <1>1, <1>2, <1>3, <1>4, <1>5, <1>6, <1>7 DEF Next

\* The invariant the theorems follow from.
THEOREM Invariant == Spec => []Inv
BY InitInv, InvStep, PTL DEF Spec

-----------------------------------------------------------------------------
(* The theorems.                                                           *)

\* The types, and that a provider that says it reconnects is within
\* MAX_RECONNECT_ATTEMPTS.
THEOREM SessionTypes == Spec => []TypeOK
<1>1. Inv => TypeOK
  BY DEF Inv
<1> QED BY <1>1, Invariant, PTL

\* When all that the current provider reported have arrived, in whatever
\* order, the row shows its state or a later request of the operator.
THEOREM RowCatchesUp == Spec => []StatusCatchesUp
<1>1. Inv => StatusCatchesUp
  BY DEF Inv, Current, StatusCatchesUp, Latest
<1> QED BY <1>1, Invariant, PTL

\* A provider that calls itself connected has an open socket it hears.
THEOREM ConnectedMeansSocket == Spec => []ConnectedHasSocket
<1>1. Inv => ConnectedHasSocket
  BY DEF Inv, Sound, Open, ConnectedHasSocket
<1> QED BY <1>1, Invariant, PTL

\* A provider keeps one socket beside those that a logout() left.
THEOREM SingleSocket == Spec => []OneSocket
<1>1. ASSUME Inv, NEW p \in Prov
      PROVE  Cardinality({s \in prov[p].live : s.gen \notin prov[p].left}) <= 1
  <2> DEFINE own == {s \in prov[p].live : s.gen \notin prov[p].left}
  <2>1. \A s, t \in own : s = t
    BY <1>1 DEF Inv, Sound, Dialled
  <2> HIDE DEF own
  <2>2. CASE own = {}
    BY <2>2, FS_EmptySet DEF own
  <2>3. CASE own # {}
    <3>1. PICK s \in own : own = {s}
      BY <2>1, <2>3
    <3> QED BY <3>1, FS_Singleton DEF own
  <2> QED BY <2>2, <2>3
<1>2. Inv => OneSocket
  BY <1>1 DEF OneSocket
<1> QED BY <1>2, Invariant, PTL

\* The stored session is erased only by the newest provider, and when WhatsApp
\* has revoked one.
THEOREM PurgedOnlyIfRevoked == Spec => PurgedWhenRevoked
<1>1. ASSUME Inv, [Next]_vars, row.creds # 0, row'.creds = 0
      PROVE  SomeRevoked /\ row'.gen = row.gen
  <2>1. ASSUME NEW r \in reports, ReportArrives(r)
        PROVE  SomeRevoked /\ row'.gen = row.gen
    <3>1. /\ Newer(r) /\ r.st = "logged_out" /\ row'.gen = r.gen
      BY <1>1, <2>1 DEF ReportArrives
    <3>2. r.gen <= row.gen /\ r.gen \in Nat /\ row.gen \in Nat
      BY <1>1, SessionAssumption DEF Inv, Claimed, TypeOK, Prov
    <3>3. r.gen = row.gen
      BY <3>1, <3>2 DEF Newer
    <3> QED BY <1>1, <3>1, <3>3 DEF Inv, Reason
  <2>2. row' # row
    BY <1>1
  <2>3. row \in [status : State, gen : 0 .. MaxProv, seq : Nat, creds : 0 .. MaxCred]
    BY <1>1 DEF Inv, TypeOK
  <2>4. ~AskPairing /\ ~AskDisconnect /\ ~ClaimServed
    BY <1>1, <2>3 DEF AskPairing, AskDisconnect, ClaimServed
  <2>5. \A k \in saves : ~SaveArrives(k)
    <3> SUFFICES ASSUME NEW k \in saves, SaveArrives(k) PROVE FALSE
      OBVIOUS
    <3>1. row'.creds = k
      BY <2>3 DEF SaveArrives
    <3>2. k # 0
      BY <1>1, SessionAssumption DEF Inv, TypeOK, Cred
    <3> QED BY <1>1, <3>1, <3>2
  <2>6. ~(Heal \/ PollRead \/ PollAct \/ Start \/ Restored)
    BY <2>2 DEF Heal, PollRead, PollAct, Start, Restored
  <2>7. \A p \in Prov : ~SocketStep(p)
    BY <2>2 DEF SocketStep, QrOffered, QrScanned, PairingRestarts, Opens, Closes
  <2>8. \A p \in Prov : ~ProviderStep(p) /\ ~Steady(p)
    BY <2>2 DEF ProviderStep, SocketMade, TimerFires, ClaimReturns, LogoutAnswered,
       LogoutWipes, LogoutEnds, Steady
  <2>9. ~(GracefulStop \/ Crash) /\ \A k \in Cred : ~Unlink(k)
    BY <2>2 DEF GracefulStop, Crash, Dies, Unlink
  <2>10. ~(UNCHANGED vars)
    BY <2>2 DEF vars
  <2> QED BY <1>1, <2>1, <2>4, <2>5, <2>6, <2>7, <2>8, <2>9, <2>10 DEF Next, PollerStep
<1>2. Inv /\ [Next]_vars =>
        [row.creds # 0 /\ row'.creds = 0 =>
            /\ \E k \in Cred : device[k] = "revoked"
            /\ row'.gen = row.gen]_vars
  BY <1>1 DEF SomeRevoked
<1> QED BY <1>2, Invariant, PTL DEF Spec, PurgedWhenRevoked
=============================================================================
