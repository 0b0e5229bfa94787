--------------------------- MODULE AuditChainProofs ---------------------------
(***************************************************************************)
(* Proofs about the audit chain, for any number of transactions and rows:  *)
(* no committed row follows one that was rolled back, and a log written    *)
(* one transaction after the other verifies.                               *)
(***************************************************************************)
EXTENDS AuditChain, WellFoundedInduction, TLAPS

TxState(S) ==
    [pc : {"idle", "numbered", "open"}, n : Nat, rows : SUBSET S]

\* The transactions have their fields, a number to use once the sequence gave
\* one, and rows only while they run.
Shape ==
    /\ \E S : tx \in [Writer -> TxState(S)]
    /\ \A w \in Writer :
        /\ tx[w].pc = "idle" => tx[w].rows = {}
        /\ tx[w].pc = "numbered" => tx[w].n # 0

\* Every row in R follows the genesis constant or a row in R.
Resolved(R) == \A r \in R : r.previous = Genesis \/ \E q \in R : q.hash = r.previous

\* No committed row, and no row a transaction has written, hangs on one that
\* may still be rolled back.
Linked ==
    /\ Resolved(log)
    /\ \A w \in Writer : Resolved(SeenBy(w))

-----------------------------------------------------------------------------
\* Among numbered rows there is a last one.
LEMMA LastExists ==
    ASSUME NEW R, R # {}, NEW k \in Nat, \A r \in R : r.n \in 1 .. k
    PROVE  \E r \in R : \A q \in R : q.n <= r.n
<1> DEFINE Gap == {m \in Nat : \E r \in R : m = k - r.n}
<1> DEFINE Less == {p \in Nat \X Nat : p[1] < p[2]}
<1>1. IsWellFoundedOn(Less, Nat)
  <2>1. Less = OpToRel(<, Nat)
    BY Zenon DEF OpToRel
  <2> QED BY <2>1, NatLessThanWellFounded, Zenon
<1>2. Gap \subseteq Nat /\ Gap # {}
  <2>1. PICK r \in R : TRUE
    OBVIOUS
  <2>2. k - r.n \in Gap
    BY <2>1
  <2> QED BY <2>2
<1>3. PICK m \in Gap : \A d \in Gap : ~(<<d, m>> \in Less)
  <2> HIDE DEF Gap, Less
  <2> QED BY <1>1, <1>2, WFMin
<1>4. PICK r \in R : m = k - r.n
    BY <1>3
<1>5. ASSUME NEW q \in R PROVE q.n <= r.n
  <2>1. k - q.n \in Gap /\ q.n \in Nat /\ r.n \in Nat
    BY <1>5
  <2>2. ~(k - q.n < m)
    BY <1>3, <2>1
  <2> QED BY <1>4, <2>1, <2>2
<1> QED BY <1>5

\* The trigger chains a row to one of those it sees, if it sees any.
LEMMA FollowsOne ==
    ASSUME NEW R, NEW k \in Nat, \A r \in R : r.n \in 1 .. k
    PROVE  LastHash(R) = Genesis \/ \E q \in R : q.hash = LastHash(R)
<1>1. CASE R = {}
    BY <1>1 DEF LastHash
<1>2. CASE R # {}
  <2>1. \E r \in R : \A q \in R : q.n <= r.n
    BY <1>2, LastExists
  <2> QED BY <1>2, <2>1 DEF LastHash
<1> QED BY <1>1, <1>2

-----------------------------------------------------------------------------
\* At first no transaction runs.
LEMMA ChainInit == Init => TypeOK /\ Shape /\ Linked
<1> SUFFICES ASSUME Init PROVE TypeOK /\ Shape /\ Linked
    OBVIOUS
<1>1. tx \in [Writer -> TxState({})]
    BY DEF Init, Quiet, TxState
<1> QED BY <1>1, MaxAssumption
        DEF Init, TypeOK, Shape, Linked, Resolved, SeenBy, Quiet

\* What a step of one transaction leaves of the others.
LEMMA OneMoves ==
    ASSUME Shape, NEW w \in Writer,
           NextVal(w) \/ ChainRow(w) \/ Commit(w) \/ Rollback(w)
    PROVE  \A v \in Writer \ {w} : tx'[v] = tx[v]
BY DEF Shape, NextVal, ChainRow, Commit, Rollback

\* The sequence gives a number.
LEMMA NextValDoes ==
    ASSUME Shape, TypeOK, NEW w \in Writer, NextVal(w)
    PROVE  /\ Shape'
           /\ TypeOK'
           /\ tx'[w].pc = "numbered"
           /\ tx'[w].n = number + 1
           /\ tx'[w].rows = tx[w].rows
<1>1. PICK S : tx \in [Writer -> TxState(S)]
    BY DEF Shape
<1>2. /\ number \in Nat
      /\ number' = number + 1
      /\ number' \in 0 .. MaxNumber
      /\ UNCHANGED log
      /\ serial' \in BOOLEAN
    BY MaxAssumption DEF NextVal, TypeOK
<1>3. /\ tx' \in [Writer -> TxState(S)]
      /\ tx'[w].pc = "numbered"
      /\ tx'[w].n = number + 1
      /\ tx'[w].rows = tx[w].rows
  <2>1. tx' = [tx EXCEPT ![w].pc = "numbered", ![w].n = number + 1]
    BY DEF NextVal
  <2>2. tx[w] \in TxState(S)
    BY <1>1
  <2>3. tx'[w] = [tx[w] EXCEPT !.pc = "numbered", !.n = number + 1]
    BY <1>1, <2>1
  <2>4. /\ tx'[w] \in TxState(S)
        /\ tx'[w].pc = "numbered"
        /\ tx'[w].n = number + 1
        /\ tx'[w].rows = tx[w].rows
    <3>1. number + 1 \in Nat
      BY <1>2
    <3> QED BY <2>2, <2>3, <3>1 DEF TxState
  <2>5. tx' \in [Writer -> TxState(S)]
    BY <1>1, <2>1, <2>4
  <2> QED BY <2>4, <2>5
<1>4. Shape'
    BY <1>2, <1>3, OneMoves DEF Shape
<1>5. TypeOK'
    BY <1>2, <1>3, OneMoves, MaxAssumption DEF TypeOK
<1> QED BY <1>3, <1>4, <1>5

\* The trigger chains the new row.
LEMMA ChainRowDoes ==
    ASSUME Shape, TypeOK, NEW w \in Writer, ChainRow(w)
    PROVE  /\ Shape'
           /\ TypeOK'
           /\ tx'[w].pc = "open"
           /\ tx'[w].rows =
                tx[w].rows \cup {Row(LastHash(SeenBy(w)), tx[w].n)}
           /\ UNCHANGED <<number, log, serial>>
<1> DEFINE new == Row(LastHash(SeenBy(w)), tx[w].n)
<1>1. PICK S : tx \in [Writer -> TxState(S)]
    BY DEF Shape
<1>2. /\ tx[w].pc = "numbered"
      /\ UNCHANGED <<number, log, serial>>
      /\ tx' = [tx EXCEPT ![w].pc = "open", ![w].rows = @ \cup {new}]
    BY DEF ChainRow, Preceding
<1>3. new.n = tx[w].n /\ tx[w].n \in 1 .. number
    BY <1>2, MaxAssumption DEF Row, Shape, TypeOK
<1> HIDE DEF new
<1>4. /\ tx' \in [Writer -> TxState(S \cup {new})]
      /\ tx'[w].pc = "open"
      /\ tx'[w].n = tx[w].n
      /\ tx'[w].rows = tx[w].rows \cup {new}
    BY <1>1, <1>2 DEF TxState
<1>5. Shape'
    BY <1>4, OneMoves DEF Shape
<1>6. TypeOK'
    BY <1>2, <1>3, <1>4, OneMoves DEF TypeOK
<1> QED BY <1>2, <1>4, <1>5, <1>6 DEF new

\* A transaction ends, with or without its rows.
LEMMA EndDoes ==
    ASSUME Shape, TypeOK, NEW w \in Writer, Commit(w) \/ Rollback(w)
    PROVE  Shape' /\ TypeOK' /\ tx'[w] = Quiet
<1>1. PICK S : tx \in [Writer -> TxState(S)]
    BY DEF Shape
<1>2. /\ number' = number
      /\ log' \in {log, log \cup tx[w].rows}
      /\ serial' \in BOOLEAN
    BY DEF Commit, Rollback, TypeOK
<1>3. tx' \in [Writer -> TxState(S)] /\ tx'[w] = Quiet
    BY <1>1 DEF Commit, Rollback, TxState, Quiet
<1>4. Shape'
    BY <1>3, OneMoves DEF Shape, Quiet
<1>5. TypeOK'
    BY <1>2, <1>3, OneMoves, MaxAssumption DEF TypeOK, Quiet
<1> QED BY <1>3, <1>4, <1>5

\* Every step keeps the types.
LEMMA TypeStep ==
    ASSUME TypeOK, Shape, [Next]_vars
    PROVE  TypeOK' /\ Shape'
<1>1. CASE UNCHANGED vars
    BY <1>1 DEF vars, TypeOK, Shape
<1> QED BY <1>1, NextValDoes, ChainRowDoes, EndDoes DEF Next

\* Numbers and rows keep their types, whoever runs and whoever is rolled back
\* (_chain_audit_log_row:233-245).
THEOREM ChainTypes == Spec => []TypeOK
<1>1. Init => TypeOK /\ Shape
    BY ChainInit
<1>2. TypeOK /\ Shape /\ [Next]_vars => (TypeOK /\ Shape)'
    BY TypeStep
<1> QED BY <1>1, <1>2, PTL DEF Spec

-----------------------------------------------------------------------------
\* Every step keeps the rows linked.
LEMMA LinkedStep ==
    ASSUME TypeOK, Shape, Linked, [Next]_vars
    PROVE  Linked'
<1>1. ASSUME NEW w \in Writer, NextVal(w) PROVE Linked'
  <2>1. UNCHANGED log /\ \A v \in Writer : tx'[v].rows = tx[v].rows
    BY <1>1, NextValDoes, OneMoves DEF NextVal
  <2> QED BY <2>1 DEF Linked, Resolved, SeenBy
<1>2. ASSUME NEW w \in Writer, ChainRow(w) PROVE Linked'
  <2> DEFINE new == Row(LastHash(SeenBy(w)), tx[w].n)
  <2>1. /\ UNCHANGED log
        /\ tx'[w].rows = tx[w].rows \cup {new}
        /\ \A v \in Writer \ {w} : tx'[v] = tx[v]
    BY <1>2, ChainRowDoes, OneMoves
  <2>2. new.previous = Genesis \/ \E q \in SeenBy(w) : q.hash = new.previous
    <3>1. \A r \in SeenBy(w) : r.n \in 1 .. number
      BY DEF TypeOK, SeenBy
    <3>2. number \in Nat
      BY DEF TypeOK
    <3> QED BY <3>1, <3>2, FollowsOne DEF Row
  <2> HIDE DEF new
  <2>3. SeenBy(w)' = SeenBy(w) \cup {new}
    BY <2>1 DEF SeenBy
  <2>4. Resolved(SeenBy(w)')
    BY <2>2, <2>3 DEF Linked, Resolved
  <2> QED BY <2>1, <2>4 DEF Linked, Resolved, SeenBy
<1>3. ASSUME NEW w \in Writer, Commit(w) PROVE Linked'
  <2>1. /\ log' = SeenBy(w)
        /\ tx'[w].rows = {}
        /\ \A v \in Writer \ {w} : tx'[v] = tx[v]
    <3>1. tx'[w] = Quiet /\ \A v \in Writer \ {w} : tx'[v] = tx[v]
      BY <1>3, EndDoes, OneMoves
    <3>2. Quiet.rows = {} /\ Quiet.pc = "idle"
      BY DEF Quiet
    <3>3. /\ tx[w].pc = "open"
          /\ log' = SeenBy(w)
          /\ UNCHANGED <<number, serial>>
      BY <1>3 DEF Commit, SeenBy
    <3> QED BY <3>1, <3>2, <3>3
  <2>2. \A v \in Writer : SeenBy(v)' \in {log', log' \cup SeenBy(v)}
    BY <2>1 DEF SeenBy
  <2> QED BY <2>1, <2>2 DEF Linked, Resolved
<1>4. ASSUME NEW w \in Writer, Rollback(w) PROVE Linked'
  <2>1. /\ UNCHANGED log
        /\ tx'[w].rows = {}
        /\ \A v \in Writer \ {w} : tx'[v] = tx[v]
    <3>1. tx'[w] = Quiet /\ \A v \in Writer \ {w} : tx'[v] = tx[v]
      BY <1>4, EndDoes, OneMoves
    <3> QED BY <1>4, <3>1 DEF Rollback, Quiet
  <2>2. \A v \in Writer : SeenBy(v)' \in {log, SeenBy(v)}
    BY <2>1 DEF SeenBy
  <2> QED BY <2>1, <2>2 DEF Linked, Resolved
<1>5. CASE UNCHANGED vars
    BY <1>5 DEF vars, Linked, Resolved, SeenBy
<1> QED BY <1>1, <1>2, <1>3, <1>4, <1>5 DEF Next

\* Every committed row follows the genesis constant or a committed row,
\* however many transactions write at once and are rolled back
\* (_chain_audit_log_row:233-245).
THEOREM RowsResolve == Spec => []LinksResolve
<1>1. Init => TypeOK /\ Shape /\ Linked
    BY ChainInit
<1>2. TypeOK /\ Shape /\ Linked /\ [Next]_vars => (TypeOK /\ Shape /\ Linked)'
    BY TypeStep, LinkedStep
<1>3. Linked => LinksResolve
    BY DEF Linked, Resolved, LinksResolve
<1> QED BY <1>1, <1>2, <1>3, PTL DEF Spec

-----------------------------------------------------------------------------
(* A log that one transaction after the other has written.                 *)

\* The rows of R below number n.
Under(R, n) == {q \in R : q.n < n}

\* R verifies: its rows are numbered without a gap, each once, and each is
\* hashed with the hash of the row before it.
Verified(R) ==
    /\ \A r \in R :
        /\ r.n \in Nat \ {0}
        /\ r.hash = RowHash(r.previous, r.n)
        /\ r.previous = LastHash(Under(R, r.n))
        /\ \A n \in 1 .. r.n - 1 : \E q \in R : q.n = n
    /\ \A r, q \in R : r.n = q.n => r = q

\* R has the numbers up to k and no others.
UpTo(R, k) ==
    /\ \A r \in R : r.n <= k
    /\ \A n \in 1 .. k : \E r \in R : r.n = n

\* As long as nothing has overlapped or been rolled back: one transaction
\* runs at most, and what it sees verifies and has every number but its own.
InTurn ==
    serial =>
        /\ \A v, w \in Writer :
                tx[v].pc # "idle" /\ tx[w].pc # "idle" => v = w
        /\ Verified(log)
        /\ (\A w \in Writer : tx[w].pc = "idle") => UpTo(log, number)
        /\ \A w \in Writer :
            /\ tx[w].pc # "idle" => Verified(SeenBy(w))
            /\ tx[w].pc = "open" => UpTo(SeenBy(w), number)
            /\ tx[w].pc = "numbered" => /\ tx[w].n = number
                                        /\ UpTo(SeenBy(w), number - 1)

\* A row with the next number and the last hash may be added.
LEMMA AddedVerifies ==
    ASSUME NEW R, Verified(R), NEW k \in Nat, UpTo(R, k)
    PROVE  LET S == R \cup {Row(LastHash(R), k + 1)}
           IN  Verified(S) /\ UpTo(S, k + 1)
<1> DEFINE new == Row(LastHash(R), k + 1)
<1> DEFINE S == R \cup {new}
<1>1. /\ new.n = k + 1
      /\ new.previous = LastHash(R)
      /\ new.hash = RowHash(new.previous, new.n)
    BY DEF Row
<1> HIDE DEF new
<1>2. \A r \in R : r.n \in 1 .. k
    BY DEF Verified, UpTo
<1>3. \A r \in R : Under(S, r.n) = Under(R, r.n)
    BY <1>1, <1>2 DEF Under
<1>4. Under(S, new.n) = R
    BY <1>1, <1>2 DEF Under
<1>5. UpTo(S, k + 1)
    BY <1>1, <1>2 DEF UpTo
<1>6. ASSUME NEW r \in S
      PROVE  /\ r.n \in Nat \ {0}
             /\ r.hash = RowHash(r.previous, r.n)
             /\ r.previous = LastHash(Under(S, r.n))
             /\ \A n \in 1 .. r.n - 1 : \E q \in S : q.n = n
  <2>1. CASE r \in R
    BY <1>3, <2>1 DEF Verified
  <2>2. CASE r = new
    BY <1>1, <1>4, <2>2 DEF UpTo
  <2> QED BY <2>1, <2>2
<1>7. \A r, q \in S : r.n = q.n => r = q
    BY <1>1, <1>2 DEF Verified
<1>8. Verified(S)
  <2> HIDE DEF S
  <2> QED BY <1>6, <1>7 DEF Verified
<1> QED BY <1>5, <1>8 DEF new

\* Every step keeps the turns.
LEMMA InTurnStep ==
    ASSUME TypeOK, Shape, InTurn, [Next]_vars
    PROVE  InTurn'
<1> SUFFICES ASSUME serial' PROVE InTurn'
    BY DEF InTurn
<1>1. ASSUME NEW w \in Writer, NextVal(w) PROVE InTurn'
  <2>1. /\ serial
        /\ \A v \in Writer \ {w} : tx[v].pc = "idle"
        /\ UNCHANGED log
        /\ number' = number + 1
        /\ tx[w].pc \in {"idle", "open"}
    BY <1>1 DEF NextVal, TypeOK
  <2>2. /\ tx'[w].pc = "numbered"
        /\ tx'[w].n = number'
        /\ SeenBy(w)' = SeenBy(w)
        /\ \A v \in Writer \ {w} : tx'[v] = tx[v]
    BY <1>1, <2>1, NextValDoes, OneMoves DEF SeenBy
  <2>3. Verified(SeenBy(w)) /\ UpTo(SeenBy(w), number)
    <3>1. CASE tx[w].pc = "idle"
      <4>1. SeenBy(w) = log
        BY <3>1 DEF Shape, SeenBy
      <4> QED BY <2>1, <3>1, <4>1 DEF InTurn
    <3>2. CASE tx[w].pc = "open"
      BY <2>1, <3>2 DEF InTurn
    <3> QED BY <2>1, <3>1, <3>2
  <2>4. number' - 1 = number
    BY <2>1 DEF TypeOK
  <2>5. Verified(log)'
    BY <2>1 DEF InTurn
  <2>6. Verified(SeenBy(w))' /\ UpTo(SeenBy(w)', number' - 1)
    BY <2>2, <2>3, <2>4
  <2> QED BY <2>1, <2>2, <2>5, <2>6 DEF InTurn
<1>2. ASSUME NEW w \in Writer, ChainRow(w) PROVE InTurn'
  <2>1. /\ tx[w].pc = "numbered"
        /\ tx'[w].pc = "open"
        /\ tx'[w].rows = tx[w].rows \cup {Row(LastHash(SeenBy(w)), tx[w].n)}
        /\ UNCHANGED <<number, log, serial>>
        /\ \A v \in Writer \ {w} : tx'[v] = tx[v]
    BY <1>2, ChainRowDoes, OneMoves DEF ChainRow
  <2>2. /\ tx[w].n = number
        /\ Verified(SeenBy(w))
        /\ UpTo(SeenBy(w), number - 1)
        /\ \A v \in Writer \ {w} : tx[v].pc = "idle"
        /\ Verified(log)
    BY <2>1 DEF InTurn
  <2>3. number - 1 \in Nat /\ number - 1 + 1 = number
    BY <2>1, <2>2 DEF TypeOK, Shape
  <2>4. SeenBy(w)' = SeenBy(w) \cup {Row(LastHash(SeenBy(w)), number - 1 + 1)}
    BY <2>1, <2>2, <2>3 DEF SeenBy
  <2>5. Verified(SeenBy(w)') /\ UpTo(SeenBy(w)', number)
    BY <2>2, <2>3, <2>4, AddedVerifies
  <2> QED BY <2>1, <2>2, <2>5 DEF InTurn
<1>3. ASSUME NEW w \in Writer, Commit(w) PROVE InTurn'
  <2>1. /\ tx[w].pc = "open"
        /\ log' = SeenBy(w)
        /\ tx'[w].pc = "idle"
        /\ UNCHANGED <<number, serial>>
        /\ \A v \in Writer \ {w} : tx'[v] = tx[v]
    <3>1. tx'[w] = Quiet /\ \A v \in Writer \ {w} : tx'[v] = tx[v]
      BY <1>3, EndDoes, OneMoves
    <3>2. Quiet.rows = {} /\ Quiet.pc = "idle"
      BY DEF Quiet
    <3>3. /\ tx[w].pc = "open"
          /\ log' = SeenBy(w)
          /\ UNCHANGED <<number, serial>>
      BY <1>3 DEF Commit, SeenBy
    <3> QED BY <3>1, <3>2, <3>3
  <2>2. /\ Verified(SeenBy(w))
        /\ UpTo(SeenBy(w), number)
        /\ \A v \in Writer \ {w} : tx[v].pc = "idle"
    BY <2>1 DEF InTurn
  <2> QED BY <2>1, <2>2 DEF InTurn
<1>4. ASSUME NEW w \in Writer, Rollback(w) PROVE FALSE
    BY <1>4 DEF Rollback
<1>5. CASE UNCHANGED vars
    BY <1>5 DEF vars, InTurn, SeenBy
<1> QED BY <1>1, <1>2, <1>3, <1>4, <1>5 DEF Next

\* What the verification of a log that verifies reports: nothing.
LEMMA VerifiedReportsNothing ==
    ASSUME Verified(log)
    PROVE  /\ SequenceGap = {}
           /\ PreviousHashMismatch = {}
           /\ RowHashMismatch = {}
<1>1. ASSUME NEW r \in log PROVE r.n = Expected(r)
  <2>1. CASE Before(r) = {}
    <3>1. r.n \in Nat \ {0} /\ \A n \in 1 .. r.n - 1 : \E q \in log : q.n = n
      BY DEF Verified
    <3>2. ~(1 \in 1 .. r.n - 1)
      BY <2>1, <3>1 DEF Before
    <3> QED BY <2>1, <3>1, <3>2 DEF Expected
  <2>2. CASE Before(r) # {}
    <3> DEFINE Last(q) == \A o \in Before(r) : o.n <= q.n
    <3>1. \A q \in Before(r) : q.n \in Nat \ {0} /\ q.n < r.n
      BY DEF Before, Verified
    <3>2. r.n \in Nat /\ r.n - 1 \in 1 .. r.n - 1
      BY <2>2, <3>1 DEF Verified
    <3>3. PICK q \in log : q.n = r.n - 1
      BY <3>2 DEF Verified
    <3>4. q \in Before(r) /\ Last(q)
      BY <3>1, <3>2, <3>3 DEF Before
    <3> DEFINE c == CHOOSE o \in Before(r) : Last(o)
    <3>5. c \in Before(r) /\ Last(c)
      <4> HIDE DEF Last
      <4> QED BY <3>4
    <3>6. c.n = r.n - 1
      <4> HIDE DEF c
      <4> QED BY <3>1, <3>2, <3>3, <3>4, <3>5
    <3>7. Expected(r) = c.n + 1
      BY <2>2 DEF Expected
    <3> HIDE DEF c
    <3> QED BY <3>2, <3>6, <3>7
  <2> QED BY <2>1, <2>2
<1>2. ASSUME NEW r \in log
      PROVE  /\ r.previous = LastHash(Before(r))
             /\ r.hash = RowHash(LastHash(Before(r)), r.n)
  <2>1. Before(r) = Under(log, r.n)
    BY DEF Before, Under
  <2> QED BY <2>1 DEF Verified
<1>3. SequenceGap = {}
    BY <1>1 DEF SequenceGap
<1>4. PreviousHashMismatch = {} /\ RowHashMismatch = {}
    BY <1>2 DEF PreviousHashMismatch, RowHashMismatch
<1> QED BY <1>3, <1>4

\* While the transactions take turns and none is rolled back, verification
\* finds nothing in a log nobody touched (verify_audit_log_chain:288-323).
THEOREM TurnsVerify == Spec => []UntouchedLogVerifies
<1>1. Init => TypeOK /\ Shape /\ InTurn
    BY ChainInit DEF Init, InTurn, Quiet, Verified, UpTo
<1>2. TypeOK /\ Shape /\ InTurn /\ [Next]_vars => (TypeOK /\ Shape /\ InTurn)'
    BY TypeStep, InTurnStep
<1>3. InTurn => UntouchedLogVerifies
    BY VerifiedReportsNothing DEF InTurn, UntouchedLogVerifies
<1> QED BY <1>1, <1>2, <1>3, PTL DEF Spec

-----------------------------------------------------------------------------
(* What a report says of a log nobody touched.                             *)

AllRows == log \cup UNION {tx[w].rows : w \in Writer}

\* A row is hashed with the row it claims to follow.
Hashed == \A r \in AllRows : r.hash = RowHash(r.previous, r.n)

\* A number belongs to one row, or to one that is still to be written.
OwnNumbers ==
    /\ \A q, r \in AllRows : q.n = r.n => q = r
    /\ \A w \in Writer : tx[w].pc = "numbered" =>
        /\ \A r \in AllRows : r.n # tx[w].n
        /\ \A v \in Writer : tx[v].pc = "numbered" /\ tx[v].n = tx[w].n => v = w

LEMMA OwnNumbersStep ==
    ASSUME TypeOK, Shape, Hashed, OwnNumbers, [Next]_vars
    PROVE  Hashed' /\ OwnNumbers'
<1>1. ASSUME NEW w \in Writer, NextVal(w) PROVE Hashed' /\ OwnNumbers'
  <2>1. /\ AllRows' = AllRows
        /\ \A v \in Writer \ {w} : tx'[v] = tx[v]
        /\ tx'[w].pc = "numbered" /\ tx'[w].n = number + 1
    <3>1. UNCHANGED log
      BY <1>1 DEF NextVal
    <3>2. \A v \in Writer : tx'[v].rows = tx[v].rows
      BY <1>1, NextValDoes, OneMoves
    <3> QED BY <1>1, <3>1, <3>2, NextValDoes, OneMoves DEF AllRows
  <2>2. /\ number \in Nat
        /\ \A r \in AllRows : r.n \in 1 .. number
        /\ \A v \in Writer : tx[v].n \in 0 .. number
    BY DEF TypeOK, AllRows
  <2>3. /\ \A r \in AllRows : r.n # number + 1
        /\ \A v \in Writer : tx[v].n # number + 1
    BY <2>2
  <2> QED BY <2>1, <2>3 DEF Hashed, OwnNumbers
<1>2. ASSUME NEW w \in Writer, ChainRow(w) PROVE Hashed' /\ OwnNumbers'
  <2> DEFINE new == Row(LastHash(SeenBy(w)), tx[w].n)
  <2>1. /\ tx[w].pc = "numbered" /\ tx'[w].pc = "open"
        /\ AllRows' = AllRows \cup {new}
        /\ \A v \in Writer \ {w} : tx'[v] = tx[v]
    <3>1. /\ UNCHANGED log
          /\ tx'[w].rows = tx[w].rows \cup {new}
          /\ \A v \in Writer \ {w} : tx'[v].rows = tx[v].rows
      BY <1>2, ChainRowDoes, OneMoves
    <3>2. AllRows' = AllRows \cup {new}
      <4> HIDE DEF new
      <4> QED BY <3>1 DEF AllRows
    <3> QED BY <1>2, <3>2, ChainRowDoes, OneMoves DEF ChainRow
  <2>2. new.n = tx[w].n /\ new.hash = RowHash(new.previous, new.n)
    BY DEF Row
  <2> HIDE DEF new
  <2> QED BY <2>1, <2>2 DEF Hashed, OwnNumbers
<1>3. ASSUME NEW w \in Writer, Commit(w) \/ Rollback(w) PROVE Hashed' /\ OwnNumbers'
  <2>1. /\ tx'[w].pc = "idle"
        /\ AllRows' \subseteq AllRows
        /\ \A v \in Writer \ {w} : tx'[v] = tx[v]
    <3>1. tx'[w] = Quiet /\ \A v \in Writer \ {w} : tx'[v] = tx[v]
      BY <1>3, EndDoes, OneMoves
    <3>2. Quiet.rows = {} /\ Quiet.pc = "idle"
      BY DEF Quiet
    <3>3. log' \subseteq log \cup tx[w].rows
      BY <1>3 DEF Commit, Rollback
    <3>4. \A v \in Writer : tx'[v].rows \subseteq tx[v].rows
      BY <3>1, <3>2
    <3> QED BY <3>1, <3>2, <3>3, <3>4 DEF AllRows
  <2> QED BY <2>1 DEF Hashed, OwnNumbers
<1>4. CASE UNCHANGED vars
    BY <1>4 DEF vars, AllRows, Hashed, OwnNumbers
<1> QED BY <1>1, <1>2, <1>3, <1>4 DEF Next

LEMMA OwnNumbersInvariant == Spec => [](Hashed /\ OwnNumbers)
<1>1. Init => TypeOK /\ Shape /\ Hashed /\ OwnNumbers
    BY ChainInit DEF Init, Quiet, AllRows, Hashed, OwnNumbers
<1>2. /\ TypeOK /\ Shape /\ Hashed /\ OwnNumbers /\ [Next]_vars
      => (TypeOK /\ Shape /\ Hashed /\ OwnNumbers)'
    BY TypeStep, OwnNumbersStep
<1> QED BY <1>1, <1>2, PTL DEF Spec

\* In a log nobody touched, however transactions overlap, a row hash is
\* reported exactly where the previous hash is: a row_hash_mismatch alone is
\* proof of an altered row, the two together are not, although the report says
\* so (verify_audit_log_chain:301-319).
THEOREM MismatchesComeInPairs == Spec => [](RowHashMismatch = PreviousHashMismatch)
<1>1. Hashed => RowHashMismatch = PreviousHashMismatch
    BY DEF Hashed, AllRows, RowHashMismatch, PreviousHashMismatch, RowHash
<1> QED BY <1>1, OwnNumbersInvariant, PTL

\* No two rows have the same hash: the row a link resolves to (RowsResolve) is
\* the only one, also when two rows follow it
\* (audit_logs_sequence_number_seq, _compute_audit_log_row_hash:142-180).
THEOREM LinksNameOneRow == Spec => [](\A q, r \in log : q.hash = r.hash => q = r)
<1>1. Hashed /\ OwnNumbers => \A q, r \in log : q.hash = r.hash => q = r
  <2> SUFFICES ASSUME Hashed, OwnNumbers, NEW q \in log, NEW r \in log, q.hash = r.hash
               PROVE  q = r
    OBVIOUS
  <2>1. <<q.previous, q.n>> = <<r.previous, r.n>>
    BY DEF Hashed, AllRows, RowHash
  <2>2. q.n = r.n
    BY <2>1
  <2> QED BY <2>2 DEF OwnNumbers, AllRows
<1> QED BY <1>1, OwnNumbersInvariant, PTL
=============================================================================
