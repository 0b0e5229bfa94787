------------------------------ MODULE AuditChain ------------------------------
(***************************************************************************)
(* The hash chain of public.audit_logs: the trigger that chains a new row  *)
(* to the last one it can see, inside the transaction of whatever RPC      *)
(* writes the row, and the function that verifies the chain.               *)
(*                                                                         *)
(* Nobody alters or deletes a row here: what is checked is what the chain  *)
(* says of a log that was left alone.                                      *)
(***************************************************************************)
EXTENDS Integers, FiniteSets

CONSTANTS
    Writer,     \* transactions that write audit rows
    MaxNumber   \* bound: sequence numbers that are handed out

ASSUME MaxAssumption == MaxNumber \in Nat

VARIABLES
    number,     \* last value of audit_logs_sequence_number_seq
    log,        \* committed rows
    tx,         \* what each transaction is doing
    serial      \* history: no transaction has overlapped another or been
                \* rolled back so far

vars == <<number, log, tx, serial>>

\* A row is its number, the hash it claims to follow and its own hash.
\* Idealisation: SHA-256 never collides, so a hash is what it was made from;
\* the other columns change nothing here and are left out.
Genesis == <<>>
RowHash(previous, n) == <<previous, n>>
Row(previous, n) ==
    [n |-> n, previous |-> previous, hash |-> RowHash(previous, n)]

Quiet == [pc |-> "idle", n |-> 0, rows |-> {}]

Init ==
    /\ number = 0
    /\ log = {}
    /\ tx = [w \in Writer |-> Quiet]
    /\ serial = TRUE

-----------------------------------------------------------------------------
\* The hash of the row with the highest number among rows.
LastHash(rows) ==
    IF rows = {} THEN Genesis
    ELSE (CHOOSE r \in rows : \A q \in rows : q.n <= r.n).hash

\* The sequence gives its next value to the INSERT, for good: it is not part
\* of the transaction.
NextVal(w) ==
    /\ tx[w].pc \in {"idle", "open"}
    /\ number < MaxNumber
    /\ number' = number + 1
    /\ tx' = [tx EXCEPT ![w].pc = "numbered", ![w].n = number + 1]
    /\ serial' = (serial /\ \A v \in Writer \ {w} : tx[v].pc = "idle")
    /\ UNCHANGED log

\* Mutant: the last hash is kept where uncommitted rows are seen.
SeenByAnyone(w) == log \cup UNION {tx[v].rows : v \in Writer}

\* The trigger's SELECT sees the committed rows and the transaction's own.
SeenBy(w) == log \cup tx[w].rows

\* Mutant: the first row in sequence order is taken, not the last.
PrecedingFirst(rows) ==
    IF rows = {} THEN Genesis
    ELSE (CHOOSE r \in rows : \A q \in rows : r.n <= q.n).hash

Preceding(rows) == LastHash(rows)

ChainRow(w) ==
    /\ tx[w].pc = "numbered"
    /\ tx' = [tx EXCEPT
            ![w].pc = "open",
            ![w].rows = @ \cup {Row(Preceding(SeenBy(w)), tx[w].n)}]
    /\ UNCHANGED <<number, log, serial>>

Commit(w) ==
    /\ tx[w].pc = "open"
    /\ log' = log \cup tx[w].rows
    /\ tx' = [tx EXCEPT ![w] = Quiet]
    /\ UNCHANGED <<number, serial>>

\* Mutant: a rollback gives the number back.
RollbackNumber(w) ==
    /\ tx[w].pc # "idle"
    /\ number' = number - 1
    /\ tx' = [tx EXCEPT ![w] = Quiet]
    /\ serial' = FALSE
    /\ UNCHANGED log

\* The RPC raises after it wrote its audit rows, or its connection is lost.
Rollback(w) ==
    /\ tx[w].pc # "idle"
    /\ tx' = [tx EXCEPT ![w] = Quiet]
    /\ serial' = FALSE
    /\ UNCHANGED <<number, log>>

Next == \E w \in Writer : NextVal(w) \/ ChainRow(w) \/ Commit(w) \/ Rollback(w)

Spec == Init /\ [][Next]_vars

-----------------------------------------------------------------------------
(* verify_audit_log_chain() over the whole table: each row against the row *)
(* with the next lower number that is there.                               *)

Before(r) == {q \in log : q.n < r.n}

Expected(r) ==
    IF Before(r) = {} THEN 1
    ELSE (CHOOSE q \in Before(r) : \A o \in Before(r) : o.n <= q.n).n + 1

SequenceGap == {r \in log : r.n # Expected(r)}

PreviousHashMismatch == {r \in log : r.previous # LastHash(Before(r))}

RowHashMismatch ==
    {r \in log : r.hash # RowHash(LastHash(Before(r)), r.n)}

-----------------------------------------------------------------------------
(* Properties.                                                             *)

\* Numbers come from the sequence, each handed out already.
TypeOK ==
    /\ number \in 0 .. MaxNumber
    /\ serial \in BOOLEAN
    /\ \A r \in log : r.n \in 1 .. number
    /\ \A w \in Writer :
        /\ tx[w].pc \in {"idle", "numbered", "open"}
        /\ tx[w].n \in 0 .. number
        /\ \A r \in tx[w].rows : r.n \in 1 .. number

\* Every row that is in the log follows the genesis constant or a row that
\* is in the log too: no row commits to one that was rolled back
\* (_chain_audit_log_row:233-245).
LinksResolve ==
    \A r \in log : r.previous = Genesis \/ \E q \in log : q.hash = r.previous

\* While transactions write their rows one after the other and commit,
\* verification finds nothing in a log nobody touched
\* (verify_audit_log_chain:288-323).
UntouchedLogVerifies ==
    serial => /\ SequenceGap = {}
              /\ PreviousHashMismatch = {}
              /\ RowHashMismatch = {}

\* Each row is hashed with the hash of the row right before it
\* (_chain_audit_log_row:233-243).
EachFollowsTheOneBefore == PreviousHashMismatch = {}
=============================================================================
