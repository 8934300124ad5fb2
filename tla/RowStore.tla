------------------------------ MODULE RowStore ------------------------------
(***************************************************************************)
(* A PostgreSQL table under READ COMMITTED, as far as the services see it  *)
(* whose transactions only SELECT, DELETE ... WHERE and INSERT:            *)
(* app/core/database.py sets no isolation level, so a statement sees what  *)
(* is committed when it starts, and two statements of one transaction may  *)
(* see different rows.                                                     *)
(***************************************************************************)
EXTENDS Naturals, FiniteSets

CONSTANT Txns     \* transactions, one per request

VARIABLES
    rows,         \* committed rows, records with an id field
    deleted,      \* deleted[t]: rows t has deleted and so locked
    inserted,     \* inserted[t]: rows t has inserted, uncommitted
    nextId        \* the id sequence, which no rollback rewinds

store == <<rows, deleted, inserted, nextId>>

StoreInit(R, n) == /\ rows = R /\ nextId = n
                   /\ deleted = [t \in Txns |-> {}]
                   /\ inserted = [t \in Txns |-> {}]

(* The rows a statement of t sees. *)
Visible(t) == (rows \ deleted[t]) \union inserted[t]

(* DELETE of the rows S that the statement saw when it started: it waits   *)
(* while another transaction has one of them, and passes by those that     *)
(* are gone by then.  Rows inserted meanwhile it never looks at.           *)
DeleteRows(t, S) ==
    /\ \A x \in Txns \ {t} : S \intersect deleted[x] = {}
    /\ deleted' = [deleted EXCEPT ![t] = @ \union (S \intersect rows)]
    /\ UNCHANGED <<rows, inserted, nextId>>

InsertRow(t, r) ==
    /\ inserted' = [inserted EXCEPT ![t] = @ \union {r}]
    /\ nextId' = nextId + 1
    /\ UNCHANGED <<rows, deleted>>

(* An INSERT whose unique key others hold: it waits for their transactions *)
(* to end, and fails on a committed row that nobody is deleting.           *)
KeyAwaited(t, K) == \E x \in Txns \ {t} :
                       K \intersect (inserted[x] \union deleted[x]) # {}
KeyTaken(t, K) == K \intersect Visible(t) # {}

CommitRows(t) == /\ rows' = (rows \ deleted[t]) \union inserted[t]
                 /\ deleted' = [deleted EXCEPT ![t] = {}]
                 /\ inserted' = [inserted EXCEPT ![t] = {}]
                 /\ UNCHANGED nextId

RollBackRows(t) == /\ deleted' = [deleted EXCEPT ![t] = {}]
                   /\ inserted' = [inserted EXCEPT ![t] = {}]
                   /\ UNCHANGED <<rows, nextId>>

=============================================================================
