------------------------------- MODULE Catalog -------------------------------
(***************************************************************************)
(* A table of the catalog, subjects or rooms (app/services/                *)
(* catalog_service.py), with the entries that its requests add to the      *)
(* change log, while lessons that refer to its rows come and go.           *)
(*                                                                         *)
(* A request loads a row, changes its copy, and sends to PostgreSQL only   *)
(* the columns in which the copy differs; the entry it adds shows the      *)
(* whole copy before and after.  An UPDATE keeps its row locked until the  *)
(* commit and the entry gets its id in between, so an update is one step   *)
(* here.  The flush of a deletion inserts the entry first and then waits   *)
(* for the row, so its entry may have an id below that of an update which  *)
(* commits before it.                                                      *)
(*                                                                         *)
(* A request that finds no row, or a row in use, was to be answered 404 or *)
(* 409; the module does not import the status it names there, so the       *)
(* answer is 500.  For the tables all three are the same: nothing changes. *)
(***************************************************************************)
EXTENDS ChangeLog

(* Items are the ids of subjects, or of rooms. *)
CONSTANTS
    UniqueColumns,   \* the code of a subject; a room has none
    Values,          \* Values[c]: what a request may ask of column c
    Keep,            \* a field the request leaves out
    Txns             \* requests that update or delete, one transaction each

RowType == {r \in [Columns -> UNION {Values[c] : c \in Columns}] :
              \A c \in Columns : r[c] \in Values[c]}
Patches == {r \in [Columns -> UNION {Values[c] : c \in Columns} \union {Keep}] :
              \A c \in Columns : r[c] \in Values[c] \union {Keep}}

ASSUME CatalogAssumption ==
    /\ UniqueColumns \subseteq Columns
    /\ Absent \notin RowType /\ \A c \in Columns : Keep \notin Values[c]
    /\ Initial \in [Items -> RowType \union {Absent}]

VARIABLES
    row,        \* row[x]: the committed row of x
    used,       \* ids inserted so far; a sequence gives none of them again
    inUse,      \* items that some lesson refers to
    log,        \* change_logs: the committed entries about this table
    nextEntry,  \* the id sequence of change_logs
    pc,         \* "new", "loaded", "deleting" or "done"
    request,    \* request[t]: what t was asked to do
    copy,       \* copy[t]: the row as t loaded it
    entryId,    \* entryId[t]: the id of the entry t has flushed
    raced       \* items with two requests at once

tables == <<row, used, inUse, log, nextEntry>>
session == <<request, copy, entryId>>
vars == <<tables, pc, session, raced>>

NoRequest == [kind |-> "none"]
Updates == [kind : {"update"}, item : Items, set : Patches]
Deletes == [kind : {"delete"}, item : Items]

Entry == [id : Nat, item : Items, action : {"create", "update", "delete"},
          old : RowType \union {Absent}, new : RowType \union {Absent}]

Running(t) == pc[t] \in {"loaded", "deleting"}

TypeOK == /\ row \in [Items -> RowType \union {Absent}]
          /\ {x \in Items : row[x] # Absent} \subseteq used /\ used \subseteq Items
          /\ inUse \subseteq Items
          /\ \A e \in log : e \in Entry /\ e.id < nextEntry
          /\ nextEntry \in Nat /\ entryId \in [Txns -> Nat]
          /\ pc \in [Txns -> {"new", "loaded", "deleting", "done"}]
          /\ request \in [Txns -> Updates \union Deletes \union {NoRequest}]
          /\ copy \in [Txns -> RowType \union {Absent}]
          /\ \A t \in Txns : IF Running(t) THEN request[t] # NoRequest /\ copy[t] # Absent
                             ELSE request[t] = NoRequest /\ copy[t] = Absent
          /\ raced \subseteq Items

Init == /\ row = Initial /\ used = {x \in Items : Initial[x] # Absent}
        /\ inUse = {} /\ log = {} /\ nextEntry = 1
        /\ pc = [t \in Txns |-> "new"]
        /\ request = [t \in Txns |-> NoRequest]
        /\ copy = [t \in Txns |-> Absent]
        /\ entryId = [t \in Txns |-> 0]
        /\ raced = {}

-----------------------------------------------------------------------------
(* A lesson is given the item, or the last one that had it is gone. *)
UseItem(x) == /\ row[x] # Absent /\ x \notin inUse
              /\ inUse' = inUse \union {x}
              /\ UNCHANGED <<row, used, log, nextEntry, pc, session, raced>>

FreeItem(x) == /\ x \in inUse
               /\ inUse' = inUse \ {x}
               /\ UNCHANGED <<row, used, log, nextEntry, pc, session, raced>>

-----------------------------------------------------------------------------
(* The unique index on a column: another row has the value. *)
Taken(x, r) == \E y \in Items \ {x}, c \in UniqueColumns :
                  row[y] # Absent /\ row[y][c] = r[c]

(* create_subject, create_room *)
Create(x, r) ==
    /\ x \notin used /\ ~Taken(x, r)
    /\ row' = [row EXCEPT ![x] = r]
    /\ used' = used \union {x}
    /\ log' = log \union {[id |-> nextEntry, item |-> x, action |-> "create",
                           old |-> Absent, new |-> r]}
    /\ nextEntry' = nextEntry + 1
    /\ UNCHANGED <<inUse, pc, session, raced>>

(* The first read of update_ and delete_subject or _room. *)
Load(t) == \E r \in Updates \union Deletes :
    /\ pc[t] = "new" /\ row[r.item] # Absent
    /\ request' = [request EXCEPT ![t] = r]
    /\ copy' = [copy EXCEPT ![t] = row[r.item]]
    /\ pc' = [pc EXCEPT ![t] = "loaded"]
    /\ raced' = IF \E x \in Txns : Running(x) /\ request[x].item = r.item
                THEN raced \union {r.item} ELSE raced
    /\ UNCHANGED <<tables, entryId>>

(* Variant: the session outlives the request, with the row it loaded. *)
EndKeepingCopy(t) == /\ pc' = [pc EXCEPT ![t] = "done"]
                     /\ request' = [request EXCEPT ![t] = NoRequest]
                     /\ entryId' = [entryId EXCEPT ![t] = 0]
                     /\ UNCHANGED <<copy, raced>>

(* The end of the transaction: the session's state is dropped. *)
End(t) == /\ pc' = [pc EXCEPT ![t] = "done"]
          /\ request' = [request EXCEPT ![t] = NoRequest]
          /\ copy' = [copy EXCEPT ![t] = Absent]
          /\ entryId' = [entryId EXCEPT ![t] = 0]
          /\ UNCHANGED raced

Refuse(t) == End(t) /\ UNCHANGED tables

(* The copy with the fields of the request assigned. *)
Assigned(t) == [c \in Columns |-> IF request[t].set[c] = Keep THEN copy[t][c]
                                  ELSE request[t].set[c]]

(* Variant: the UPDATE sets every column. *)
WrittenWhole(t) == Assigned(t)

(* The row after an UPDATE of the columns that differ from the copy. *)
Written(t) == [c \in Columns |-> IF Assigned(t)[c] # copy[t][c] THEN Assigned(t)[c]
                                 ELSE row[request[t].item][c]]

(* new_data: serialize_model of the session's copy, not of the row. *)
Snapshot(t) == Assigned(t)

(* update_subject, update_room from the flush to the commit.  An UPDATE of *)
(* a row that is gone raises StaleDataError; with no column changed there  *)
(* is no UPDATE, and the entry is added whether or not the row is there.   *)
Update(t) ==
    LET x == request[t].item
        writes == Assigned(t) # copy[t]
    IN
    /\ pc[t] = "loaded" /\ request[t].kind = "update"
    /\ IF writes /\ (row[x] = Absent \/ Taken(x, Written(t))) THEN Refuse(t)
       ELSE /\ row' = IF writes THEN [row EXCEPT ![x] = Written(t)] ELSE row
            /\ log' = log \union {[id |-> nextEntry, item |-> x, action |-> "update",
                                   old |-> copy[t], new |-> Snapshot(t)]}
            /\ nextEntry' = nextEntry + 1
            /\ UNCHANGED <<used, inUse>>
            /\ End(t)

(* _safe_delete up to the INSERT of the entry.  The flush first loads the  *)
(* lessons of the row, to clear a column of theirs that must not be empty: *)
(* with any there, it fails.                                               *)
FlushDelete(t) ==
    /\ pc[t] = "loaded" /\ request[t].kind = "delete"
    /\ IF request[t].item \in inUse THEN Refuse(t)
       ELSE /\ entryId' = [entryId EXCEPT ![t] = nextEntry]
            /\ nextEntry' = nextEntry + 1
            /\ pc' = [pc EXCEPT ![t] = "deleting"]
            /\ UNCHANGED <<row, used, inUse, log, request, copy, raced>>

DeletionEntry(t) == [id |-> entryId[t], item |-> request[t].item, action |-> "delete",
                     old |-> copy[t], new |-> Absent]

(* The DELETE, checked against the lessons there are by then, and the      *)
(* commit.  A row that is gone already is only warned about.               *)
RemoveRow(t) ==
    /\ pc[t] = "deleting"
    /\ IF request[t].item \in inUse THEN Refuse(t)
       ELSE /\ row' = [row EXCEPT ![request[t].item] = Absent]
            /\ log' = log \union {DeletionEntry(t)}
            /\ UNCHANGED <<used, inUse, nextEntry>>
            /\ End(t)

Next == \/ \E x \in Items : UseItem(x) \/ FreeItem(x) \/ \E r \in RowType : Create(x, r)
        \/ \E t \in Txns : Load(t) \/ Update(t) \/ FlushDelete(t) \/ RemoveRow(t)

Spec == Init /\ [][Next]_vars

-----------------------------------------------------------------------------
Audited == INSTANCE AuditedTable WITH table <- row, trail <- log

(* However requests overlap, and although their entries show copies that   *)
(* may be stale, the columns that the entries of the change log say        *)
(* changed give the table: record_change in the transaction of the change. *)
ImplementsAuditedTable == Audited!Spec

(* An entry of record_change shows the row as it was left, and not just    *)
(* what changed, unless two requests worked on the row at once.            *)
LastEntryShowsRowUnlessRaced ==
    \A x \in Items \ raced :
        LET entries == {e \in log : e.item = x} IN
        entries # {} => Latest(entries).new = row[x]

=============================================================================
