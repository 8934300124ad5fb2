------------------------------- MODULE ChangeLog -------------------------------
(***************************************************************************)
(* How the change log that app/services/audit_service.py keeps of a table  *)
(* is read: each entry as the columns that it says changed, in the order   *)
(* of the ids of the entries.                                              *)
(***************************************************************************)
EXTENDS Naturals

CONSTANTS Items, Columns,
          Absent,     \* no row
          Initial     \* the table before the first entry

(* Entries are records [id, item, action, old, new]; tr is a set of them. *)
About(tr, x, action) == {e \in tr : e.item = x /\ e.action = action}

(* The entries that gave column c of x a value. *)
Changing(tr, x, c) == About(tr, x, "create")
                      \union {e \in About(tr, x, "update") : e.old[c] # e.new[c]}

Latest(S) == CHOOSE e \in S : \A d \in S : d.id <= e.id

(* Ids of rows are not given again, so a deleted row stays deleted. *)
Gone(tr, x) == \/ About(tr, x, "delete") # {}
               \/ Initial[x] = Absent /\ About(tr, x, "create") = {}

Value(tr, x, c) == IF Changing(tr, x, c) = {} THEN Initial[x][c]
                   ELSE Latest(Changing(tr, x, c)).new[c]

Replay(tr) == [x \in Items |-> IF Gone(tr, x) THEN Absent
                               ELSE [c \in Columns |-> Value(tr, x, c)]]

=============================================================================
