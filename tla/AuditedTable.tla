----------------------------- MODULE AuditedTable -----------------------------
(***************************************************************************)
(* What the change log of app/services/audit_service.py promises of a      *)
(* table: a row changes only together with an entry that says what was     *)
(* there before and what is there after, entries are only added, and the   *)
(* columns that they say changed, taken in the order of their ids, give    *)
(* the table as it is.                                                     *)
(***************************************************************************)
EXTENDS ChangeLog

VARIABLES table,      \* table[x]: the row of x
          trail       \* the entries

Init == table = Initial /\ trail = {}

Append(e) == /\ \A d \in trail : d.id # e.id
             /\ trail' = trail \union {e}
             /\ table' = Replay(trail')

Next == \E e \in trail' \ trail : Append(e)

Spec == Init /\ [][Next]_<<table, trail>>

=============================================================================
