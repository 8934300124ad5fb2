----------------------------- MODULE Selections -----------------------------
(***************************************************************************)
(* A student's group selection: PUT and DELETE /student-group-selection    *)
(* (app/services/selection_service.py), each request a READ COMMITTED      *)
(* transaction that reads the user's selection, deletes it, inserts the    *)
(* new one and logs the change.  The constraints of the table are          *)
(* UNIQUE (user_id, group_id) and the foreign key of group_id: a group may *)
(* be deleted meanwhile (app/services/program_service.py).                 *)
(***************************************************************************)
EXTENDS RowStore, Sequences

CONSTANTS
    Users, Groups,
    NoRow,        \* the query found no selection
    Initial       \* Initial[u]: the group of u before the requests, or NoRow

VARIABLES
    pc,           \* "new", "reading", "deleting", "writing", "ending", "done"
    request,      \* request[t]: the kind, user and group asked for
    existing,     \* existing[t]: the row the first query returned
    seen,         \* seen[t]: rows in the snapshot of t's DELETE
    groups,       \* groups that exist
    answer,       \* answer[t]: "none" until t has ended, "refused", "ok" or "error"
    log,          \* committed change_logs entries, in commit order
    raced,        \* users for whom two requests overlapped
    disturbed     \* requests that a PUT of the same user overlapped

races == <<raced, disturbed>>
vars == <<store, pc, request, existing, seen, groups, answer, log, races>>

Requests == [kind : {"put"}, user : Users, group : Groups]
              \union [kind : {"delete"}, user : Users, group : {NoRow}]
Row == [id : Nat, user : Users, group : Groups]

ASSUME SelectionsAssumption == /\ NoRow \notin Row /\ NoRow \notin Groups
                               /\ Initial \in [Users -> Groups \union {NoRow}]

Entry == [user : Users, action : {"create", "update", "delete"},
          old : Row \union {NoRow}, new : Row \union {NoRow}]

InitialRows == {[id |-> 0, user |-> u, group |-> Initial[u]] :
                  u \in {v \in Users : Initial[v] # NoRow}}

TypeOK == /\ rows \subseteq Row
          /\ \A t \in Txns : deleted[t] \union inserted[t] \union seen[t] \subseteq Row
          /\ pc \in [Txns -> {"new", "reading", "deleting", "writing", "ending", "done"}]
          /\ existing \in [Txns -> Row \union {NoRow}]
          /\ groups \subseteq Groups
          /\ answer \in [Txns -> {"none", "refused", "ok", "error"}]
          /\ log \in Seq(Entry)
          /\ raced \subseteq Users /\ disturbed \subseteq Txns

Init == /\ StoreInit(InitialRows, 1)
        /\ pc = [t \in Txns |-> "new"]
        /\ request \in [Txns -> Requests]
        /\ existing = [t \in Txns |-> NoRow]
        /\ seen = [t \in Txns |-> {}]
        /\ groups = Groups
        /\ answer = [t \in Txns |-> "none"]
        /\ log = <<>>
        /\ raced = {} /\ disturbed = {}

UserOf(t) == request[t].user
Selected(R, u) == {r \in R : r.user = u}
Running(u) == {t \in Txns : pc[t] \notin {"new", "done"} /\ UserOf(t) = u}
IsPut(t) == request[t].kind = "put"
GroupGone(t) == IsPut(t) /\ request[t].group \notin groups

(* The requests that t disturbs, and t if it is disturbed. *)
Disturbs(t) == (IF IsPut(t) THEN Running(UserOf(t)) ELSE {})
                 \union (IF \E x \in Running(UserOf(t)) : IsPut(x) THEN {t} ELSE {})

(* A PUT looks its group up first: 404. *)
Begin(t) ==
    /\ pc[t] = "new" /\ ~GroupGone(t)
    /\ pc' = [pc EXCEPT ![t] = "reading"]
    /\ raced' = IF Running(UserOf(t)) = {} THEN raced ELSE raced \union {UserOf(t)}
    /\ disturbed' = disturbed \union Disturbs(t)
    /\ UNCHANGED <<store, request, existing, seen, groups, answer, log>>

Refuse(t) ==
    /\ pc[t] = "new" /\ GroupGone(t)
    /\ pc' = [pc EXCEPT ![t] = "done"]
    /\ answer' = [answer EXCEPT ![t] = "refused"]
    /\ UNCHANGED <<store, request, existing, seen, groups, log, races>>

Fail(t) == /\ RollBackRows(t)
           /\ pc' = [pc EXCEPT ![t] = "done"]
           /\ answer' = [answer EXCEPT ![t] = "error"]
           /\ UNCHANGED <<request, existing, seen, groups, log, races>>

(* scalar_one_or_none raises MultipleResultsFound on a second row. *)
Read(t) ==
    LET found == Selected(Visible(t), UserOf(t)) IN
    /\ pc[t] = "reading"
    /\ IF Cardinality(found) > 1 THEN Fail(t)
       ELSE /\ existing' = [existing EXCEPT ![t] =
                              IF found = {} THEN NoRow ELSE CHOOSE r \in found : TRUE]
            /\ pc' = [pc EXCEPT ![t] = "deleting"]
            /\ UNCHANGED <<store, request, seen, groups, answer, log, races>>

(* The DELETE takes its snapshot, *)
Snapshot(t) ==
    /\ pc[t] = "deleting" /\ seen[t] = {}
    /\ Selected(Visible(t), UserOf(t)) # {}
    /\ seen' = [seen EXCEPT ![t] = Selected(Visible(t), UserOf(t))]
    /\ UNCHANGED <<store, pc, request, existing, groups, answer, log, races>>

(* Variant: the old selection is kept. *)
SkipDelete(t) ==
    /\ pc[t] = "deleting"
    /\ pc' = [pc EXCEPT ![t] = IF IsPut(t) THEN "writing" ELSE "ending"]
    /\ UNCHANGED <<store, request, existing, seen, groups, answer, log, races>>

(* Variant: a DELETE request goes on like a PUT request. *)
DeleteThenWrite(t) ==
    /\ pc[t] = "deleting"
    /\ seen[t] = {} => Selected(Visible(t), UserOf(t)) = {}
    /\ DeleteRows(t, seen[t])
    /\ pc' = [pc EXCEPT ![t] = "writing"]
    /\ UNCHANGED <<request, existing, seen, groups, answer, log, races>>

(* and deletes what it saw once no other transaction holds it. *)
Delete(t) ==
    /\ pc[t] = "deleting"
    /\ seen[t] = {} => Selected(Visible(t), UserOf(t)) = {}
    /\ DeleteRows(t, seen[t])
    /\ pc' = [pc EXCEPT ![t] = IF IsPut(t) THEN "writing" ELSE "ending"]
    /\ UNCHANGED <<request, existing, seen, groups, answer, log, races>>

(* INSERT and flush; a duplicate (user_id, group_id) raises IntegrityError, *)
(* and so does a group that is gone since it was looked up.                 *)
Insert(t) ==
    LET new == [id |-> nextId, user |-> UserOf(t), group |-> request[t].group]
        same == {r \in rows \union UNION {inserted[x] : x \in Txns} :
                   r.user = new.user /\ r.group = new.group}
    IN
    /\ pc[t] = "writing"
    /\ ~KeyAwaited(t, same)
    /\ IF KeyTaken(t, same) \/ GroupGone(t) THEN Fail(t)
       ELSE /\ InsertRow(t, new)
            /\ pc' = [pc EXCEPT ![t] = "ending"]
            /\ UNCHANGED <<request, existing, seen, groups, answer, log, races>>

NewRow(t) == IF inserted[t] = {} THEN NoRow ELSE CHOOSE r \in inserted[t] : TRUE

(* Variant: the old row serialized after it was deleted. *)
LoggedWithoutOld(t) ==
    IF request[t].kind = "delete" /\ existing[t] = NoRow THEN log
    ELSE Append(log, [user |-> UserOf(t), old |-> NoRow, new |-> NewRow(t),
                      action |-> IF request[t].kind = "delete" THEN "delete" ELSE "create"])

(* record_change; delete_selection logs nothing when nothing was found. *)
Logged(t) ==
    IF request[t].kind = "delete" /\ existing[t] = NoRow THEN log
    ELSE Append(log, [user |-> UserOf(t), old |-> existing[t], new |-> NewRow(t),
                      action |-> CASE request[t].kind = "delete" -> "delete"
                                   [] existing[t] # NoRow -> "update"
                                   [] OTHER -> "create"])

Commit(t) ==
    /\ pc[t] = "ending"
    /\ CommitRows(t)
    /\ log' = Logged(t)
    /\ pc' = [pc EXCEPT ![t] = "done"]
    /\ answer' = [answer EXCEPT ![t] = "ok"]
    /\ UNCHANGED <<request, existing, seen, groups, races>>

(* delete_group: with a selection of it, old or not yet committed, it fails. *)
DeleteGroup(g) ==
    /\ g \in groups
    /\ \A r \in rows \union UNION {inserted[x] : x \in Txns} : r.group # g
    /\ groups' = groups \ {g}
    /\ UNCHANGED <<store, pc, request, existing, seen, answer, log, races>>

Next == \/ \E t \in Txns : \/ Begin(t) \/ Refuse(t) \/ Read(t) \/ Snapshot(t)
                            \/ Delete(t) \/ Insert(t) \/ Commit(t)
        \/ \E g \in Groups : DeleteGroup(g)

Spec == Init /\ [][Next]_vars

-----------------------------------------------------------------------------
RacedPuts == {UserOf(t) : t \in {x \in disturbed : IsPut(x)}}

(* A student has one selection, and no request for the student fails,      *)
(* unless two PUT requests for the student overlapped, or the group asked  *)
(* for was deleted; a DELETE may overlap anything.                         *)
OneSelectionUnlessRaced ==
    /\ \A u \in Users \ RacedPuts : Cardinality(Selected(rows, u)) <= 1
    /\ \A t \in Txns : answer[t] = "error" => UserOf(t) \in RacedPuts \/ GroupGone(t)

(* A request that no PUT of the student overlaps does what it was asked    *)
(* for, whatever earlier races have left and DELETE requests do meanwhile: *)
(* after a PUT the student has that group and no other, after a DELETE     *)
(* none.  It fails only on several rows, which an earlier race has left,   *)
(* or on a group that is gone.                                             *)
UndisturbedRequestsHold ==
    [][\A t \in Txns \ disturbed : answer'[t] # answer[t] =>
         \/ /\ answer'[t] = "ok"
            /\ {r.group : r \in Selected(rows', UserOf(t))} =
                 IF IsPut(t) THEN {request[t].group} ELSE {}
         \/ /\ answer'[t] # "ok" /\ rows' = rows
            /\ Cardinality(Selected(rows, UserOf(t))) > 1 \/ GroupGone(t)]_vars

FirstRow(u) == IF Selected(InitialRows, u) = {} THEN NoRow
               ELSE CHOOSE r \in Selected(InitialRows, u) : TRUE

(* The last entry for u among the first n of the log, and the row it left. *)
LastEntry(entries, n, u) ==
    {i \in 1..n : entries[i].user = u /\ \A j \in (i + 1)..n : entries[j].user # u}

LeftAfter(entries, n, u) ==
    IF LastEntry(entries, n, u) = {} THEN FirstRow(u)
    ELSE entries[CHOOSE i \in LastEntry(entries, n, u) : TRUE].new

(* Each entry for u starts from the row the one before it left, and the    *)
(* last one ends at the selection in the table R.                          *)
Replays(R, entries, u) ==
    /\ \A i \in 1..Len(entries) :
          entries[i].user = u => entries[i].old = LeftAfter(entries, i - 1, u)
    /\ Selected(R, u) = {LeftAfter(entries, Len(entries), u)} \ {NoRow}

(* The change log replays, for a student whose requests never overlapped.  *)
AuditReplays == \A u \in Users \ raced : Replays(rows, log, u)

=============================================================================
