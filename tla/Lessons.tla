-------------------------------- MODULE Lessons --------------------------------
(***************************************************************************)
(* Lessons and the notifications their changes queue (app/services/        *)
(* lesson_service.py): create, series, update and delete requests, each    *)
(* one transaction, while students change their group.                     *)
(*                                                                         *)
(* An update locks the lesson's row from its UPDATE to its commit, and     *)
(* sets only the columns that differ from the row its session loaded; who  *)
(* is notified is read from that session's row, not from the table.  A     *)
(* delete reads the recipients before its DELETE.                          *)
(*                                                                         *)
(* Subject, room, status and type only matter to the wording of a          *)
(* notification; times are ticks.                                          *)
(***************************************************************************)
EXTENDS Naturals, FiniteSets

CONSTANTS
    Students, Groups,
    Lecturers,       \* lecturer_user_id values
    NoGroup,         \* the student has no selection
    Absent,          \* no row
    Txns,            \* requests, one transaction each
    Times,           \* bound: times requests ask for
    Interval,        \* repeat_every_days, in ticks
    MaxLessons,      \* bound: lessons ever inserted
    MaxSwitches      \* bound: changes of a student's selection

ASSUME LessonsAssumption == /\ Times \subseteq Nat /\ Interval \in Nat \ {0}
                            /\ MaxLessons \in Nat /\ MaxSwitches \in Nat

VARIABLES
    lesson,     \* lesson[l]: the committed row
    nextId,     \* next value of the lessons id sequence
    selection,  \* selection[u]: the student's group
    switches,   \* selection changes so far
    pc,         \* "new", "loaded", "reading", "ending" or "done"
    request,    \* request[t]: what t was asked to do
    loaded,     \* loaded[t]: the row as t loaded it
    copy,       \* copy[t]: that row with the request's fields assigned
    locked,     \* locked[t]: the lessons whose rows t has locked or inserted
    notify,     \* notify[t][l]: recipients t has read for l, NotRead before
    canceled,   \* canceled[l]: committed deletions of l that were announced
    unsettled,  \* unsettled[t]: students who switched while t was at work
    raced       \* updates and deletions that two requests were at, at once

table == <<lesson, nextId>>
students == <<selection, switches>>
session == <<request, loaded, copy, locked, notify>>
history == <<canceled, raced>>
vars == <<table, students, pc, session, history, unsettled>>

Ids == 1..MaxLessons
Users == Students \union Lecturers
Columns == {"group", "lecturer", "start", "end"}
Row == [group : Groups, lecturer : Lecturers, start : Nat, end : Nat]

ASSUME AbsentAssumption == Absent \notin Row /\ Absent \notin Users

NotRead == {Absent}
Unread == [l \in Ids |-> NotRead]

NoRequest == [kind |-> "none"]
Creates == [kind : {"create"}, group : Groups, lecturer : Lecturers,
            start : Times, end : Times, occurrences : 1..MaxLessons]
Changes == [kind : {"update", "delete"}, lesson : Ids]

(* The rows an update may assign: some fields from the request, the others *)
(* from the row as loaded.                                                 *)
Assignable(row) == [group : Groups, lecturer : Lecturers,
                    start : Times \union {row.start}, end : Times \union {row.end}]

TypeOK == /\ \A l \in Ids : lesson[l] = Absent \/ lesson[l] \in Row
          /\ nextId \in 1..(MaxLessons + 1)
          /\ selection \in [Students -> Groups \union {NoGroup}]
          /\ switches \in 0..MaxSwitches
          /\ pc \in [Txns -> {"new", "loaded", "reading", "ending", "done"}]
          /\ \A t \in Txns : copy[t] = Absent \/ copy[t] \in Row
          /\ locked \in [Txns -> SUBSET Ids]
          /\ \A t \in Txns, l \in Ids : notify[t][l] = NotRead \/ notify[t][l] \subseteq Users
          /\ canceled \in [Ids -> Nat]
          /\ unsettled \in [Txns -> SUBSET Students] /\ raced \subseteq Changes

Init == /\ lesson = [l \in Ids |-> Absent] /\ nextId = 1
        /\ selection \in [Students -> Groups \union {NoGroup}] /\ switches = 0
        /\ pc = [t \in Txns |-> "new"]
        /\ request = [t \in Txns |-> NoRequest]
        /\ copy = [t \in Txns |-> Absent] /\ loaded = copy
        /\ locked = [t \in Txns |-> {}]
        /\ notify = [t \in Txns |-> Unread]
        /\ canceled = [l \in Ids |-> 0]
        /\ unsettled = [t \in Txns |-> {}] /\ raced = {}

Switch(u, g) ==
    /\ switches < MaxSwitches /\ selection[u] # g
    /\ selection' = [selection EXCEPT ![u] = g]
    /\ switches' = switches + 1
    /\ unsettled' = [t \in Txns |-> IF pc[t] \in {"new", "done"} THEN {}
                                    ELSE unsettled[t] \union {u}]
    /\ UNCHANGED <<table, pc, session, history>>

-----------------------------------------------------------------------------
Running(t) == pc[t] \notin {"new", "done"}
Free(t, l) == \A x \in Txns \ {t} : l \notin locked[x]

(* Variant: the end may equal the start. *)
ValidWindowLoose(row) == row.end >= row.start

(* _validate_time_window *)
ValidWindow(row) == row.end > row.start

(* create_lesson and create_lesson_series, up to the flush: the rows get   *)
(* their ids, each occurrence an interval after the one before.            *)
StartCreate(t) == \E r \in Creates :
    /\ pc[t] = "new" /\ nextId + r.occurrences <= MaxLessons + 1
    /\ ValidWindow(r)
    /\ request' = [request EXCEPT ![t] = r]
    /\ locked' = [locked EXCEPT ![t] = nextId..(nextId + r.occurrences - 1)]
    /\ nextId' = nextId + r.occurrences
    /\ pc' = [pc EXCEPT ![t] = "reading"]
    /\ UNCHANGED <<lesson, students, loaded, copy, notify, history, unsettled>>

(* update_lesson and delete_lesson load the lesson; a missing one is 404. *)
Load(t) == \E r \in Changes :
    /\ pc[t] = "new" /\ lesson[r.lesson] # Absent
    /\ request' = [request EXCEPT ![t] = r]
    /\ loaded' = [loaded EXCEPT ![t] = lesson[r.lesson]]
    /\ \E row \in Assignable(lesson[r.lesson]) :
         /\ r.kind = "delete" => row = lesson[r.lesson]
         /\ copy' = [copy EXCEPT ![t] = row]
    /\ pc' = [pc EXCEPT ![t] = IF r.kind = "update" THEN "loaded" ELSE "reading"]
    /\ raced' = IF \E x \in Txns : request[x] = r THEN raced \union {r} ELSE raced
    /\ UNCHANGED <<table, students, locked, notify, canceled, unsettled>>

(* The end of a transaction, which drops the session. *)
End(t) == /\ pc' = [pc EXCEPT ![t] = "done"]
          /\ request' = [request EXCEPT ![t] = NoRequest]
          /\ copy' = [copy EXCEPT ![t] = Absent]
          /\ loaded' = [loaded EXCEPT ![t] = Absent]
          /\ locked' = [locked EXCEPT ![t] = {}]
          /\ notify' = [notify EXCEPT ![t] = Unread]
          /\ unsettled' = [unsettled EXCEPT ![t] = {}]

(* An invalid request, an UPDATE of a row that is gone, a lost connection. *)
Abort(t) == End(t) /\ UNCHANGED <<table, students, history>>

(* update_lesson: validation and flush.  The UPDATE waits for the row; with *)
(* no column changed there is none.                                        *)
Update(t) ==
    LET l == request[t].lesson
        writes == copy[t] # loaded[t]
    IN
    /\ pc[t] = "loaded"
    /\ writes /\ ValidWindow(copy[t]) => Free(t, l)
    /\ IF ~ValidWindow(copy[t]) \/ (writes /\ lesson[l] = Absent) THEN Abort(t)
       ELSE /\ locked' = [locked EXCEPT ![t] = IF writes THEN {l} ELSE {}]
            /\ pc' = [pc EXCEPT ![t] = "reading"]
            /\ UNCHANGED <<table, students, request, loaded, copy, notify, history,
                           unsettled>>

(* The lessons t notifies about, and the row it has of each. *)
Subjects(t) == IF request[t].kind = "create" THEN locked[t] ELSE {request[t].lesson}

RowOf(t, l) ==
    IF request[t].kind # "create" THEN copy[t]
    ELSE LET first == CHOOSE k \in locked[t] : \A j \in locked[t] : k <= j
             offset == (l - first) * Interval
         IN  [group |-> request[t].group, lecturer |-> request[t].lecturer,
              start |-> request[t].start + offset, end |-> request[t].end + offset]

(* Variants: the lecturer only; the wrong column of the selections. *)
LecturerOnly(row) == {row.lecturer}
GroupItself(row) == {row.lecturer, row.group}

(* _lesson_recipients *)
Recipients(row) == {row.lecturer} \union {u \in Students : selection[u] = row.group}

Notify(t, l) ==
    /\ pc[t] = "reading" /\ l \in Subjects(t) /\ notify[t][l] = NotRead
    /\ notify' = [notify EXCEPT ![t][l] = Recipients(RowOf(t, l))]
    /\ pc' = IF \A k \in Subjects(t) \ {l} : notify[t][k] # NotRead
             THEN [pc EXCEPT ![t] = "ending"] ELSE pc
    /\ UNCHANGED <<table, students, request, loaded, copy, locked, history, unsettled>>

(* The commits: the rows, the change log and the notifications together. *)
CommitCreate(t) ==
    /\ pc[t] = "ending" /\ request[t].kind = "create"
    /\ lesson' = [l \in Ids |-> IF l \in locked[t] THEN RowOf(t, l) ELSE lesson[l]]
    /\ End(t)
    /\ UNCHANGED <<nextId, students, canceled, raced>>

CommitUpdate(t) ==
    LET l == request[t].lesson IN
    /\ pc[t] = "ending" /\ request[t].kind = "update"
    /\ lesson' = IF locked[t] = {} THEN lesson
                 ELSE [lesson EXCEPT ![l] = [c \in Columns |->
                         IF copy[t][c] # loaded[t][c] THEN copy[t][c] ELSE @[c]]]
    /\ End(t)
    /\ UNCHANGED <<nextId, students, canceled, raced>>

(* Variant: the row is not deleted. *)
CommitDeleteNothing(t) ==
    LET l == request[t].lesson IN
    /\ pc[t] = "ending" /\ request[t].kind = "delete" /\ Free(t, l)
    /\ canceled' = [canceled EXCEPT ![l] = @ + 1]
    /\ End(t)
    /\ UNCHANGED <<lesson, nextId, students, raced>>

(* The DELETE waits for the row and is content to find none. *)
CommitDelete(t) ==
    LET l == request[t].lesson IN
    /\ pc[t] = "ending" /\ request[t].kind = "delete" /\ Free(t, l)
    /\ lesson' = [lesson EXCEPT ![l] = Absent]
    /\ canceled' = [canceled EXCEPT ![l] = @ + 1]
    /\ End(t)
    /\ UNCHANGED <<nextId, students, raced>>

Commit(t) == CommitCreate(t) \/ CommitUpdate(t) \/ CommitDelete(t)
Lose(t) == Running(t) /\ Abort(t)

Next == \/ \E u \in Students, g \in Groups \union {NoGroup} : Switch(u, g)
        \/ \E t \in Txns : \/ StartCreate(t) \/ Load(t) \/ Update(t)
                           \/ \E l \in Ids : Notify(t, l)
                           \/ Commit(t) \/ Lose(t)

Spec == Init /\ [][Next]_vars

-----------------------------------------------------------------------------
Updating(l) == [kind |-> "update", lesson |-> l]
Deleting(l) == [kind |-> "delete", lesson |-> l]

(* A lesson ends after it starts, unless two updates of it overlapped:     *)
(* each of them checked its own fields against a row the other replaced.   *)
(* Deletions may overlap anything.                                         *)
WindowUnlessRaced ==
    \A l \in Ids : Updating(l) \notin raced /\ lesson[l] # Absent =>
                     lesson[l].end > lesson[l].start

(* The students who must hear of a committed change of l by t: those of    *)
(* the group the lesson is in, or was in until it was deleted, who did not *)
(* switch while t was at work; and the lecturer.                           *)
Audience(t, l) ==
    LET row == IF lesson'[l] = Absent THEN lesson[l] ELSE lesson'[l] IN
    IF row = Absent THEN {}
    ELSE {row.lecturer} \union {u \in Students \ unsettled[t] : selection[u] = row.group}

(* Another request has given the lesson that t loaded to another group or  *)
(* lecturer.                                                               *)
Moved(t, l) == /\ request[t] \in Changes /\ lesson[l] # Absent
               /\ \/ lesson[l].group # loaded[t].group
                  \/ lesson[l].lecturer # loaded[t].lecturer

(* Every committed change of a lesson reaches its lecturer and its group,  *)
(* whatever other requests change at the same time, unless they move the   *)
(* lesson between this request's read of the row and its commit.           *)
GroupNotifiedUnlessMoved ==
    [][\A t \in Txns : pc[t] = "ending" /\ Commit(t) =>
         \A l \in Subjects(t) : Moved(t, l) \/ Audience(t, l) \subseteq notify[t][l]]_vars

(* A lesson is announced as canceled once, and only a lesson that is gone, *)
(* unless two deletions of it overlapped; updates may overlap anything.    *)
CanceledOnceUnlessRaced ==
    \A l \in Ids : Deleting(l) \notin raced =>
                     canceled[l] <= 1 /\ (canceled[l] = 1 => lesson[l] = Absent)

=============================================================================
