----------------------------- MODULE LessonsProofs -----------------------------
(* Proofs about Lessons, for any students, groups, requests, times and     *)
(* bounds.                                                                 *)
EXTENDS Lessons, TLAPS

Types ==
    /\ lesson \in [Ids -> Row \union {Absent}]
    /\ nextId \in 1..(MaxLessons + 1)
    /\ selection \in [Students -> Groups \union {NoGroup}]
    /\ switches \in 0..MaxSwitches
    /\ pc \in [Txns -> {"new", "loaded", "reading", "ending", "done"}]
    /\ request \in [Txns -> Creates \union Changes \union {NoRequest}]
    /\ loaded \in [Txns -> Row \union {Absent}]
    /\ copy \in [Txns -> Row \union {Absent}]
    /\ locked \in [Txns -> SUBSET Ids]
    /\ notify \in [Txns -> [Ids -> (SUBSET Users) \union {NotRead}]]
    /\ canceled \in [Ids -> Nat]
    /\ unsettled \in [Txns -> SUBSET Students]
    /\ raced \subseteq Changes

(* A request that is not running has nothing. *)
Idle == \A t \in Txns :
    /\ ~Running(t) => request[t] = NoRequest /\ locked[t] = {} /\ notify[t] = Unread
    /\ Running(t) => request[t] # NoRequest
    /\ pc[t] = "loaded" => notify[t] = Unread

(* Ids the sequence has not given are unused; a row is locked by one       *)
(* request, and only rows that have an id are.                             *)
Locks ==
    /\ \A l \in Ids : l >= nextId => lesson[l] = Absent /\ canceled[l] = 0
    /\ \A t \in Txns : \A l \in locked[t] : l < nextId
    /\ \A t, x \in Txns : \A l \in locked[t] : l \in locked[x] => t = x

(* A create holds consecutive ids that nobody has used. *)
Creating == \A t \in Txns : request[t] \in Creates =>
    /\ pc[t] \in {"reading", "ending"} /\ ValidWindow(request[t])
    /\ \E n \in 1..nextId : locked[t] = n..(n + request[t].occurrences - 1)
    /\ \A l \in locked[t] : lesson[l] = Absent /\ canceled[l] = 0

(* An update that has flushed is valid, and has the lock of its row if it  *)
(* changes it; a delete changes nothing of the row it loaded.              *)
Changing == \A t \in Txns : request[t] \in Changes =>
    /\ loaded[t] \in Row /\ copy[t] \in Row
    /\ request[t].lesson < nextId
    /\ \A x \in Txns : request[x] \in Creates => request[t].lesson \notin locked[x]
    /\ request[t].kind = "delete" => pc[t] # "loaded" /\ copy[t] = loaded[t]
    /\ request[t].kind = "update" /\ pc[t] # "loaded" =>
          /\ ValidWindow(copy[t])
          /\ \/ locked[t] = {} /\ copy[t] = loaded[t]
             \/ locked[t] = {request[t].lesson} /\ lesson[request[t].lesson] # Absent

(* The only update of a lesson has loaded its current row, unless that is  *)
(* deleted; its only deletion is the first.                                *)
Alone == \A t \in Txns : request[t] \in Changes /\ request[t] \notin raced =>
    /\ \A x \in Txns : request[x] = request[t] => x = t
    /\ request[t].kind = "update" => lesson[request[t].lesson] \in {loaded[t], Absent}
    /\ request[t].kind = "delete" => canceled[request[t].lesson] = 0

(* Whom a row concerns, of the students who did not switch. *)
Settled(t, row) == {row.lecturer} \union {u \in Students \ unsettled[t] : selection[u] = row.group}

(* Recipients once read are those of the row the request will leave. *)
Notified == \A t \in Txns : Running(t) => \A l \in Subjects(t) :
    /\ notify[t][l] # NotRead => Settled(t, RowOf(t, l)) \subseteq notify[t][l]
    /\ pc[t] = "ending" => notify[t][l] # NotRead

IInv == /\ Types /\ Idle /\ Locks /\ Creating /\ Changing /\ Alone /\ Notified
        /\ WindowUnlessRaced /\ CanceledOnceUnlessRaced

-----------------------------------------------------------------------------
LEMMA RequestKinds ==
    /\ \A r \in Creates : /\ r.kind = "create" /\ r.group \in Groups /\ r.lecturer \in Lecturers
                          /\ r.start \in Nat /\ r.end \in Nat /\ r.occurrences \in 1..MaxLessons
                          /\ r \notin Changes /\ r # NoRequest
    /\ \A r \in Changes : r.kind \in {"update", "delete"} /\ r.lesson \in Ids
                          /\ r \notin Creates /\ r # NoRequest
    /\ NoRequest \notin Creates /\ NoRequest \notin Changes /\ NoRequest.kind = "none"
<1>1. \A r \in Creates : r.kind = "create" /\ r.group \in Groups /\ r.lecturer \in Lecturers
                         /\ r.start \in Nat /\ r.end \in Nat /\ r.occurrences \in 1..MaxLessons
  BY LessonsAssumption DEF Creates
<1>2. \A r \in Changes : r.kind \in {"update", "delete"} /\ r.lesson \in Ids
  BY DEF Changes
<1>3. NoRequest.kind = "none"
  BY DEF NoRequest
<1> QED  BY <1>1, <1>2, <1>3

LEMMA ChangeIs == \A r \in Changes : /\ r.kind = "update" => r = Updating(r.lesson)
                                     /\ r.kind = "delete" => r = Deleting(r.lesson)
  BY DEF Changes, Updating, Deleting

LEMMA RowFields ==
    /\ \A row \in Row : /\ row.group \in Groups /\ row.lecturer \in Lecturers
                         /\ row.start \in Nat /\ row.end \in Nat /\ row # Absent
    /\ \A g \in Groups, v \in Lecturers, s, e \in Nat :
          [group |-> g, lecturer |-> v, start |-> s, end |-> e] \in Row
  BY AbsentAssumption DEF Row

(* The rows of a series lie an interval apart. *)
LEMMA CreatedRows ==
    ASSUME IInv, NEW t \in Txns, request[t] \in Creates, NEW l \in locked[t]
    PROVE  /\ RowOf(t, l) \in Row /\ RowOf(t, l).end > RowOf(t, l).start
           /\ RowOf(t, l).group = request[t].group /\ RowOf(t, l).lecturer = request[t].lecturer
<1> DEFINE first == CHOOSE k \in locked[t] : \A j \in locked[t] : k <= j
           offset == (l - first) * Interval
<1>1. PICK n \in 1..nextId : locked[t] = n..(n + request[t].occurrences - 1)
  BY DEF IInv, Creating
<1>2. /\ n \in Nat /\ l \in Nat /\ request[t].occurrences \in 1..MaxLessons /\ MaxLessons \in Nat
      /\ request[t].start \in Nat /\ request[t].end \in Nat
      /\ request[t].group \in Groups /\ request[t].lecturer \in Lecturers
      /\ request[t].kind = "create" /\ request[t].end > request[t].start
  BY <1>1, RequestKinds, LessonsAssumption DEF IInv, Types, Creating, ValidWindow, Ids
<1>3. n \in locked[t] /\ \A j \in locked[t] : n <= j
  BY <1>1, <1>2
<1>4. first \in locked[t] /\ \A j \in locked[t] : first <= j
  BY <1>3
<1>5. l - first \in Nat
  BY <1>1, <1>2, <1>4
<1>6. offset \in Nat
  <2>1. \A a, b \in Nat : a * b \in Nat
    OBVIOUS
  <2> QED  BY <1>5, <2>1, LessonsAssumption
<1>7. RowOf(t, l) = [group |-> request[t].group, lecturer |-> request[t].lecturer,
                     start |-> request[t].start + offset, end |-> request[t].end + offset]
  BY <1>2 DEF RowOf
<1> HIDE DEF offset
<1>8. /\ request[t].start + offset \in Nat /\ request[t].end + offset \in Nat
      /\ request[t].end + offset > request[t].start + offset
  BY <1>2, <1>6
<1>9. RowOf(t, l) \in Row
  BY <1>2, <1>7, <1>8, RowFields
<1> QED  BY <1>7, <1>8, <1>9

LEMMA InvInit == Init => IInv
<1> SUFFICES ASSUME Init PROVE IInv
  OBVIOUS
<1>1. Types
  <2>1. 1 \in 1..(MaxLessons + 1) /\ 0 \in 0..MaxSwitches
    BY LessonsAssumption
  <2>2. Unread \in [Ids -> (SUBSET Users) \union {NotRead}]
    BY DEF Unread
  <2> QED  BY <2>1, <2>2 DEF Init, Types
<1>2. Idle /\ Locks
  BY DEF Init, Idle, Locks, Running
<1>3. Creating /\ Changing /\ Alone
  BY RequestKinds DEF Init, Creating, Changing, Alone
<1>4. Notified
  BY DEF Init, Notified, Running
<1>5. WindowUnlessRaced /\ CanceledOnceUnlessRaced
  BY DEF Init, WindowUnlessRaced, CanceledOnceUnlessRaced
<1> QED  BY <1>1, <1>2, <1>3, <1>4, <1>5 DEF IInv

LEMMA SwitchStep ==
    ASSUME IInv, NEW u \in Students, NEW g \in Groups \union {NoGroup}, Switch(u, g)
    PROVE  IInv'
<1>1. /\ selection' = [selection EXCEPT ![u] = g]
      /\ switches < MaxSwitches /\ switches' = switches + 1
      /\ unsettled' = [t \in Txns |-> IF pc[t] \in {"new", "done"} THEN {}
                                      ELSE unsettled[t] \union {u}]
      /\ UNCHANGED <<lesson, nextId, pc, request, loaded, copy, locked, notify, canceled, raced>>
  BY DEF Switch, table, session, history
<1>2. Types'
  <2>1. switches' \in 0..MaxSwitches
    BY <1>1, LessonsAssumption DEF IInv, Types
  <2> QED  BY <1>1, <2>1 DEF IInv, Types
<1>3. Idle' /\ Locks' /\ Creating' /\ Changing' /\ Alone'
  BY <1>1 DEF IInv, Idle, Locks, Creating, Changing, Alone, Running, ValidWindow
<1>4. Notified'
  <2> SUFFICES ASSUME NEW t \in Txns, Running(t)', NEW l \in Subjects(t)'
               PROVE  /\ notify'[t][l] # NotRead => Settled(t, RowOf(t, l))' \subseteq notify'[t][l]
                      /\ pc'[t] = "ending" => notify'[t][l] # NotRead
    BY DEF Notified
  <2>1. Running(t) /\ l \in Subjects(t) /\ RowOf(t, l)' = RowOf(t, l)
    BY <1>1 DEF Running, Subjects, RowOf
  <2>2. unsettled'[t] = unsettled[t] \union {u}
    BY <1>1, <2>1 DEF Running
  <2>3. \A v \in Students \ unsettled'[t] : v \notin unsettled[t] /\ selection'[v] = selection[v]
    BY <1>1, <2>2 DEF IInv, Types
  <2>4. Settled(t, RowOf(t, l))' \subseteq Settled(t, RowOf(t, l))
    BY <2>1, <2>3 DEF Settled
  <2> QED  BY <1>1, <2>1, <2>4 DEF IInv, Notified
<1>5. WindowUnlessRaced' /\ CanceledOnceUnlessRaced'
  BY <1>1 DEF IInv, WindowUnlessRaced, CanceledOnceUnlessRaced
<1> QED  BY <1>2, <1>3, <1>4, <1>5 DEF IInv

LEMMA CreateStep == ASSUME IInv, NEW t \in Txns, StartCreate(t) PROVE IInv'
<1>1. PICK r \in Creates :
        /\ pc[t] = "new" /\ nextId + r.occurrences <= MaxLessons + 1
        /\ ValidWindow(r)
        /\ request' = [request EXCEPT ![t] = r]
        /\ locked' = [locked EXCEPT ![t] = nextId..(nextId + r.occurrences - 1)]
        /\ nextId' = nextId + r.occurrences
        /\ pc' = [pc EXCEPT ![t] = "reading"]
        /\ UNCHANGED <<lesson, selection, switches, loaded, copy, notify, canceled, raced,
                       unsettled>>
  BY DEF StartCreate, students, history
<1> DEFINE new == nextId..(nextId + r.occurrences - 1)
<1>2. /\ nextId \in 1..(MaxLessons + 1) /\ nextId' \in 1..(MaxLessons + 1) /\ nextId' > nextId
      /\ new \subseteq Ids /\ \A l \in new : l >= nextId /\ l < nextId'
  BY <1>1, RequestKinds, LessonsAssumption DEF IInv, Types, Ids
<1>3. locked'[t] = new /\ \A x \in Txns \ {t} : locked'[x] = locked[x]
  BY <1>1 DEF IInv, Types
<1>4. request'[t] = r /\ \A x \in Txns \ {t} : request'[x] = request[x]
  BY <1>1 DEF IInv, Types
<1>5. pc'[t] = "reading" /\ \A x \in Txns \ {t} : pc'[x] = pc[x]
  BY <1>1 DEF IInv, Types
<1>6. \A l \in new : l \in Ids /\ lesson[l] = Absent /\ canceled[l] = 0
  BY <1>2 DEF IInv, Locks
<1>7. Types'
  <2>1. request' \in [Txns -> Creates \union Changes \union {NoRequest}]
    BY <1>1 DEF IInv, Types
  <2>2. locked' \in [Txns -> SUBSET Ids]
    BY <1>1, <1>2 DEF IInv, Types
  <2>3. pc' \in [Txns -> {"new", "loaded", "reading", "ending", "done"}]
    BY <1>1 DEF IInv, Types
  <2> HIDE DEF new
  <2> QED  BY <1>1, <1>2, <2>1, <2>2, <2>3 DEF IInv, Types
<1> HIDE DEF new
<1>8. Idle'
  BY <1>1, <1>3, <1>4, <1>5, RequestKinds DEF IInv, Idle, Running
<1>9. Locks'
  <2>1. \A l \in Ids : l \in Nat /\ (l >= nextId' => l >= nextId)
    BY <1>2 DEF Ids
  <2>2. \A l \in Ids : l >= nextId' => lesson'[l] = Absent /\ canceled'[l] = 0
    BY <1>1, <2>1 DEF IInv, Locks
  <2>3. ASSUME NEW x \in Txns, NEW l \in locked'[x] PROVE l < nextId'
    <3>1. CASE x = t
      BY <3>1, <2>3, <1>2, <1>3
    <3>2. CASE x # t
      <4>1. l \in Ids /\ l < nextId
        BY <3>2, <2>3, <1>3 DEF IInv, Types, Locks
      <4> QED  BY <4>1, <1>2 DEF Ids
    <3> QED  BY <3>1, <3>2
  <2>4. \A x \in Txns \ {t} : \A l \in locked[x] : l \notin new
    <3> SUFFICES ASSUME NEW x \in Txns \ {t}, NEW l \in locked[x], l \in new PROVE FALSE
      OBVIOUS
    <3>1. l \in Ids /\ l < nextId /\ l >= nextId
      BY <1>2 DEF IInv, Types, Locks
    <3> QED  BY <3>1, <1>2 DEF Ids
  <2>5. \A x, y \in Txns : \A l \in locked'[x] : l \in locked'[y] => x = y
    BY <1>3, <2>4 DEF IInv, Locks
  <2> QED  BY <2>2, <2>3, <2>5 DEF Locks
<1>10. Creating'
  <2> SUFFICES ASSUME NEW x \in Txns, request'[x] \in Creates
               PROVE  /\ pc'[x] \in {"reading", "ending"} /\ ValidWindow(request'[x])
                      /\ \E n \in 1..nextId' : locked'[x] = n..(n + request'[x].occurrences - 1)
                      /\ \A l \in locked'[x] : lesson'[l] = Absent /\ canceled'[l] = 0
    BY DEF Creating, ValidWindow
  <2>1. CASE x = t
    <3>1. nextId \in 1..nextId'
      BY <1>2
    <3> QED  BY <2>1, <3>1, <1>1, <1>3, <1>4, <1>5, <1>6 DEF new
  <2>2. CASE x # t
    <3>1. PICK n \in 1..nextId : locked[x] = n..(n + request[x].occurrences - 1)
      BY <2>2, <1>4 DEF IInv, Creating
    <3>2. n \in 1..nextId'
      BY <1>2
    <3>3. /\ pc[x] \in {"reading", "ending"} /\ ValidWindow(request[x])
          /\ \A l \in locked[x] : lesson[l] = Absent /\ canceled[l] = 0
      BY <2>2, <1>4 DEF IInv, Creating
    <3>4. /\ locked'[x] = locked[x] /\ request'[x] = request[x] /\ pc'[x] = pc[x]
          /\ lesson' = lesson /\ canceled' = canceled
      BY <2>2, <1>1, <1>3, <1>4, <1>5
    <3> QED  BY <3>1, <3>2, <3>3, <3>4
  <2> QED  BY <2>1, <2>2
<1>11. Changing'
  <2> SUFFICES ASSUME NEW x \in Txns, request'[x] \in Changes
               PROVE  /\ loaded'[x] \in Row /\ copy'[x] \in Row
                      /\ request'[x].lesson < nextId'
                      /\ \A y \in Txns : request'[y] \in Creates => request'[x].lesson \notin locked'[y]
                      /\ request'[x].kind = "delete" => pc'[x] # "loaded" /\ copy'[x] = loaded'[x]
                      /\ request'[x].kind = "update" /\ pc'[x] # "loaded" =>
                           /\ ValidWindow(copy'[x])
                           /\ \/ locked'[x] = {} /\ copy'[x] = loaded'[x]
                              \/ locked'[x] = {request'[x].lesson} /\ lesson'[request'[x].lesson] # Absent
    BY DEF Changing, ValidWindow
  <2>1. x # t /\ request[x] \in Changes
    BY <1>4, RequestKinds
  <2>2. request[x].lesson \in Ids /\ request[x].lesson < nextId
    BY <2>1, RequestKinds DEF IInv, Changing
  <2>3. request[x].lesson < nextId' /\ request[x].lesson \notin new
    BY <2>2, <1>2 DEF Ids
  <2> QED  BY <2>1, <2>3, <1>1, <1>3, <1>4, <1>5 DEF IInv, Changing
<1>12. Alone'
  <2>1. \A x \in Txns : request'[x] \in Changes => request'[x] = request[x]
    BY <1>4, RequestKinds
  <2> QED  BY <1>1, <2>1 DEF IInv, Alone
<1>13. Notified'
  <2> SUFFICES ASSUME NEW x \in Txns, Running(x)', NEW l \in Subjects(x)'
               PROVE  /\ notify'[x][l] # NotRead => Settled(x, RowOf(x, l))' \subseteq notify'[x][l]
                      /\ pc'[x] = "ending" => notify'[x][l] # NotRead
    BY DEF Notified
  <2>1. CASE x = t
    <3>1. notify[t] = Unread /\ notify'[t] = Unread
      BY <1>1 DEF IInv, Idle, Running
    <3>2. l \in Ids
      BY <2>1, <1>2, <1>3, <1>4, RequestKinds DEF Subjects
    <3> QED  BY <2>1, <1>5, <3>1, <3>2 DEF Unread
  <2>2. CASE x # t
    <3>1. /\ request'[x] = request[x] /\ locked'[x] = locked[x] /\ pc'[x] = pc[x]
          /\ copy' = copy /\ notify' = notify /\ selection' = selection /\ unsettled' = unsettled
      BY <2>2, <1>1, <1>3, <1>4, <1>5
    <3>2. Running(x) /\ l \in Subjects(x) /\ RowOf(x, l)' = RowOf(x, l)
      BY <3>1 DEF Running, Subjects, RowOf
    <3>3. Settled(x, RowOf(x, l))' = Settled(x, RowOf(x, l))
      BY <3>1, <3>2 DEF Settled
    <3> QED  BY <3>1, <3>2, <3>3 DEF IInv, Notified
  <2> QED  BY <2>1, <2>2
<1>14. WindowUnlessRaced' /\ CanceledOnceUnlessRaced'
  BY <1>1 DEF IInv, WindowUnlessRaced, CanceledOnceUnlessRaced
<1> QED  BY <1>7, <1>8, <1>9, <1>10, <1>11, <1>12, <1>13, <1>14 DEF IInv

LEMMA LoadStep == ASSUME IInv, NEW t \in Txns, Load(t) PROVE IInv'
<1>1. PICK r \in Changes :
        /\ pc[t] = "new" /\ lesson[r.lesson] # Absent
        /\ request' = [request EXCEPT ![t] = r]
        /\ loaded' = [loaded EXCEPT ![t] = lesson[r.lesson]]
        /\ \E row \in Assignable(lesson[r.lesson]) :
             /\ r.kind = "delete" => row = lesson[r.lesson]
             /\ copy' = [copy EXCEPT ![t] = row]
        /\ pc' = [pc EXCEPT ![t] = IF r.kind = "update" THEN "loaded" ELSE "reading"]
        /\ raced' = IF \E x \in Txns : request[x] = r THEN raced \union {r} ELSE raced
        /\ UNCHANGED <<lesson, nextId, selection, switches, locked, notify, canceled, unsettled>>
  BY DEF Load, table, students
<1>2. PICK row \in Assignable(lesson[r.lesson]) :
        /\ r.kind = "delete" => row = lesson[r.lesson]
        /\ copy' = [copy EXCEPT ![t] = row]
  BY <1>1
<1>3. r.lesson \in Ids /\ r.kind \in {"update", "delete"} /\ r \notin Creates /\ r # NoRequest
  BY RequestKinds
<1>4. lesson[r.lesson] \in Row
  BY <1>1, <1>3 DEF IInv, Types
<1>5. row \in Row
  <2>1. Times \subseteq Nat /\ lesson[r.lesson].start \in Nat /\ lesson[r.lesson].end \in Nat
    BY <1>4, RowFields, LessonsAssumption
  <2> QED  BY <2>1 DEF Assignable, Row
<1>6. /\ request'[t] = r /\ loaded'[t] = lesson[r.lesson] /\ copy'[t] = row
      /\ pc'[t] = IF r.kind = "update" THEN "loaded" ELSE "reading"
  BY <1>1, <1>2 DEF IInv, Types
<1>7. \A x \in Txns \ {t} : /\ request'[x] = request[x] /\ loaded'[x] = loaded[x]
                            /\ copy'[x] = copy[x] /\ pc'[x] = pc[x]
  BY <1>1, <1>2 DEF IInv, Types
<1>8. ~Running(t) /\ request[t] = NoRequest /\ locked[t] = {} /\ notify[t] = Unread
  BY <1>1 DEF IInv, Idle, Running
<1>9. raced \subseteq raced' /\ raced' \subseteq Changes
  BY <1>1 DEF IInv, Types
<1>10. Types'
  <2>1. request' \in [Txns -> Creates \union Changes \union {NoRequest}]
    BY <1>1 DEF IInv, Types
  <2>2. /\ loaded' \in [Txns -> Row \union {Absent}] /\ copy' \in [Txns -> Row \union {Absent}]
        /\ pc' \in [Txns -> {"new", "loaded", "reading", "ending", "done"}]
    BY <1>1, <1>2, <1>4, <1>5 DEF IInv, Types
  <2> QED  BY <1>1, <1>9, <2>1, <2>2 DEF IInv, Types
<1>11. Idle'
  BY <1>1, <1>3, <1>6, <1>7, <1>8 DEF IInv, Idle, Running
<1>12. Locks'
  BY <1>1 DEF IInv, Locks
<1>13. Creating'
  BY <1>1, <1>3, <1>6, <1>7 DEF IInv, Creating, ValidWindow
<1>14. Changing'
  <2> SUFFICES ASSUME NEW x \in Txns, request'[x] \in Changes
               PROVE  /\ loaded'[x] \in Row /\ copy'[x] \in Row
                      /\ request'[x].lesson < nextId'
                      /\ \A y \in Txns : request'[y] \in Creates => request'[x].lesson \notin locked'[y]
                      /\ request'[x].kind = "delete" => pc'[x] # "loaded" /\ copy'[x] = loaded'[x]
                      /\ request'[x].kind = "update" /\ pc'[x] # "loaded" =>
                           /\ ValidWindow(copy'[x])
                           /\ \/ locked'[x] = {} /\ copy'[x] = loaded'[x]
                              \/ locked'[x] = {request'[x].lesson} /\ lesson'[request'[x].lesson] # Absent
    BY DEF Changing, ValidWindow
  <2>1. \A y \in Txns : request'[y] \in Creates => y # t /\ request[y] \in Creates
    BY <1>3, <1>6, <1>7
  <2>2. CASE x = t
    <3>1. r.lesson < nextId
      BY <1>1, <1>3, <1>4, RowFields DEF IInv, Types, Locks, Ids
    <3>2. \A y \in Txns : request'[y] \in Creates => r.lesson \notin locked'[y]
      BY <1>1, <2>1 DEF IInv, Creating
    <3> QED  BY <2>2, <1>1, <1>2, <1>3, <1>4, <1>5, <1>6, <3>1, <3>2
  <2>3. CASE x # t
    BY <2>1, <2>3, <1>1, <1>7 DEF IInv, Changing
  <2> QED  BY <2>2, <2>3
<1>15. Alone'
  <2> SUFFICES ASSUME NEW x \in Txns, request'[x] \in Changes, request'[x] \notin raced'
               PROVE  /\ \A y \in Txns : request'[y] = request'[x] => y = x
                      /\ request'[x].kind = "update" =>
                           lesson'[request'[x].lesson] \in {loaded'[x], Absent}
                      /\ request'[x].kind = "delete" => canceled'[request'[x].lesson] = 0
    BY DEF Alone
  <2>1. r \notin raced' => \A y \in Txns : request[y] # r
    BY <1>1
  <2>2. CASE x = t
    <3>1. \A y \in Txns : request'[y] = request'[x] => y = x
      BY <1>6, <1>7, <2>1, <2>2
    <3>2. r.kind = "delete" => canceled[r.lesson] = 0
      <4> SUFFICES ASSUME r.kind = "delete" PROVE canceled[r.lesson] = 0
        OBVIOUS
      <4>1. r = Deleting(r.lesson) /\ r \notin raced
        BY <1>6, <1>9, <2>2, ChangeIs
      <4>2. canceled[r.lesson] \in Nat /\ canceled[r.lesson] <= 1 /\ canceled[r.lesson] # 1
        BY <1>1, <1>3, <4>1 DEF IInv, Types, CanceledOnceUnlessRaced
      <4> QED  BY <4>2
    <3> QED  BY <1>1, <1>6, <2>2, <3>1, <3>2
  <2>3. CASE x # t
    <3>1. request[x] \in Changes /\ request[x] \notin raced /\ request'[x] = request[x]
      BY <2>3, <1>7, <1>9
    <3>2. request[x] # r
      BY <1>7, <2>1, <2>3, <3>1
    <3> QED  BY <1>1, <1>6, <1>7, <2>3, <3>1, <3>2 DEF IInv, Alone
  <2> QED  BY <2>2, <2>3
<1>16. Notified'
  <2> SUFFICES ASSUME NEW x \in Txns, Running(x)', NEW l \in Subjects(x)'
               PROVE  /\ notify'[x][l] # NotRead => Settled(x, RowOf(x, l))' \subseteq notify'[x][l]
                      /\ pc'[x] = "ending" => notify'[x][l] # NotRead
    BY DEF Notified
  <2>1. CASE x = t
    <3>1. notify'[t] = Unread /\ pc'[t] # "ending"
      BY <1>1, <1>6, <1>8
    <3>2. l \in Ids
      BY <2>1, <1>3, <1>6 DEF Subjects
    <3> QED  BY <2>1, <3>1, <3>2 DEF Unread
  <2>2. CASE x # t
    <3>1. /\ request'[x] = request[x] /\ locked'[x] = locked[x] /\ pc'[x] = pc[x]
          /\ copy'[x] = copy[x] /\ notify' = notify /\ selection' = selection
          /\ unsettled' = unsettled
      BY <2>2, <1>1, <1>7
    <3>2. Running(x) /\ l \in Subjects(x) /\ RowOf(x, l)' = RowOf(x, l)
      BY <3>1 DEF Running, Subjects, RowOf
    <3>3. Settled(x, RowOf(x, l))' = Settled(x, RowOf(x, l))
      BY <3>1, <3>2 DEF Settled
    <3> QED  BY <3>1, <3>2, <3>3 DEF IInv, Notified
  <2> QED  BY <2>1, <2>2
<1>17. WindowUnlessRaced' /\ CanceledOnceUnlessRaced'
  BY <1>1, <1>9 DEF IInv, WindowUnlessRaced, CanceledOnceUnlessRaced
<1> QED  BY <1>10, <1>11, <1>12, <1>13, <1>14, <1>15, <1>16, <1>17 DEF IInv

LEMMA NotifyStep == ASSUME IInv, NEW t \in Txns, NEW k \in Ids, Notify(t, k) PROVE IInv'
<1>1. /\ pc[t] = "reading" /\ k \in Subjects(t) /\ notify[t][k] = NotRead
      /\ notify' = [notify EXCEPT ![t][k] = Recipients(RowOf(t, k))]
      /\ pc' = IF \A j \in Subjects(t) \ {k} : notify[t][j] # NotRead
               THEN [pc EXCEPT ![t] = "ending"] ELSE pc
      /\ UNCHANGED <<lesson, nextId, selection, switches, request, loaded, copy, locked, canceled,
                     raced, unsettled>>
  BY DEF Notify, table, students, history
<1>2. Running(t)
  BY <1>1 DEF Running
<1>3. RowOf(t, k) \in Row
  <2>1. request[t] \in Creates \/ request[t] \in Changes
    BY <1>2 DEF IInv, Types, Idle
  <2>2. CASE request[t] \in Creates
    BY <2>2, <1>1, RequestKinds, CreatedRows DEF Subjects
  <2>3. CASE request[t] \in Changes
    BY <2>3, RequestKinds DEF IInv, Changing, RowOf
  <2> QED  BY <2>1, <2>2, <2>3
<1>4. /\ Recipients(RowOf(t, k)) \in SUBSET Users /\ Recipients(RowOf(t, k)) # NotRead
      /\ Settled(t, RowOf(t, k)) \subseteq Recipients(RowOf(t, k))
  BY <1>3, RowFields, AbsentAssumption DEF Recipients, Users, NotRead, Settled
<1>5. /\ notify'[t][k] = Recipients(RowOf(t, k))
      /\ \A j \in Ids \ {k} : notify'[t][j] = notify[t][j]
      /\ \A x \in Txns \ {t} : notify'[x] = notify[x]
  BY <1>1 DEF IInv, Types
<1>6. /\ pc'[t] \in {"reading", "ending"} /\ \A x \in Txns \ {t} : pc'[x] = pc[x]
      /\ pc'[t] = "ending" => \A j \in Subjects(t) \ {k} : notify[t][j] # NotRead
  BY <1>1 DEF IInv, Types
<1>7. Types'
  <2>1. pc' \in [Txns -> {"new", "loaded", "reading", "ending", "done"}]
    BY <1>1 DEF IInv, Types
  <2>2. notify' \in [Txns -> [Ids -> (SUBSET Users) \union {NotRead}]]
    BY <1>1, <1>4 DEF IInv, Types
  <2> QED  BY <1>1, <2>1, <2>2 DEF IInv, Types
<1>8. Idle'
  BY <1>1, <1>2, <1>5, <1>6 DEF IInv, Idle, Running
<1>9. Locks' /\ Alone'
  BY <1>1 DEF IInv, Locks, Alone
<1>10. Creating'
  BY <1>1, <1>6 DEF IInv, Creating, ValidWindow
<1>11. Changing'
  BY <1>1, <1>6 DEF IInv, Changing, ValidWindow
<1>12. Notified'
  <2> SUFFICES ASSUME NEW x \in Txns, Running(x)', NEW l \in Subjects(x)'
               PROVE  /\ notify'[x][l] # NotRead => Settled(x, RowOf(x, l))' \subseteq notify'[x][l]
                      /\ pc'[x] = "ending" => notify'[x][l] # NotRead
    BY DEF Notified
  <2>1. l \in Subjects(x) /\ RowOf(x, l)' = RowOf(x, l)
    BY <1>1 DEF Subjects, RowOf
  <2>2. Settled(x, RowOf(x, l))' = Settled(x, RowOf(x, l))
    BY <1>1, <2>1 DEF Settled
  <2>3. l \in Ids
    BY <2>1, <1>2, <1>6, RequestKinds DEF IInv, Types, Idle, Subjects, Running
  <2>4. CASE x = t /\ l = k
    BY <2>2, <2>4, <1>4, <1>5
  <2>5. CASE x = t /\ l # k
    BY <2>1, <2>2, <2>3, <2>5, <1>2, <1>5, <1>6 DEF IInv, Notified
  <2>6. CASE x # t
    BY <2>1, <2>2, <2>6, <1>5, <1>6 DEF IInv, Notified, Running
  <2> QED  BY <2>4, <2>5, <2>6
<1>13. WindowUnlessRaced' /\ CanceledOnceUnlessRaced'
  BY <1>1 DEF IInv, WindowUnlessRaced, CanceledOnceUnlessRaced
<1> QED  BY <1>7, <1>8, <1>9, <1>10, <1>11, <1>12, <1>13 DEF IInv

LEMMA UpdateStep == ASSUME IInv, NEW t \in Txns, Update(t), ~Abort(t) PROVE IInv'
<1> DEFINE l == request[t].lesson
           writes == copy[t] # loaded[t]
<1>1. /\ pc[t] = "loaded" /\ ValidWindow(copy[t])
      /\ writes => Free(t, l) /\ lesson[l] # Absent
      /\ locked' = [locked EXCEPT ![t] = IF writes THEN {l} ELSE {}]
      /\ pc' = [pc EXCEPT ![t] = "reading"]
      /\ UNCHANGED <<lesson, nextId, selection, switches, request, loaded, copy, notify, canceled,
                     raced, unsettled>>
  BY DEF Update, table, students, history
<1>2. /\ request[t] \in Changes /\ request[t].kind = "update" /\ request[t] \notin Creates
      /\ l \in Ids /\ l < nextId
      /\ \A x \in Txns : request[x] \in Creates => l \notin locked[x]
  <2>1. request[t] # NoRequest /\ request[t] \notin Creates
    BY <1>1 DEF IInv, Idle, Creating, Running
  <2>2. request[t] \in Changes
    BY <2>1 DEF IInv, Types
  <2> QED  BY <1>1, <2>1, <2>2, RequestKinds DEF IInv, Changing
<1> HIDE DEF l, writes
<1>3. locked'[t] \subseteq {l} /\ \A x \in Txns \ {t} : locked'[x] = locked[x]
  BY <1>1 DEF IInv, Types
<1>4. pc'[t] = "reading" /\ \A x \in Txns \ {t} : pc'[x] = pc[x]
  BY <1>1 DEF IInv, Types
<1>5. Types'
  <2>1. locked' \in [Txns -> SUBSET Ids]
    BY <1>1, <1>2 DEF IInv, Types
  <2>2. pc' \in [Txns -> {"new", "loaded", "reading", "ending", "done"}]
    BY <1>1 DEF IInv, Types
  <2> QED  BY <1>1, <2>1, <2>2 DEF IInv, Types
<1>6. Idle'
  BY <1>1, <1>3, <1>4 DEF IInv, Idle, Running
<1>7. Locks'
  <2>1. \A x \in Txns : \A k \in locked'[x] : k < nextId
    BY <1>2, <1>3 DEF IInv, Locks
  <2>2. \A x \in Txns \ {t} : l \in locked'[t] => l \notin locked[x]
    <3>1. CASE writes
      BY <1>1, <3>1 DEF Free
    <3>2. CASE ~writes
      BY <1>1, <3>2 DEF IInv, Types
    <3> QED  BY <3>1, <3>2
  <2>3. \A x, y \in Txns : \A k \in locked'[x] : k \in locked'[y] => x = y
    BY <1>3, <2>2 DEF IInv, Locks
  <2> QED  BY <1>1, <2>1, <2>3 DEF IInv, Locks
<1>8. Creating'
  BY <1>1, <1>2, <1>3, <1>4 DEF IInv, Creating, ValidWindow
<1>9. Changing'
  <2> SUFFICES ASSUME NEW x \in Txns, request[x] \in Changes
               PROVE  /\ loaded[x] \in Row /\ copy[x] \in Row
                      /\ request[x].lesson < nextId
                      /\ \A y \in Txns : request[y] \in Creates => request[x].lesson \notin locked'[y]
                      /\ request[x].kind = "delete" => pc'[x] # "loaded" /\ copy[x] = loaded[x]
                      /\ request[x].kind = "update" /\ pc'[x] # "loaded" =>
                           /\ ValidWindow(copy[x])
                           /\ \/ locked'[x] = {} /\ copy[x] = loaded[x]
                              \/ locked'[x] = {request[x].lesson} /\ lesson[request[x].lesson] # Absent
    BY <1>1 DEF Changing, ValidWindow
  <2>1. CASE x = t
    <3>1. \/ locked'[t] = {} /\ copy[t] = loaded[t]
          \/ locked'[t] = {l} /\ lesson[l] # Absent
      BY <1>1 DEF IInv, Types, writes
    <3>2. \A y \in Txns : request[y] \in Creates => request[t].lesson \notin locked'[y]
      BY <1>2, <1>3 DEF l
    <3> QED  BY <1>1, <1>2, <2>1, <3>1, <3>2 DEF IInv, Changing, l
  <2>2. CASE x # t
    <3>1. \A y \in Txns : request[y] \in Creates => request[x].lesson \notin locked'[y]
      BY <1>2, <1>3 DEF IInv, Changing
    <3> QED  BY <1>3, <1>4, <2>2, <3>1 DEF IInv, Changing
  <2> QED  BY <2>1, <2>2
<1>10. Alone'
  BY <1>1 DEF IInv, Alone
<1>11. Notified'
  <2> SUFFICES ASSUME NEW x \in Txns, Running(x)', NEW k \in Subjects(x)'
               PROVE  /\ notify'[x][k] # NotRead => Settled(x, RowOf(x, k))' \subseteq notify'[x][k]
                      /\ pc'[x] = "ending" => notify'[x][k] # NotRead
    BY DEF Notified
  <2>1. CASE x = t
    <3>1. notify'[t] = Unread /\ k \in Ids
      BY <1>1, <1>2, <2>1 DEF IInv, Idle, Subjects, l, Changes
    <3> QED  BY <1>4, <2>1, <3>1 DEF Unread
  <2>2. CASE x # t
    <3>1. Running(x) /\ k \in Subjects(x) /\ RowOf(x, k)' = RowOf(x, k)
      BY <1>1, <1>3, <1>4, <2>2 DEF Running, Subjects, RowOf
    <3>2. Settled(x, RowOf(x, k))' = Settled(x, RowOf(x, k))
      BY <1>1, <3>1 DEF Settled
    <3> QED  BY <1>1, <1>4, <2>2, <3>1, <3>2 DEF IInv, Notified
  <2> QED  BY <2>1, <2>2
<1>12. WindowUnlessRaced' /\ CanceledOnceUnlessRaced'
  BY <1>1 DEF IInv, WindowUnlessRaced, CanceledOnceUnlessRaced
<1> QED  BY <1>5, <1>6, <1>7, <1>8, <1>9, <1>10, <1>11, <1>12 DEF IInv

(* What x, if it is a change that has not raced, finds of the lessons D.   *)
Bears(x, D) == request[x] \in Changes \ raced /\ request[x].lesson \in D =>
    /\ request[x].kind = "update" => lesson'[request[x].lesson] = Absent
    /\ request[x].kind = "delete" => canceled'[request[x].lesson] = 0

(* A transaction that ends, having changed the lessons D, which only it    *)
(* had locked, in a way that another request at work on one of them, as    *)
(* long as it has not raced, can expect.                                   *)
LEMMA EndStep ==
    ASSUME IInv, NEW t \in Txns, End(t), UNCHANGED <<nextId, selection, switches, raced>>,
           lesson' \in [Ids -> Row \union {Absent}], canceled' \in [Ids -> Nat],
           NEW D \in SUBSET Ids,
           \A k \in Ids \ D : lesson'[k] = lesson[k] /\ canceled'[k] = canceled[k],
           \A k \in D : k < nextId /\ \A x \in Txns \ {t} : k \notin locked[x],
           \A x \in Txns \ {t} : Bears(x, D)
    PROVE  Types' /\ Idle' /\ Locks' /\ Creating' /\ Changing' /\ Alone' /\ Notified'
<1>1. /\ pc'[t] = "done" /\ request'[t] = NoRequest /\ locked'[t] = {} /\ notify'[t] = Unread
      /\ \A x \in Txns \ {t} :
            /\ pc'[x] = pc[x] /\ request'[x] = request[x] /\ copy'[x] = copy[x]
            /\ loaded'[x] = loaded[x] /\ locked'[x] = locked[x] /\ notify'[x] = notify[x]
            /\ unsettled'[x] = unsettled[x]
  BY DEF End, IInv, Types
<1>2. Types'
  <2>1. Unread \in [Ids -> (SUBSET Users) \union {NotRead}]
    BY DEF Unread
  <2>2. /\ pc' \in [Txns -> {"new", "loaded", "reading", "ending", "done"}]
        /\ request' \in [Txns -> Creates \union Changes \union {NoRequest}]
    BY DEF End, IInv, Types
  <2>3. /\ copy' \in [Txns -> Row \union {Absent}] /\ loaded' \in [Txns -> Row \union {Absent}]
        /\ locked' \in [Txns -> SUBSET Ids] /\ unsettled' \in [Txns -> SUBSET Students]
    BY DEF End, IInv, Types
  <2>4. notify' \in [Txns -> [Ids -> (SUBSET Users) \union {NotRead}]]
    BY <2>1 DEF End, IInv, Types
  <2> QED  BY <2>2, <2>3, <2>4 DEF IInv, Types
<1>3. Idle'
  BY <1>1 DEF IInv, Idle, Running
<1>4. Locks'
  <2>1. \A k \in Ids : k >= nextId' => lesson'[k] = Absent /\ canceled'[k] = 0
    <3> SUFFICES ASSUME NEW k \in Ids, k >= nextId PROVE lesson'[k] = Absent /\ canceled'[k] = 0
      OBVIOUS
    <3>1. k \notin D
      BY DEF IInv, Types, Ids
    <3> QED  BY <3>1 DEF IInv, Locks
  <2>2. \A x \in Txns : \A k \in locked'[x] : k < nextId'
    BY <1>1 DEF IInv, Locks
  <2>3. \A x, y \in Txns : \A k \in locked'[x] : k \in locked'[y] => x = y
    BY <1>1 DEF IInv, Locks
  <2> QED  BY <2>1, <2>2, <2>3 DEF Locks
<1>5. Creating'
  <2> SUFFICES ASSUME NEW x \in Txns, request'[x] \in Creates
               PROVE  /\ pc'[x] \in {"reading", "ending"} /\ ValidWindow(request'[x])
                      /\ \E n \in 1..nextId' : locked'[x] = n..(n + request'[x].occurrences - 1)
                      /\ \A k \in locked'[x] : lesson'[k] = Absent /\ canceled'[k] = 0
    BY DEF Creating, ValidWindow
  <2>1. x # t /\ request[x] \in Creates
    BY <1>1, RequestKinds
  <2>2. \A k \in locked[x] : k \in Ids \ D
    BY <2>1 DEF IInv, Types
  <2>3. /\ pc[x] \in {"reading", "ending"} /\ ValidWindow(request[x])
        /\ \E n \in 1..nextId : locked[x] = n..(n + request[x].occurrences - 1)
        /\ \A k \in locked[x] : lesson[k] = Absent /\ canceled[k] = 0
    BY <2>1 DEF IInv, Creating
  <2>4. nextId' = nextId
    OBVIOUS
  <2> QED  BY <1>1, <2>1, <2>2, <2>3, <2>4
<1>6. Changing'
  <2> SUFFICES ASSUME NEW x \in Txns, request'[x] \in Changes
               PROVE  /\ loaded'[x] \in Row /\ copy'[x] \in Row
                      /\ request'[x].lesson < nextId'
                      /\ \A y \in Txns : request'[y] \in Creates => request'[x].lesson \notin locked'[y]
                      /\ request'[x].kind = "delete" => pc'[x] # "loaded" /\ copy'[x] = loaded'[x]
                      /\ request'[x].kind = "update" /\ pc'[x] # "loaded" =>
                           /\ ValidWindow(copy'[x])
                           /\ \/ locked'[x] = {} /\ copy'[x] = loaded'[x]
                              \/ locked'[x] = {request'[x].lesson} /\ lesson'[request'[x].lesson] # Absent
    BY DEF Changing, ValidWindow
  <2>1. x # t /\ request[x] \in Changes /\ request[x].lesson \in Ids
    BY <1>1, RequestKinds
  <2>2. locked[x] = {request[x].lesson} => lesson'[request[x].lesson] = lesson[request[x].lesson]
    BY <2>1
  <2>3. \A y \in Txns : request'[y] \in Creates => request[x].lesson \notin locked'[y]
    BY <1>1, <2>1, RequestKinds DEF IInv, Changing
  <2> QED  BY <1>1, <2>1, <2>2, <2>3 DEF IInv, Changing
<1>7. Alone'
  <2> SUFFICES ASSUME NEW x \in Txns, request'[x] \in Changes, request'[x] \notin raced'
               PROVE  /\ \A y \in Txns : request'[y] = request'[x] => y = x
                      /\ request'[x].kind = "update" =>
                           lesson'[request'[x].lesson] \in {loaded'[x], Absent}
                      /\ request'[x].kind = "delete" => canceled'[request'[x].lesson] = 0
    BY DEF Alone
  <2>1. x # t /\ request[x] \in Changes \ raced /\ request[x].lesson \in Ids
        /\ request'[x] = request[x] /\ loaded'[x] = loaded[x]
    BY <1>1, RequestKinds
  <2>2. \A y \in Txns : request'[y] = request'[x] => y = x
    BY <1>1, <2>1, RequestKinds DEF IInv, Alone
  <2>3. CASE request[x].lesson \in D
    BY <2>1, <2>2, <2>3 DEF Bears
  <2>4. CASE request[x].lesson \notin D
    BY <2>1, <2>2, <2>4 DEF IInv, Alone
  <2> QED  BY <2>3, <2>4
<1>8. Notified'
  <2> SUFFICES ASSUME NEW x \in Txns, Running(x)', NEW k \in Subjects(x)'
               PROVE  /\ notify'[x][k] # NotRead => Settled(x, RowOf(x, k))' \subseteq notify'[x][k]
                      /\ pc'[x] = "ending" => notify'[x][k] # NotRead
    BY DEF Notified
  <2>1. x # t
    BY <1>1 DEF Running
  <2>2. Running(x) /\ k \in Subjects(x) /\ RowOf(x, k)' = RowOf(x, k)
    BY <1>1, <2>1 DEF Running, Subjects, RowOf
  <2>3. Settled(x, RowOf(x, k))' = Settled(x, RowOf(x, k))
    BY <1>1, <2>1, <2>2 DEF Settled
  <2> QED  BY <1>1, <2>1, <2>2, <2>3 DEF IInv, Notified
<1> QED  BY <1>2, <1>3, <1>4, <1>5, <1>6, <1>7, <1>8

LEMMA AbortStep == ASSUME IInv, NEW t \in Txns, Abort(t) PROVE IInv'
<1>1. End(t) /\ UNCHANGED <<lesson, nextId, selection, switches, canceled, raced>>
  BY DEF Abort, table, students, history
<1>2. Types' /\ Idle' /\ Locks' /\ Creating' /\ Changing' /\ Alone' /\ Notified'
  <2> DEFINE D == {}
  <2>1. D \in SUBSET Ids
    OBVIOUS
  <2>2. lesson' \in [Ids -> Row \union {Absent}] /\ canceled' \in [Ids -> Nat]
    BY <1>1 DEF IInv, Types
  <2>3. \A k \in Ids \ D : lesson'[k] = lesson[k] /\ canceled'[k] = canceled[k]
    BY <1>1
  <2>4. \A k \in D : k < nextId /\ \A x \in Txns \ {t} : k \notin locked[x]
    OBVIOUS
  <2>5. \A x \in Txns \ {t} : Bears(x, D)
    BY DEF Bears
  <2> HIDE DEF D
  <2> QED  BY <1>1, <2>1, <2>2, <2>3, <2>4, <2>5, EndStep
<1>3. WindowUnlessRaced' /\ CanceledOnceUnlessRaced'
  BY <1>1 DEF IInv, WindowUnlessRaced, CanceledOnceUnlessRaced
<1> QED  BY <1>2, <1>3 DEF IInv

LEMMA CommitCreateStep == ASSUME IInv, NEW t \in Txns, CommitCreate(t) PROVE IInv'
<1>1. /\ pc[t] = "ending" /\ request[t].kind = "create"
      /\ lesson' = [l \in Ids |-> IF l \in locked[t] THEN RowOf(t, l) ELSE lesson[l]]
      /\ End(t) /\ UNCHANGED <<nextId, selection, switches, canceled, raced>>
  BY DEF CommitCreate, students
<1>2. request[t] \in Creates
  BY <1>1, RequestKinds DEF IInv, Types
<1>3. \A l \in locked[t] : /\ l \in Ids /\ l < nextId /\ canceled[l] = 0
                           /\ lesson'[l] \in Row /\ lesson'[l].end > lesson'[l].start
  BY <1>1, <1>2, CreatedRows DEF IInv, Types, Locks, Creating
<1>4. \A l \in Ids \ locked[t] : lesson'[l] = lesson[l] /\ canceled'[l] = canceled[l]
  BY <1>1
<1>5. lesson' \in [Ids -> Row \union {Absent}] /\ canceled' \in [Ids -> Nat]
  <2>1. lesson' = [l \in Ids |-> lesson'[l]]
    BY <1>1
  <2>2. \A l \in Ids : lesson'[l] \in Row \union {Absent}
    BY <1>3, <1>4 DEF IInv, Types
  <2> QED  BY <1>1, <2>1, <2>2 DEF IInv, Types
<1>6. Types' /\ Idle' /\ Locks' /\ Creating' /\ Changing' /\ Alone' /\ Notified'
  <2>1. locked[t] \in SUBSET Ids
    BY DEF IInv, Types
  <2>2. \A k \in locked[t] : k < nextId /\ \A x \in Txns \ {t} : k \notin locked[x]
    BY DEF IInv, Locks
  <2>3. \A x \in Txns \ {t} : Bears(x, locked[t])
    BY <1>2 DEF IInv, Changing, Bears
  <2> QED  BY <1>1, <1>4, <1>5, <2>1, <2>2, <2>3, EndStep
<1>7. WindowUnlessRaced'
  BY <1>1, <1>3, <1>4 DEF IInv, WindowUnlessRaced
<1>8. CanceledOnceUnlessRaced'
  BY <1>1, <1>3, <1>4 DEF IInv, CanceledOnceUnlessRaced
<1> QED  BY <1>6, <1>7, <1>8 DEF IInv

(* The row an update leaves: the copy itself, if nobody else changed it.   *)
LEMMA UpdatedRow ==
    ASSUME IInv, NEW t \in Txns, CommitUpdate(t)
    PROVE  LET l == request[t].lesson IN
           /\ request[t] \in Changes /\ request[t].kind = "update" /\ l \in Ids
           /\ lesson'[l] \in Row \union {Absent} /\ \A k \in Ids \ {l} : lesson'[k] = lesson[k]
           /\ lesson' \in [Ids -> Row \union {Absent}]
           /\ \/ locked[t] = {} /\ lesson' = lesson
              \/ locked[t] = {l} /\ lesson[l] # Absent /\ lesson'[l] # Absent
           /\ request[t] \notin raced => lesson[l] \in {loaded[t], Absent}
           /\ lesson[l] = loaded[t] => lesson'[l] = copy[t]
           /\ lesson'[l] # Absent => \A c \in Columns : lesson[l][c] = loaded[t][c] =>
                                                      lesson'[l][c] = copy[t][c]
           /\ copy[t] \in Row /\ loaded[t] \in Row /\ copy[t].end > copy[t].start
<1> DEFINE l == request[t].lesson
<1>1. /\ pc[t] = "ending" /\ request[t].kind = "update"
      /\ lesson' = IF locked[t] = {} THEN lesson
                   ELSE [lesson EXCEPT ![l] = [c \in Columns |->
                           IF copy[t][c] # loaded[t][c] THEN copy[t][c] ELSE lesson[l][c]]]
  BY DEF CommitUpdate
<1>2. request[t] \in Changes
  BY <1>1, RequestKinds DEF IInv, Types
<1>3. l \in Ids
  BY <1>2, RequestKinds
<1>4. /\ loaded[t] \in Row /\ copy[t] \in Row /\ ValidWindow(copy[t])
      /\ \/ locked[t] = {} /\ copy[t] = loaded[t]
         \/ locked[t] = {l} /\ lesson[l] # Absent
  BY <1>1, <1>2 DEF IInv, Changing
<1>5. request[t] \notin raced => lesson[l] \in {loaded[t], Absent}
  BY <1>1, <1>2 DEF IInv, Alone
<1> HIDE DEF l
<1>6. CASE locked[t] = {}
  BY <1>1, <1>2, <1>3, <1>4, <1>5, <1>6 DEF l, IInv, Types, ValidWindow
<1>7. CASE locked[t] # {}
  <2> DEFINE row == [c \in Columns |->
                       IF copy[t][c] # loaded[t][c] THEN copy[t][c] ELSE lesson[l][c]]
  <2>1. locked[t] = {l} /\ lesson[l] \in Row
    BY <1>3, <1>4, <1>7 DEF IInv, Types
  <2>2. /\ row.group \in Groups /\ row.lecturer \in Lecturers /\ row.start \in Nat /\ row.end \in Nat
    BY <1>4, <2>1, RowFields DEF Columns
  <2>3. row = [group |-> row.group, lecturer |-> row.lecturer, start |-> row.start, end |-> row.end]
    BY DEF Columns
  <2>4. row \in Row
    <3> HIDE DEF row
    <3> QED  BY <2>2, <2>3, RowFields
  <2>5. lesson' = [lesson EXCEPT ![l] = row]
    BY <1>1, <1>7
  <2>6. lesson[l] = loaded[t] => row = copy[t]
    <3> SUFFICES ASSUME lesson[l] = loaded[t] PROVE row = copy[t]
      OBVIOUS
    <3>1. copy[t] = [c \in Columns |-> copy[t][c]]
      BY <1>4 DEF Row, Columns
    <3>2. \A c \in Columns : row[c] = copy[t][c]
      OBVIOUS
    <3> QED  BY <3>1, <3>2
  <2> HIDE DEF row
  <2>7. /\ lesson'[l] = row /\ \A k \in Ids \ {l} : lesson'[k] = lesson[k]
        /\ lesson' \in [Ids -> Row \union {Absent}]
    BY <1>3, <2>4, <2>5 DEF IInv, Types
  <2>8. row # Absent
    BY <2>4, RowFields
  <2>9. \A c \in Columns : lesson[l][c] = loaded[t][c] => lesson'[l][c] = copy[t][c]
    BY <2>7 DEF row
  <2> QED
    BY <1>1, <1>2, <1>3, <1>4, <1>5, <2>1, <2>4, <2>6, <2>7, <2>8, <2>9, RowFields
    DEF l, ValidWindow
<1> QED  BY <1>6, <1>7

LEMMA CommitUpdateStep == ASSUME IInv, NEW t \in Txns, CommitUpdate(t) PROVE IInv'
<1> DEFINE l == request[t].lesson
<1>1. End(t) /\ UNCHANGED <<nextId, selection, switches, canceled, raced>>
  BY DEF CommitUpdate, students
<1>2. /\ request[t] \in Changes /\ l \in Ids
      /\ \A k \in Ids \ {l} : lesson'[k] = lesson[k]
      /\ lesson' \in [Ids -> Row \union {Absent}]
      /\ \/ locked[t] = {} /\ lesson' = lesson
         \/ locked[t] = {l} /\ lesson[l] # Absent /\ lesson'[l] # Absent
      /\ request[t] \notin raced => lesson[l] \in {loaded[t], Absent}
      /\ lesson[l] = loaded[t] => lesson'[l] = copy[t]
      /\ request[t] = Updating(l)
      /\ copy[t] \in Row /\ loaded[t] \in Row /\ copy[t].end > copy[t].start
  BY UpdatedRow, ChangeIs
<1>3. \A x \in Txns \ {t} : request[x] \in Changes \ raced /\ request[x].lesson = l =>
                              request[x].kind = "delete" /\ canceled[l] = 0
  BY <1>2, RequestKinds, ChangeIs DEF IInv, Alone
<1> HIDE DEF l
<1>4. Types' /\ Idle' /\ Locks' /\ Creating' /\ Changing' /\ Alone' /\ Notified'
  <2>1. locked[t] \in SUBSET Ids /\ canceled' \in [Ids -> Nat]
    BY <1>1 DEF IInv, Types
  <2>2. \A k \in locked[t] : k < nextId /\ \A x \in Txns \ {t} : k \notin locked[x]
    BY DEF IInv, Locks
  <2>3. \A x \in Txns \ {t} : Bears(x, locked[t])
    BY <1>1, <1>2, <1>3 DEF Bears
  <2>4. \A k \in Ids \ locked[t] : lesson'[k] = lesson[k] /\ canceled'[k] = canceled[k]
    BY <1>1, <1>2
  <2> QED  BY <1>1, <1>2, <2>1, <2>2, <2>3, <2>4, EndStep
<1>5. WindowUnlessRaced'
  <2> SUFFICES ASSUME NEW k \in Ids, Updating(k) \notin raced, lesson'[k] # Absent
               PROVE  lesson'[k].end > lesson'[k].start
    BY <1>1 DEF WindowUnlessRaced
  <2>1. CASE k = l
    <3>1. CASE locked[t] = {}
      BY <1>2, <3>1 DEF IInv, WindowUnlessRaced
    <3>2. CASE locked[t] # {}
      BY <1>2, <2>1, <3>2
    <3> QED  BY <3>1, <3>2
  <2>2. CASE k # l
    BY <1>2, <2>2 DEF IInv, WindowUnlessRaced
  <2> QED  BY <2>1, <2>2
<1>6. CanceledOnceUnlessRaced'
  <2> SUFFICES ASSUME NEW k \in Ids, Deleting(k) \notin raced
               PROVE  canceled[k] <= 1 /\ (canceled[k] = 1 => lesson'[k] = Absent)
    BY <1>1 DEF CanceledOnceUnlessRaced
  <2> QED  BY <1>2, RowFields DEF IInv, CanceledOnceUnlessRaced
<1> QED  BY <1>4, <1>5, <1>6 DEF IInv

LEMMA CommitDeleteStep == ASSUME IInv, NEW t \in Txns, CommitDelete(t) PROVE IInv'
<1> DEFINE l == request[t].lesson
<1>1. /\ pc[t] = "ending" /\ request[t].kind = "delete" /\ Free(t, l)
      /\ lesson' = [lesson EXCEPT ![l] = Absent]
      /\ canceled' = [canceled EXCEPT ![l] = @ + 1]
      /\ End(t) /\ UNCHANGED <<nextId, selection, switches, raced>>
  BY DEF CommitDelete, students
<1>2. request[t] \in Changes
  BY <1>1, RequestKinds DEF IInv, Types
<1>3. l \in Ids /\ l < nextId /\ loaded[t] \in Row
  BY <1>2, RequestKinds DEF IInv, Changing
<1>4. /\ request[t] = Deleting(l) /\ (request[t] \notin raced => canceled[l] = 0)
      /\ \A x \in Txns \ {t} : request[x] \in Changes \ raced /\ request[x].lesson = l =>
                                   request[x].kind = "update"
  BY <1>1, <1>2, RequestKinds, ChangeIs DEF IInv, Alone
<1>5. /\ lesson'[l] = Absent /\ canceled'[l] = canceled[l] + 1
      /\ \A k \in Ids \ {l} : lesson'[k] = lesson[k] /\ canceled'[k] = canceled[k]
      /\ lesson' \in [Ids -> Row \union {Absent}] /\ canceled' \in [Ids -> Nat]
  BY <1>1, <1>3 DEF IInv, Types
<1> HIDE DEF l
<1>6. Types' /\ Idle' /\ Locks' /\ Creating' /\ Changing' /\ Alone' /\ Notified'
  <2> DEFINE D == {l}
  <2>1. D \in SUBSET Ids
    BY <1>3
  <2>2. \A k \in D : k < nextId /\ \A x \in Txns \ {t} : k \notin locked[x]
    BY <1>1, <1>3 DEF Free
  <2>3. \A x \in Txns \ {t} : Bears(x, D)
    BY <1>4, <1>5 DEF Bears
  <2>4. \A k \in Ids \ D : lesson'[k] = lesson[k] /\ canceled'[k] = canceled[k]
    BY <1>5
  <2> HIDE DEF D
  <2> QED  BY <1>1, <1>5, <2>1, <2>2, <2>3, <2>4, EndStep
<1>7. WindowUnlessRaced'
  BY <1>1, <1>5 DEF IInv, WindowUnlessRaced
<1>8. CanceledOnceUnlessRaced'
  <2> SUFFICES ASSUME NEW k \in Ids, Deleting(k) \notin raced
               PROVE  canceled'[k] <= 1 /\ (canceled'[k] = 1 => lesson'[k] = Absent)
    BY <1>1 DEF CanceledOnceUnlessRaced
  <2>1. CASE k = l
    BY <1>4, <1>5, <2>1
  <2>2. CASE k # l
    BY <1>5, <2>2 DEF IInv, CanceledOnceUnlessRaced
  <2> QED  BY <2>1, <2>2
<1> QED  BY <1>6, <1>7, <1>8 DEF IInv

LEMMA InvNext == IInv /\ [Next]_vars => IInv'
<1> SUFFICES ASSUME IInv, [Next]_vars PROVE IInv'
  OBVIOUS
<1>1. ASSUME NEW u \in Students, NEW g \in Groups \union {NoGroup}, Switch(u, g) PROVE IInv'
  BY <1>1, SwitchStep
<1>2. ASSUME NEW t \in Txns,
             \/ StartCreate(t) \/ Load(t) \/ Update(t) \/ \E l \in Ids : Notify(t, l)
             \/ Commit(t) \/ Lose(t)
      PROVE  IInv'
  <2>1. CASE StartCreate(t)
    BY <2>1, CreateStep
  <2>2. CASE Load(t)
    BY <2>2, LoadStep
  <2>3. CASE Update(t)
    BY <2>3, UpdateStep, AbortStep
  <2>4. CASE \E l \in Ids : Notify(t, l)
    BY <2>4, NotifyStep
  <2>5. CASE Commit(t)
    BY <2>5, CommitCreateStep, CommitUpdateStep, CommitDeleteStep DEF Commit
  <2>6. CASE Lose(t)
    BY <2>6, AbortStep DEF Lose
  <2> QED  BY <1>2, <2>1, <2>2, <2>3, <2>4, <2>5, <2>6
<1>3. CASE UNCHANGED vars
  <2>1. UNCHANGED <<lesson, nextId, selection, switches, pc, request, loaded, copy, locked, notify,
                    canceled, raced, unsettled>>
    BY <1>3 DEF vars, table, students, session, history
  <2>2. Types' /\ Idle' /\ Locks' /\ Creating' /\ Changing'
    BY <2>1 DEF IInv, Types, Idle, Locks, Creating, Changing, Running, ValidWindow
  <2>3. Alone'
    BY <2>1 DEF IInv, Alone
  <2>4. Notified'
    BY <2>1 DEF IInv, Notified, Running, Subjects, RowOf, Settled
  <2>5. WindowUnlessRaced' /\ CanceledOnceUnlessRaced'
    BY <2>1 DEF IInv, WindowUnlessRaced, CanceledOnceUnlessRaced
  <2> QED  BY <2>2, <2>3, <2>4, <2>5 DEF IInv
<1> QED  BY <1>1, <1>2, <1>3 DEF Next

THEOREM Invariant == Spec => []IInv
  BY InvInit, InvNext, PTL DEF Spec

-----------------------------------------------------------------------------
(* Rows, ids, requests and recipients are of the types the code gives them. *)
THEOREM TypesHold == Spec => []TypeOK
<1>1. IInv => TypeOK
  BY DEF IInv, Types, TypeOK
<1> QED  BY <1>1, Invariant, PTL

(* A lesson ends after it starts, unless two updates of it overlapped:     *)
(* _validate_time_window sees the session's row, and an UPDATE sets only   *)
(* the columns that differ from it.                                        *)
THEOREM WindowHolds == Spec => []WindowUnlessRaced
<1>1. IInv => WindowUnlessRaced
  BY DEF IInv
<1> QED  BY <1>1, Invariant, PTL

(* Unless two deletions overlap, delete_lesson announces a lesson as       *)
(* canceled once, and the row is gone, whatever updates overlap it.        *)
THEOREM CanceledOnce == Spec => []CanceledOnceUnlessRaced
<1>1. IInv => CanceledOnceUnlessRaced
  BY DEF IInv
<1> QED  BY <1>1, Invariant, PTL

(* The recipients a commit has read are all those its lesson concerns, but *)
(* for students who changed their group meanwhile.                         *)
LEMMA CommitNotifies ==
    ASSUME IInv, NEW t \in Txns, pc[t] = "ending", Commit(t), NEW l \in Subjects(t), ~Moved(t, l)
    PROVE  Audience(t, l) \subseteq notify[t][l]
<1> DEFINE row == IF lesson'[l] = Absent THEN lesson[l] ELSE lesson'[l]
<1>1. Settled(t, RowOf(t, l)) \subseteq notify[t][l]
  BY DEF IInv, Notified, Running
<1> SUFFICES ASSUME row # Absent
             PROVE  row.group = RowOf(t, l).group /\ row.lecturer = RowOf(t, l).lecturer
  BY <1>1 DEF Audience, Settled
<1>2. CASE CommitCreate(t)
  <2>1. request[t].kind = "create" /\ l \in locked[t]
    BY <1>2 DEF CommitCreate, Subjects
  <2>2. request[t] \in Creates
    BY <2>1, RequestKinds DEF IInv, Types
  <2>3. lesson'[l] = RowOf(t, l)
    BY <1>2, <2>1 DEF CommitCreate, IInv, Types
  <2> QED  BY <2>2, <2>1, <2>3, CreatedRows, RowFields
<1>3. CASE CommitUpdate(t)
  <2>1. request[t].kind = "update" /\ l = request[t].lesson /\ RowOf(t, l) = copy[t]
    BY <1>3 DEF CommitUpdate, Subjects, RowOf
  <2>2. lesson'[l] # Absent /\ lesson[l] # Absent /\ row = lesson'[l]
    BY <1>3, <2>1, UpdatedRow
  <2>3. lesson[l].group = loaded[t].group /\ lesson[l].lecturer = loaded[t].lecturer
    BY <1>3, <2>1, <2>2, UpdatedRow DEF Moved
  <2> QED  BY <1>3, <2>1, <2>2, <2>3, UpdatedRow DEF Columns
<1>4. CASE CommitDelete(t)
  <2>1. request[t].kind = "delete" /\ l = request[t].lesson /\ RowOf(t, l) = copy[t]
    BY <1>4 DEF CommitDelete, Subjects, RowOf
  <2>2. request[t] \in Changes
    BY <2>1, RequestKinds DEF IInv, Types
  <2>3. l \in Ids /\ copy[t] = loaded[t]
    BY <2>1, <2>2, RequestKinds DEF IInv, Changing
  <2>4. lesson'[l] = Absent
    BY <1>4, <2>1, <2>3 DEF CommitDelete, IInv, Types
  <2> QED  BY <2>1, <2>2, <2>3, <2>4 DEF Moved
<1> QED  BY <1>2, <1>3, <1>4 DEF Commit

(* Every change of a lesson that no other request moves meanwhile reaches  *)
(* its lecturer and its group (_lesson_recipients).                        *)
THEOREM GroupNotified == Spec => GroupNotifiedUnlessMoved
<1>1. IInv => \A t \in Txns : pc[t] = "ending" /\ Commit(t) =>
                \A l \in Subjects(t) : Moved(t, l) \/ Audience(t, l) \subseteq notify[t][l]
  BY CommitNotifies
<1> QED  BY <1>1, Invariant, PTL DEF GroupNotifiedUnlessMoved

===============================================================================
