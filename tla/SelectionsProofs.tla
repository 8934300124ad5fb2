--------------------------- MODULE SelectionsProofs ---------------------------
(* Proofs about Selections, for any users, groups, selections to begin     *)
(* with and requests.                                                      *)
EXTENDS Selections, FiniteSetTheorems, TLAPS

Types ==
    /\ rows \subseteq Row /\ nextId \in Nat
    /\ deleted \in [Txns -> SUBSET Row] /\ inserted \in [Txns -> SUBSET Row]
    /\ seen \in [Txns -> SUBSET Row]
    /\ pc \in [Txns -> {"new", "reading", "deleting", "writing", "ending", "done"}]
    /\ request \in [Txns -> Requests]
    /\ existing \in [Txns -> Row \union {NoRow}]
    /\ groups \subseteq Groups
    /\ answer \in [Txns -> {"none", "refused", "ok", "error"}]
    /\ log \in Seq(Entry)
    /\ raced \subseteq Users /\ disturbed \subseteq Txns

AtWork(t) == pc[t] \notin {"new", "done"}

(* A transaction holds rows of its user only, and only while it writes.    *)
OwnRows == \A t \in Txns :
    /\ \A r \in deleted[t] \union inserted[t] \union seen[t] : r.user = UserOf(t)
    /\ pc[t] \notin {"writing", "ending"} => deleted[t] = {} /\ inserted[t] = {}
    /\ pc[t] \in {"new", "reading"} => seen[t] = {}
    /\ pc[t] = "writing" => inserted[t] = {} /\ IsPut(t)
    /\ ~IsPut(t) => inserted[t] = {}
    /\ pc[t] = "ending" /\ IsPut(t) => \E r \in inserted[t] : inserted[t] = {r}

(* Who races is found out.                                                 *)
RacesKnown == \A t, x \in Txns : AtWork(t) /\ AtWork(x) /\ UserOf(t) = UserOf(x) /\ t # x =>
    /\ UserOf(t) \in raced
    /\ IsPut(x) => t \in disturbed

(* No other request adds a row of t's user while t is at work. *)
Undisturbed(t) == t \notin disturbed

(* What an undisturbed request is to delete is all there is. *)
SeesAll == \A t \in Txns : Undisturbed(t) =>
    /\ pc[t] = "deleting" /\ seen[t] # {} => Selected(rows, UserOf(t)) \subseteq seen[t]
    /\ pc[t] \in {"writing", "ending"} => Selected(rows, UserOf(t)) \subseteq deleted[t]

Single == \A u \in Users \ RacedPuts : \A a, b \in rows : a.user = u /\ b.user = u => a = b

Errors == \A t \in Txns : answer[t] = "error" => UserOf(t) \in RacedPuts \/ GroupGone(t)

(* A request that is alone has read the row there is. *)
ReadsCurrent == \A t \in Txns :
    UserOf(t) \notin raced /\ pc[t] \in {"deleting", "writing", "ending"} =>
        Selected(rows, UserOf(t)) = {existing[t]} \ {NoRow}

DisturbedRaced == \A t \in disturbed : UserOf(t) \in raced

IInv == /\ Types /\ OwnRows /\ RacesKnown /\ DisturbedRaced /\ SeesAll /\ Single /\ Errors /\ ReadsCurrent
        /\ AuditReplays

-----------------------------------------------------------------------------
LEMMA RequestFields ==
    ASSUME Types, NEW t \in Txns
    PROVE  /\ UserOf(t) \in Users /\ request[t].kind \in {"put", "delete"}
           /\ IsPut(t) => request[t].group \in Groups
<1>1. request[t] \in Requests
  BY DEF Types
<1>2. CASE request[t] \in [kind : {"put"}, user : Users, group : Groups]
  BY <1>2 DEF UserOf, IsPut
<1>3. CASE request[t] \in [kind : {"delete"}, user : Users, group : {NoRow}]
  BY <1>3 DEF UserOf, IsPut
<1> QED  BY <1>1, <1>2, <1>3 DEF Requests

LEMMA AtMostOne == ASSUME NEW S, \A a, b \in S : a = b
                   PROVE  IsFiniteSet(S) /\ Cardinality(S) <= 1
<1>1. CASE S = {}
  BY <1>1, FS_EmptySet
<1>2. CASE S # {}
  <2>1. PICK a : a \in S
    BY <1>2
  <2>2. S = {a}
    BY <2>1
  <2>3. IsFiniteSet({a}) /\ Cardinality({a}) = 1
    BY FS_Singleton
  <2> QED  BY <2>2, <2>3
<1> QED  BY <1>1, <1>2

(* What a log longer by the entry e leaves to u. *)
Extended(entries, longer, e, u) ==
    /\ longer \in Seq(Entry) /\ Len(longer) = Len(entries) + 1 /\ longer[Len(longer)] = e
    /\ Len(entries) \in Nat
    /\ \A i \in 1..Len(entries) : longer[i] = entries[i]
    /\ \A n \in 0..Len(entries) : LeftAfter(longer, n, u) = LeftAfter(entries, n, u)
    /\ LeftAfter(longer, Len(longer), u) =
         IF e.user = u THEN e.new ELSE LeftAfter(entries, Len(entries), u)

(* The log replayed up to an entry does not depend on what comes after.    *)
LEMMA LeftAfterAppend ==
    ASSUME NEW entries \in Seq(Entry), NEW e \in Entry, NEW u,
           NEW longer, longer = Append(entries, e)
    PROVE  Extended(entries, longer, e, u)
<1> DEFINE last == Len(entries) + 1
<1>1. /\ longer \in Seq(Entry) /\ Len(longer) = last /\ longer[last] = e
      /\ Len(entries) \in Nat /\ \A i \in 1..Len(entries) : longer[i] = entries[i]
  OBVIOUS
<1>2. ASSUME NEW n \in 0..Len(entries)
      PROVE  LeftAfter(longer, n, u) = LeftAfter(entries, n, u)
  <2>1. \A i \in 1..n : longer[i] = entries[i] /\ \A j \in (i + 1)..n : longer[j] = entries[j]
    BY <1>1
  <2>2. LastEntry(longer, n, u) = LastEntry(entries, n, u)
    BY <2>1 DEF LastEntry
  <2>3. CASE LastEntry(entries, n, u) = {}
    BY <2>2, <2>3 DEF LeftAfter
  <2>4. CASE LastEntry(entries, n, u) # {}
    <3> DEFINE i == CHOOSE k \in LastEntry(entries, n, u) : TRUE
    <3>1. LeftAfter(longer, n, u) = longer[i].new /\ LeftAfter(entries, n, u) = entries[i].new
      BY <2>2, <2>4 DEF LeftAfter
    <3>2. i \in 1..n
      BY <2>4 DEF LastEntry
    <3> HIDE DEF i
    <3> QED  BY <2>1, <3>1, <3>2
  <2> QED  BY <2>3, <2>4
<1>3. CASE e.user = u
  <2>1. LastEntry(longer, last, u) = {last}
    <3>1. last \in LastEntry(longer, last, u)
      BY <1>1, <1>3 DEF LastEntry
    <3>2. ASSUME NEW i \in LastEntry(longer, last, u) PROVE i = last
      <4>1. i \in 1..last /\ last \notin (i + 1)..last
        BY <1>1, <1>3 DEF LastEntry
      <4> QED  BY <1>1, <4>1
    <3> QED  BY <3>1, <3>2
  <2>2. LeftAfter(longer, last, u) = longer[last].new
    BY <2>1 DEF LeftAfter
  <2> QED  BY <1>1, <1>2, <1>3, <2>2 DEF Extended
<1>4. CASE e.user # u
  <2>1. LastEntry(longer, last, u) = LastEntry(longer, Len(entries), u)
    <3>1. \A i \in 1..last : longer[i].user = u => i \in 1..Len(entries)
      BY <1>1, <1>4
    <3>2. \A i \in 1..Len(entries) : /\ i \in 1..last
                                     /\ \A j \in (i + 1)..Len(entries) : j \in (i + 1)..last
                                     /\ \A j \in (i + 1)..last : j \in (i + 1)..Len(entries) \/ j = last
      BY <1>1
    <3> QED  BY <1>1, <1>4, <3>1, <3>2 DEF LastEntry
  <2>2. LeftAfter(longer, last, u) = LeftAfter(longer, Len(entries), u)
    <3> DEFINE Left(S) == IF S = {} THEN FirstRow(u) ELSE longer[CHOOSE i \in S : TRUE].new
    <3>1. /\ LeftAfter(longer, last, u) = Left(LastEntry(longer, last, u))
          /\ LeftAfter(longer, Len(entries), u) = Left(LastEntry(longer, Len(entries), u))
      BY DEF LeftAfter
    <3> HIDE DEF Left
    <3> QED  BY <2>1, <3>1
  <2>3. Len(entries) \in 0..Len(entries)
    BY <1>1
  <2> QED  BY <1>1, <1>2, <1>4, <2>2, <2>3 DEF Extended
<1> QED  BY <1>3, <1>4

(* A log that replays goes on replaying with an entry that starts from the *)
(* row it left and ends at the row in the new table.                       *)
LEMMA ReplaysAppend ==
    ASSUME NEW R, NEW S, NEW entries \in Seq(Entry), NEW e \in Entry, NEW u,
           Replays(R, entries, u),
           e.user = u => e.old = LeftAfter(entries, Len(entries), u),
           Selected(S, u) = {IF e.user = u THEN e.new ELSE LeftAfter(entries, Len(entries), u)}
                              \ {NoRow}
    PROVE  Replays(S, Append(entries, e), u)
<1> DEFINE longer == Append(entries, e)
<1> HIDE DEF longer
<1>0. longer = Append(entries, e)
  BY DEF longer
<1>1. Extended(entries, longer, e, u)
  BY <1>0, LeftAfterAppend
<1>2. ASSUME NEW i \in 1..Len(longer), longer[i].user = u
      PROVE  longer[i].old = LeftAfter(longer, i - 1, u)
  <2>1. CASE i \in 1..Len(entries)
    <3>1. i - 1 \in 0..Len(entries) /\ longer[i] = entries[i]
      BY <1>1, <2>1 DEF Extended
    <3>2. entries[i].old = LeftAfter(entries, i - 1, u)
      BY <1>2, <2>1, <3>1 DEF Replays
    <3> QED  BY <1>1, <3>1, <3>2 DEF Extended
  <2>2. CASE i = Len(entries) + 1
    <3>1. longer[i] = e /\ i - 1 = Len(entries) /\ Len(entries) \in 0..Len(entries)
      BY <1>1, <2>2 DEF Extended
    <3> QED  BY <1>1, <1>2, <3>1 DEF Extended
  <2> QED  BY <1>1, <2>1, <2>2 DEF Extended
<1>3. Replays(S, longer, u)
  BY <1>1, <1>2 DEF Extended, Replays
<1> QED  BY <1>3 DEF longer

LEMMA InvInit == Init => IInv
<1> SUFFICES ASSUME Init PROVE IInv
  OBVIOUS
<1>1. /\ rows = InitialRows /\ nextId = 1 /\ log = <<>> /\ raced = {} /\ disturbed = {}
      /\ groups = Groups
      /\ deleted = [t \in Txns |-> {}] /\ inserted = [t \in Txns |-> {}]
      /\ seen = [t \in Txns |-> {}] /\ pc = [t \in Txns |-> "new"]
      /\ request \in [Txns -> Requests] /\ existing = [t \in Txns |-> NoRow]
      /\ answer = [t \in Txns |-> "none"]
  BY DEF Init, StoreInit
<1>2. \A r \in InitialRows : /\ r \in Row /\ r.user \in Users
                             /\ r = [id |-> 0, user |-> r.user, group |-> Initial[r.user]]
  BY SelectionsAssumption DEF InitialRows, Row
<1>3. Types
  BY <1>1, <1>2 DEF Types
<1>4. OwnRows /\ RacesKnown /\ DisturbedRaced /\ SeesAll /\ Errors /\ ReadsCurrent
  BY <1>1 DEF OwnRows, RacesKnown, DisturbedRaced, SeesAll, Errors, ReadsCurrent, AtWork
<1>5. Single
  BY <1>1, <1>2 DEF Single
<1>6. AuditReplays
  <2> SUFFICES ASSUME NEW u \in Users
               PROVE  Selected(rows, u) = {LeftAfter(<<>>, 0, u)} \ {NoRow}
    BY <1>1 DEF AuditReplays, Replays
  <2>1. LeftAfter(<<>>, 0, u) = FirstRow(u)
    BY DEF LeftAfter, LastEntry
  <2>2. CASE Selected(InitialRows, u) = {}
    BY <1>1, <2>1, <2>2 DEF FirstRow
  <2>3. CASE Selected(InitialRows, u) # {}
    <3>1. PICK r : r \in Selected(InitialRows, u)
      BY <2>3
    <3>2. Selected(InitialRows, u) = {r} /\ r # NoRow
      BY <1>2, <3>1, SelectionsAssumption DEF Selected
    <3>3. FirstRow(u) = r
      BY <3>2 DEF FirstRow
    <3> QED  BY <1>1, <2>1, <3>2, <3>3
  <2> QED  BY <2>2, <2>3
<1> QED  BY <1>3, <1>4, <1>5, <1>6 DEF IInv

(* Who has raced PUT requests is known by the history alone. *)
LEMMA RacedPutsKept ==
    ASSUME UNCHANGED request, disturbed \subseteq disturbed'
    PROVE  RacedPuts \subseteq RacedPuts' /\ (disturbed' = disturbed => RacedPuts' = RacedPuts)
  BY DEF RacedPuts, UserOf, IsPut

(* An undisturbed PUT knows its student's PUT requests as apart. *)
LEMMA RacedPutsPut ==
    ASSUME NEW t \in Txns, IsPut(t), UserOf(t) \notin RacedPuts PROVE Undisturbed(t)
  BY DEF RacedPuts, Undisturbed

(* Nobody else who is at work for the same user adds a row. *)
LEMMA OthersAddNothing ==
    ASSUME IInv, NEW t \in Txns, NEW x \in Txns \ {t}, AtWork(t), AtWork(x),
           UserOf(x) = UserOf(t), Undisturbed(t)
    PROVE  ~IsPut(x) /\ UserOf(t) \in raced
  BY DEF IInv, RacesKnown, Undisturbed

LEMMA BeginStep == ASSUME IInv, NEW t \in Txns, Begin(t) PROVE IInv'
<1>1. /\ pc[t] = "new" /\ pc' = [pc EXCEPT ![t] = "reading"]
      /\ raced' = IF Running(UserOf(t)) = {} THEN raced ELSE raced \union {UserOf(t)}
      /\ disturbed' = disturbed \union Disturbs(t)
      /\ UNCHANGED <<rows, deleted, inserted, nextId, request, existing, seen, groups, answer, log>>
  BY DEF Begin, store
<1>2. pc'[t] = "reading" /\ \A x \in Txns \ {t} : pc'[x] = pc[x]
  BY <1>1 DEF IInv, Types
<1>3. UserOf(t) \in Users
  BY RequestFields DEF IInv
<1>4. /\ raced \subseteq raced' /\ disturbed \subseteq disturbed' /\ RacedPuts \subseteq RacedPuts'
      /\ Disturbs(t) \subseteq Txns
  BY <1>1, RacedPutsKept DEF Disturbs, Running
<1>5. \A x \in Txns : /\ UserOf(x)' = UserOf(x) /\ IsPut(x)' = IsPut(x)
                      /\ GroupGone(x)' = GroupGone(x)
                      /\ Undisturbed(x)' => Undisturbed(x)
                      /\ Selected(rows, UserOf(x))' = Selected(rows, UserOf(x))
  BY <1>1, <1>4 DEF UserOf, IsPut, GroupGone, Undisturbed, Selected
<1>6. Types'
  <2>1. pc' \in [Txns -> {"new", "reading", "deleting", "writing", "ending", "done"}]
    BY <1>1 DEF IInv, Types
  <2>2. disturbed' \subseteq Txns /\ raced' \subseteq Users
    BY <1>1, <1>3, <1>4 DEF IInv, Types
  <2> QED  BY <1>1, <2>1, <2>2 DEF IInv, Types
<1>7. OwnRows'
  BY <1>1, <1>2, <1>5 DEF IInv, OwnRows
<1>8. RacesKnown'
  <2> SUFFICES ASSUME NEW y \in Txns, NEW x \in Txns, AtWork(y)', AtWork(x)',
                      UserOf(y) = UserOf(x), y # x
               PROVE  /\ UserOf(y) \in raced'
                      /\ IsPut(x) => y \in disturbed'
    BY <1>5 DEF RacesKnown
  <2>1. \A z \in Txns \ {t} : AtWork(z)' => z \in Txns /\ pc[z] \notin {"new", "done"}
    BY <1>2 DEF AtWork
  <2>2. CASE y = t
    BY <1>1, <2>1, <2>2 DEF Running, Disturbs
  <2>3. CASE x = t
    BY <1>1, <2>1, <2>3 DEF Running, Disturbs
  <2>4. CASE y # t /\ x # t
    BY <1>4, <2>1, <2>4 DEF IInv, RacesKnown, AtWork
  <2> QED  BY <2>2, <2>3, <2>4
<1>9. SeesAll'
  BY <1>1, <1>2, <1>5 DEF IInv, SeesAll
<1>10. Single' /\ Errors'
  BY <1>1, <1>4, <1>5 DEF IInv, Single, Errors
<1>11. ReadsCurrent'
  BY <1>1, <1>2, <1>4, <1>5 DEF IInv, ReadsCurrent
<1>12. AuditReplays'
  BY <1>1, <1>4 DEF IInv, AuditReplays
<1>13. DisturbedRaced'
  <2> SUFFICES ASSUME NEW x \in disturbed' PROVE UserOf(x) \in raced'
    BY <1>1 DEF DisturbedRaced, UserOf
  <2>1. CASE x \in disturbed
    BY <1>4, <2>1 DEF IInv, DisturbedRaced
  <2>2. CASE x \in Disturbs(t)
    BY <1>1, <2>2 DEF Disturbs, Running
  <2> QED  BY <1>1, <2>1, <2>2
<1> QED  BY <1>6, <1>7, <1>8, <1>9, <1>10, <1>11, <1>12, <1>13 DEF IInv

(* A request that is refused has done nothing. *)
LEMMA RefuseStep == ASSUME IInv, NEW t \in Txns, Refuse(t) PROVE IInv' /\ answer'[t] = "refused"
<1>1. /\ pc[t] = "new" /\ pc' = [pc EXCEPT ![t] = "done"]
      /\ answer' = [answer EXCEPT ![t] = "refused"]
      /\ UNCHANGED <<rows, deleted, inserted, nextId, request, existing, seen, groups, log, raced,
                     disturbed>>
  BY DEF Refuse, store, races
<1>2. /\ pc'[t] = "done" /\ answer'[t] = "refused"
      /\ \A x \in Txns \ {t} : pc'[x] = pc[x] /\ answer'[x] = answer[x]
  BY <1>1 DEF IInv, Types
<1>3. /\ RacedPuts' = RacedPuts
      /\ \A x \in Txns : /\ UserOf(x)' = UserOf(x) /\ IsPut(x)' = IsPut(x)
                         /\ GroupGone(x)' = GroupGone(x) /\ Undisturbed(x)' = Undisturbed(x)
                         /\ Selected(rows, UserOf(x))' = Selected(rows, UserOf(x))
  BY <1>1, RacedPutsKept DEF UserOf, IsPut, GroupGone, Undisturbed, Selected
<1>4. Types'
  <2>1. /\ pc' \in [Txns -> {"new", "reading", "deleting", "writing", "ending", "done"}]
        /\ answer' \in [Txns -> {"none", "refused", "ok", "error"}]
    BY <1>1 DEF IInv, Types
  <2> QED  BY <1>1, <2>1 DEF IInv, Types
<1>5. OwnRows'
  BY <1>1, <1>2, <1>3 DEF IInv, OwnRows
<1>6. RacesKnown' /\ DisturbedRaced'
  <2>1. \A x \in Txns : AtWork(x)' => AtWork(x)
    BY <1>2 DEF AtWork
  <2>2. RacesKnown'
    BY <1>1, <1>3, <2>1 DEF IInv, RacesKnown
  <2>3. DisturbedRaced'
    BY <1>1 DEF IInv, DisturbedRaced, UserOf
  <2> QED  BY <2>2, <2>3
<1>7. SeesAll'
  BY <1>1, <1>2, <1>3 DEF IInv, SeesAll
<1>8. Single' /\ Errors'
  BY <1>1, <1>2, <1>3 DEF IInv, Single, Errors
<1>9. ReadsCurrent'
  BY <1>1, <1>2, <1>3 DEF IInv, ReadsCurrent
<1>10. AuditReplays'
  BY <1>1 DEF IInv, AuditReplays
<1> QED  BY <1>2, <1>4, <1>5, <1>6, <1>7, <1>8, <1>9, <1>10 DEF IInv

(* A group that goes takes nothing with it. *)
LEMMA DeleteGroupStep == ASSUME IInv, NEW g \in Groups, DeleteGroup(g) PROVE IInv' /\ answer' = answer
<1>1. /\ groups' = groups \ {g}
      /\ UNCHANGED <<rows, deleted, inserted, nextId, pc, request, existing, seen, answer, log, raced,
                     disturbed>>
  BY DEF DeleteGroup, store, races
<1>2. /\ RacedPuts' = RacedPuts
      /\ \A x \in Txns : /\ UserOf(x)' = UserOf(x) /\ IsPut(x)' = IsPut(x) /\ AtWork(x)' = AtWork(x)
                         /\ GroupGone(x) => GroupGone(x)'
                         /\ Undisturbed(x)' = Undisturbed(x)
                         /\ Selected(rows, UserOf(x))' = Selected(rows, UserOf(x))
  BY <1>1, RacedPutsKept DEF UserOf, IsPut, AtWork, GroupGone, Undisturbed, Selected
<1>3. Types' /\ OwnRows' /\ RacesKnown' /\ DisturbedRaced'
  BY <1>1, <1>2 DEF IInv, Types, OwnRows, RacesKnown, DisturbedRaced
<1>4. SeesAll' /\ Single' /\ Errors' /\ ReadsCurrent' /\ AuditReplays'
  BY <1>1, <1>2 DEF IInv, SeesAll, Single, Errors, ReadsCurrent, AuditReplays
<1> QED  BY <1>1, <1>3, <1>4 DEF IInv

(* A step of t that changes nothing but its own place, rows and query      *)
(* results leaves what concerns the table and the others.                  *)
LEMMA OwnStep ==
    ASSUME IInv, NEW t \in Txns, NEW p \in {"reading", "deleting", "writing", "ending", "done"},
           AtWork(t), pc' = [pc EXCEPT ![t] = p],
           UNCHANGED <<rows, request, groups, log, raced, disturbed>>, Types',
           \A x \in Txns \ {t} : /\ deleted'[x] = deleted[x] /\ inserted'[x] = inserted[x]
                                 /\ seen'[x] = seen[x] /\ existing'[x] = existing[x]
                                 /\ answer'[x] = answer[x],
           \A r \in deleted'[t] \union inserted'[t] \union seen'[t] : r.user = UserOf(t),
           p \notin {"writing", "ending"} => deleted'[t] = {} /\ inserted'[t] = {},
           p = "reading" => seen'[t] = {},
           p = "writing" => inserted'[t] = {} /\ IsPut(t),
           ~IsPut(t) => inserted'[t] = {},
           p = "ending" /\ IsPut(t) => \E r \in inserted'[t] : inserted'[t] = {r},
           Undisturbed(t) /\ p = "deleting" /\ seen'[t] # {} => Selected(rows, UserOf(t)) \subseteq seen'[t],
           Undisturbed(t) /\ p \in {"writing", "ending"} => Selected(rows, UserOf(t)) \subseteq deleted'[t],
           answer'[t] = "error" => UserOf(t) \in RacedPuts \/ GroupGone(t),
           UserOf(t) \notin raced /\ p \in {"deleting", "writing", "ending"} =>
             Selected(rows, UserOf(t)) = {existing'[t]} \ {NoRow}
    PROVE  IInv'
<1>1. pc'[t] = p /\ \A x \in Txns \ {t} : pc'[x] = pc[x]
  BY DEF IInv, Types
<1>2. /\ RacedPuts' = RacedPuts
      /\ \A x \in Txns : /\ UserOf(x)' = UserOf(x) /\ IsPut(x)' = IsPut(x)
                         /\ GroupGone(x)' = GroupGone(x) /\ Undisturbed(x)' = Undisturbed(x)
                         /\ Selected(rows, UserOf(x))' = Selected(rows, UserOf(x))
  BY RacedPutsKept DEF UserOf, IsPut, GroupGone, Undisturbed, Selected
<1>3. OwnRows'
  <2> SUFFICES ASSUME NEW x \in Txns
               PROVE  /\ \A r \in deleted'[x] \union inserted'[x] \union seen'[x] : r.user = UserOf(x)
                      /\ pc'[x] \notin {"writing", "ending"} => deleted'[x] = {} /\ inserted'[x] = {}
                      /\ pc'[x] \in {"new", "reading"} => seen'[x] = {}
                      /\ pc'[x] = "writing" => inserted'[x] = {} /\ IsPut(x)
                      /\ ~IsPut(x) => inserted'[x] = {}
                      /\ pc'[x] = "ending" /\ IsPut(x) => \E r \in inserted'[x] : inserted'[x] = {r}
    BY <1>2 DEF OwnRows
  <2>1. CASE x = t
    BY <1>1, <2>1
  <2>2. CASE x # t
    BY <1>1, <2>2 DEF IInv, OwnRows
  <2> QED  BY <2>1, <2>2
<1>4. RacesKnown'
  <2>1. \A x \in Txns : AtWork(x)' => AtWork(x)
    BY <1>1 DEF AtWork
  <2> QED  BY <1>2, <2>1 DEF IInv, RacesKnown
<1>5. SeesAll'
  BY <1>1, <1>2 DEF IInv, SeesAll
<1>6. Single' /\ Errors'
  BY <1>2 DEF IInv, Single, Errors
<1>7. ReadsCurrent'
  BY <1>1, <1>2 DEF IInv, ReadsCurrent
<1>8. AuditReplays' /\ DisturbedRaced'
  BY <1>2 DEF IInv, AuditReplays, DisturbedRaced, UserOf
<1> QED  BY <1>3, <1>4, <1>5, <1>6, <1>7, <1>8 DEF IInv

LEMMA FailStep ==
    ASSUME IInv, NEW t \in Txns, AtWork(t), Fail(t), UserOf(t) \in RacedPuts \/ GroupGone(t)
    PROVE  IInv'
<1>1. /\ pc' = [pc EXCEPT ![t] = "done"] /\ answer' = [answer EXCEPT ![t] = "error"]
      /\ deleted' = [deleted EXCEPT ![t] = {}] /\ inserted' = [inserted EXCEPT ![t] = {}]
      /\ UNCHANGED <<rows, nextId, request, existing, seen, groups, log, raced, disturbed>>
  BY DEF Fail, RollBackRows, races
<1>2. Types'
  <2>1. /\ pc' \in [Txns -> {"new", "reading", "deleting", "writing", "ending", "done"}]
        /\ answer' \in [Txns -> {"none", "refused", "ok", "error"}]
        /\ deleted' \in [Txns -> SUBSET Row] /\ inserted' \in [Txns -> SUBSET Row]
    BY <1>1 DEF IInv, Types
  <2> QED  BY <1>1, <2>1 DEF IInv, Types
<1>3. /\ deleted'[t] = {} /\ inserted'[t] = {} /\ seen'[t] = seen[t]
      /\ \A x \in Txns \ {t} : /\ deleted'[x] = deleted[x] /\ inserted'[x] = inserted[x]
                               /\ seen'[x] = seen[x] /\ existing'[x] = existing[x]
                               /\ answer'[x] = answer[x]
  BY <1>1 DEF IInv, Types
<1>4. \A r \in deleted'[t] \union inserted'[t] \union seen'[t] : r.user = UserOf(t)
  BY <1>3 DEF IInv, OwnRows
<1> QED  BY <1>1, <1>2, <1>3, <1>4, OwnStep

LEMMA ReadStep == ASSUME IInv, NEW t \in Txns, Read(t) PROVE IInv'
<1> DEFINE found == Selected(Visible(t), UserOf(t))
<1>1. pc[t] = "reading" /\ AtWork(t)
  BY DEF Read, AtWork
<1>2. deleted[t] = {} /\ inserted[t] = {} /\ seen[t] = {}
  BY <1>1 DEF IInv, OwnRows
<1>3. found = Selected(rows, UserOf(t)) /\ found \subseteq Row
  BY <1>2 DEF Visible, Selected, IInv, Types
<1>4. UserOf(t) \in Users
  BY RequestFields DEF IInv
<1>5. UserOf(t) \notin RacedPuts => \A a, b \in found : a = b
  BY <1>3, <1>4 DEF IInv, Single, Selected
<1> HIDE DEF found
<1>6. CASE Cardinality(found) > 1
  <2>1. UserOf(t) \in RacedPuts
    <3> SUFFICES ASSUME UserOf(t) \notin RacedPuts PROVE FALSE
      OBVIOUS
    <3>1. IsFiniteSet(found) /\ Cardinality(found) <= 1
      BY <1>5, AtMostOne
    <3>2. Cardinality(found) \in Nat
      BY <3>1, FS_CardinalityType
    <3> QED  BY <1>6, <3>1, <3>2
  <2>2. Fail(t)
    BY <1>6 DEF Read, found
  <2> QED  BY <1>1, <2>1, <2>2, FailStep
<1>7. CASE ~(Cardinality(found) > 1)
  <2> DEFINE e == IF found = {} THEN NoRow ELSE CHOOSE r \in found : TRUE
  <2>1. /\ existing' = [existing EXCEPT ![t] = e] /\ pc' = [pc EXCEPT ![t] = "deleting"]
        /\ UNCHANGED <<rows, deleted, inserted, nextId, request, seen, groups, answer, log, raced, disturbed>>
    BY <1>7 DEF Read, found, store, races
  <2>2. e \in Row \union {NoRow}
    BY <1>3
  <2>3. UserOf(t) \notin RacedPuts => found = {e} \ {NoRow}
    BY <1>3, <1>5, SelectionsAssumption
  <2> HIDE DEF e
  <2>4. Types'
    <3>1. /\ pc' \in [Txns -> {"new", "reading", "deleting", "writing", "ending", "done"}]
          /\ existing' \in [Txns -> Row \union {NoRow}]
      BY <2>1, <2>2 DEF IInv, Types
    <3> QED  BY <2>1, <3>1 DEF IInv, Types
  <2>5. UserOf(t) \notin raced => Selected(rows, UserOf(t)) = {existing'[t]} \ {NoRow}
    <3>1. UserOf(t) \notin raced => UserOf(t) \notin RacedPuts
      BY DEF IInv, DisturbedRaced, RacedPuts
    <3>2. existing'[t] = e
      BY <2>1 DEF IInv, Types
    <3> QED  BY <1>3, <2>1, <2>3, <3>1, <3>2
  <2>6. \A x \in Txns \ {t} : existing'[x] = existing[x]
    BY <2>1 DEF IInv, Types
  <2>7. answer'[t] = "error" => UserOf(t) \in RacedPuts \/ GroupGone(t)
    BY <2>1 DEF IInv, Errors
  <2> QED  BY <1>1, <1>2, <2>1, <2>4, <2>5, <2>6, <2>7, OwnStep
<1> QED  BY <1>6, <1>7

LEMMA SnapshotStep == ASSUME IInv, NEW t \in Txns, Snapshot(t) PROVE IInv'
<1> DEFINE S == Selected(rows, UserOf(t))
<1>1. pc[t] = "deleting" /\ AtWork(t)
  BY DEF Snapshot, AtWork
<1>2. deleted[t] = {} /\ inserted[t] = {}
  BY <1>1 DEF IInv, OwnRows
<1>3. S = Selected(Visible(t), UserOf(t)) /\ S \subseteq Row /\ \A r \in S : r.user = UserOf(t)
  BY <1>2 DEF Visible, Selected, IInv, Types
<1> HIDE DEF S
<1>4. /\ seen' = [seen EXCEPT ![t] = S]
      /\ UNCHANGED <<rows, deleted, inserted, nextId, pc, request, existing, groups, answer, log,
                     raced, disturbed>>
  BY <1>3 DEF Snapshot, store, races
<1>5. Types'
  <2>1. seen' \in [Txns -> SUBSET Row]
    BY <1>3, <1>4 DEF IInv, Types
  <2> QED  BY <1>4, <2>1 DEF IInv, Types
<1>6. seen'[t] = S /\ \A x \in Txns \ {t} : seen'[x] = seen[x]
  BY <1>4 DEF IInv, Types
<1>7. pc' = [pc EXCEPT ![t] = "deleting"]
  BY <1>1, <1>4 DEF IInv, Types
<1>8. /\ answer'[t] = "error" => UserOf(t) \in RacedPuts \/ GroupGone(t)
      /\ UserOf(t) \notin raced => Selected(rows, UserOf(t)) = {existing'[t]} \ {NoRow}
  BY <1>1, <1>4 DEF IInv, Errors, ReadsCurrent
<1>9. Selected(rows, UserOf(t)) \subseteq seen'[t]
  BY <1>6 DEF S
<1> QED  BY <1>1, <1>2, <1>3, <1>4, <1>5, <1>6, <1>7, <1>8, <1>9, OwnStep

LEMMA DeleteStep == ASSUME IInv, NEW t \in Txns, Delete(t) PROVE IInv'
<1> DEFINE next == IF IsPut(t) THEN "writing" ELSE "ending"
<1>1. pc[t] = "deleting" /\ AtWork(t)
  BY DEF Delete, AtWork
<1>2. deleted[t] = {} /\ inserted[t] = {}
  BY <1>1 DEF IInv, OwnRows
<1>3. /\ seen[t] = {} => Selected(Visible(t), UserOf(t)) = {}
      /\ deleted' = [deleted EXCEPT ![t] = @ \union (seen[t] \intersect rows)]
      /\ pc' = [pc EXCEPT ![t] = next]
      /\ UNCHANGED <<rows, inserted, nextId, request, existing, seen, groups, answer, log, raced,
                     disturbed>>
  BY DEF Delete, DeleteRows, IsPut, races
<1>4. Types'
  <2>1. /\ pc' \in [Txns -> {"new", "reading", "deleting", "writing", "ending", "done"}]
        /\ deleted' \in [Txns -> SUBSET Row]
    BY <1>3 DEF IInv, Types
  <2> QED  BY <1>3, <2>1 DEF IInv, Types
<1>5. deleted'[t] = seen[t] \intersect rows /\ \A x \in Txns \ {t} : deleted'[x] = deleted[x]
  BY <1>2, <1>3 DEF IInv, Types
<1>6. Undisturbed(t) => Selected(rows, UserOf(t)) \subseteq deleted'[t]
  <2>1. CASE seen[t] = {}
    BY <1>2, <1>3, <2>1 DEF Visible, Selected
  <2>2. CASE seen[t] # {}
    BY <1>1, <1>5, <2>2 DEF IInv, SeesAll, Selected
  <2> QED  BY <2>1, <2>2
<1>7. \A r \in deleted'[t] \union inserted'[t] \union seen'[t] : r.user = UserOf(t)
  BY <1>3, <1>5 DEF IInv, OwnRows
<1>8. /\ answer'[t] = "error" => UserOf(t) \in RacedPuts \/ GroupGone(t)
      /\ UserOf(t) \notin raced => Selected(rows, UserOf(t)) = {existing'[t]} \ {NoRow}
  BY <1>1, <1>3 DEF IInv, Errors, ReadsCurrent
<1>9. next \in {"writing", "ending"} /\ (next = "writing" => IsPut(t)) /\ (next = "ending" => ~IsPut(t))
  OBVIOUS
<1> HIDE DEF next
<1>10. /\ inserted'[t] = {}
       /\ next \in {"reading", "deleting", "writing", "ending", "done"}
       /\ \A x \in Txns \ {t} : /\ deleted'[x] = deleted[x] /\ inserted'[x] = inserted[x]
                                /\ seen'[x] = seen[x] /\ existing'[x] = existing[x]
                                /\ answer'[x] = answer[x]
  BY <1>2, <1>3, <1>5, <1>9
<1> QED  BY <1>1, <1>3, <1>4, <1>6, <1>7, <1>8, <1>9, <1>10, OwnStep

LEMMA InsertStep == ASSUME IInv, NEW t \in Txns, Insert(t) PROVE IInv'
<1> DEFINE new == [id |-> nextId, user |-> UserOf(t), group |-> request[t].group]
           same == {r \in rows \union UNION {inserted[x] : x \in Txns} :
                      r.user = new.user /\ r.group = new.group}
<1>1. pc[t] = "writing" /\ AtWork(t) /\ inserted[t] = {} /\ IsPut(t)
  BY DEF Insert, AtWork, IInv, OwnRows
<1>2. new \in Row /\ new.user = UserOf(t)
  BY <1>1, RequestFields DEF IInv, Types, Row
<1>0. CASE GroupGone(t)
  <2>1. Fail(t)
    BY <1>0 DEF Insert
  <2> QED  BY <1>0, <1>1, <2>1, FailStep
<1>3. CASE KeyTaken(t, same)
  <2>1. Fail(t)
    BY <1>3 DEF Insert
  <2>2. PICK r \in same : r \in rows /\ r \notin deleted[t]
    BY <1>1, <1>3 DEF KeyTaken, Visible
  <2>3. r \in Selected(rows, UserOf(t))
    BY <1>2, <2>2 DEF Selected
  <2>4. ~Undisturbed(t)
    BY <1>1, <2>2, <2>3 DEF IInv, SeesAll
  <2>5. UserOf(t) \in RacedPuts
    BY <1>1, <2>4, RacedPutsPut
  <2> QED  BY <1>1, <2>1, <2>5, FailStep
<1>4. CASE ~KeyTaken(t, same) /\ ~GroupGone(t)
  <2>1. /\ inserted' = [inserted EXCEPT ![t] = @ \union {new}] /\ nextId' = nextId + 1
        /\ pc' = [pc EXCEPT ![t] = "ending"]
        /\ UNCHANGED <<rows, deleted, request, existing, seen, groups, answer, log, raced, disturbed>>
    BY <1>4 DEF Insert, InsertRow, races
  <2> HIDE DEF new, same
  <2>2. Types'
    <3>1. /\ pc' \in [Txns -> {"new", "reading", "deleting", "writing", "ending", "done"}]
          /\ inserted' \in [Txns -> SUBSET Row] /\ nextId' \in Nat
      BY <1>2, <2>1 DEF IInv, Types
    <3> QED  BY <2>1, <3>1 DEF IInv, Types
  <2>3. inserted'[t] = {new} /\ \A x \in Txns \ {t} : inserted'[x] = inserted[x]
    BY <1>1, <2>1 DEF IInv, Types
  <2>4. /\ \A r \in deleted'[t] \union inserted'[t] \union seen'[t] : r.user = UserOf(t)
        /\ \E r \in inserted'[t] : inserted'[t] = {r}
    BY <1>2, <2>1, <2>3 DEF IInv, OwnRows
  <2>5. /\ answer'[t] = "error" => UserOf(t) \in RacedPuts \/ GroupGone(t)
        /\ UserOf(t) \notin raced => Selected(rows, UserOf(t)) = {existing'[t]} \ {NoRow}
        /\ Undisturbed(t) => Selected(rows, UserOf(t)) \subseteq deleted'[t]
    BY <1>1, <2>1 DEF IInv, Errors, ReadsCurrent, SeesAll
  <2> QED  BY <1>1, <2>1, <2>2, <2>3, <2>4, <2>5, OwnStep
<1> QED  BY <1>0, <1>3, <1>4

(* What a commit leaves of each user's rows, and its entry of the log.     *)
LEMMA CommitEffects ==
    ASSUME IInv, NEW t \in Txns, Commit(t)
    PROVE  /\ \A u \in Users \ {UserOf(t)} : Selected(rows', u) = Selected(rows, u)
           /\ ~IsPut(t) => Selected(rows', UserOf(t)) \subseteq Selected(rows, UserOf(t))
           /\ Undisturbed(t) => Selected(rows', UserOf(t)) = inserted[t]
           /\ inserted[t] = {NewRow(t)} \ {NoRow}
           /\ NewRow(t) \in Row \union {NoRow}
           /\ \/ ~IsPut(t) /\ existing[t] = NoRow /\ log' = log
              \/ \E e \in Entry : /\ e.user = UserOf(t) /\ e.old = existing[t] /\ e.new = NewRow(t)
                                  /\ log' = Append(log, e)
<1>1. /\ pc[t] = "ending" /\ rows' = (rows \ deleted[t]) \union inserted[t] /\ log' = Logged(t)
  BY DEF Commit, CommitRows
<1>2. \A r \in deleted[t] \union inserted[t] : r.user = UserOf(t)
  BY DEF IInv, OwnRows
<1>3. \A u \in Users \ {UserOf(t)} : Selected(rows', u) = Selected(rows, u)
  BY <1>1, <1>2 DEF Selected
<1>4. Selected(rows', UserOf(t)) = (Selected(rows, UserOf(t)) \ deleted[t]) \union inserted[t]
  BY <1>1, <1>2 DEF Selected
<1>5. Undisturbed(t) => Selected(rows, UserOf(t)) \subseteq deleted[t]
  BY <1>1 DEF IInv, SeesAll
<1>6. inserted[t] = {NewRow(t)} \ {NoRow} /\ NewRow(t) \in Row \union {NoRow}
  <2>1. inserted[t] \subseteq Row
    BY DEF IInv, Types
  <2>2. CASE inserted[t] = {}
    BY <2>2 DEF NewRow
  <2>3. CASE inserted[t] # {}
    <3>1. PICK r \in inserted[t] : inserted[t] = {r}
      BY <1>1, <2>3 DEF IInv, OwnRows
    <3>2. NewRow(t) = r
      BY <3>1 DEF NewRow
    <3> QED  BY <2>1, <3>1, <3>2, SelectionsAssumption
  <2> QED  BY <2>2, <2>3
<1>7. CASE request[t].kind = "delete" /\ existing[t] = NoRow
  <2>1. log' = log /\ ~IsPut(t)
    BY <1>1, <1>7 DEF Logged, IsPut
  <2> QED  BY <1>3, <1>4, <1>5, <1>6, <1>7, <2>1 DEF IInv, OwnRows
<1>8. CASE ~(request[t].kind = "delete" /\ existing[t] = NoRow)
  <2> DEFINE act == CASE request[t].kind = "delete" -> "delete"
                      [] existing[t] # NoRow -> "update"
                      [] OTHER -> "create"
             e == [user |-> UserOf(t), old |-> existing[t], new |-> NewRow(t), action |-> act]
  <2>1. log' = Append(log, e)
    BY <1>1, <1>8 DEF Logged
  <2>2. act \in {"create", "update", "delete"}
    OBVIOUS
  <2>3. UserOf(t) \in Users /\ existing[t] \in Row \union {NoRow}
    BY RequestFields DEF IInv, Types
  <2> HIDE DEF act
  <2>4. e \in Entry /\ e.user = UserOf(t) /\ e.old = existing[t] /\ e.new = NewRow(t)
    BY <1>6, <2>2, <2>3 DEF Entry
  <2> HIDE DEF e
  <2>5. \E f \in Entry : /\ f.user = UserOf(t) /\ f.old = existing[t] /\ f.new = NewRow(t)
                         /\ log' = Append(log, f)
    BY <2>1, <2>4
  <2>6. ~IsPut(t) => inserted[t] = {}
    BY DEF IInv, OwnRows
  <2> QED  BY <1>3, <1>4, <1>5, <1>6, <2>5, <2>6
<1> QED  BY <1>7, <1>8

LEMMA CommitStep == ASSUME IInv, NEW t \in Txns, Commit(t) PROVE IInv'
<1>1. /\ pc[t] = "ending" /\ AtWork(t)
      /\ rows' = (rows \ deleted[t]) \union inserted[t]
      /\ deleted' = [deleted EXCEPT ![t] = {}] /\ inserted' = [inserted EXCEPT ![t] = {}]
      /\ pc' = [pc EXCEPT ![t] = "done"] /\ answer' = [answer EXCEPT ![t] = "ok"]
      /\ UNCHANGED <<nextId, request, existing, seen, groups, raced, disturbed>>
  BY DEF Commit, CommitRows, AtWork, races
<1>2. /\ \A u \in Users \ {UserOf(t)} : Selected(rows', u) = Selected(rows, u)
      /\ ~IsPut(t) => Selected(rows', UserOf(t)) \subseteq Selected(rows, UserOf(t))
      /\ Undisturbed(t) => Selected(rows', UserOf(t)) = inserted[t]
      /\ inserted[t] = {NewRow(t)} \ {NoRow} /\ NewRow(t) \in Row \union {NoRow}
  BY CommitEffects
<1>3. \/ ~IsPut(t) /\ existing[t] = NoRow /\ log' = log
      \/ \E e \in Entry : /\ e.user = UserOf(t) /\ e.old = existing[t] /\ e.new = NewRow(t)
                          /\ log' = Append(log, e)
  BY CommitEffects
<1>4. /\ pc'[t] = "done" /\ answer'[t] = "ok" /\ deleted'[t] = {} /\ inserted'[t] = {}
      /\ \A x \in Txns \ {t} : /\ pc'[x] = pc[x] /\ answer'[x] = answer[x]
                               /\ deleted'[x] = deleted[x] /\ inserted'[x] = inserted[x]
  BY <1>1 DEF IInv, Types
<1>5. \A x \in Txns : /\ UserOf(x)' = UserOf(x) /\ IsPut(x)' = IsPut(x) /\ UserOf(x) \in Users
                      /\ GroupGone(x)' = GroupGone(x) /\ Undisturbed(x)' = Undisturbed(x)
                      /\ Selected(rows, UserOf(x))' = Selected(rows', UserOf(x))
  BY <1>1, RequestFields DEF UserOf, IsPut, GroupGone, Undisturbed, Selected, IInv
<1>6. Types'
  <2>1. log' \in Seq(Entry)
    <3>1. log \in Seq(Entry)
      BY DEF IInv, Types
    <3>2. \A e \in Entry : Append(log, e) \in Seq(Entry)
      BY <3>1
    <3> QED  BY <1>3, <3>1, <3>2
  <2>2. /\ pc' \in [Txns -> {"new", "reading", "deleting", "writing", "ending", "done"}]
        /\ answer' \in [Txns -> {"none", "refused", "ok", "error"}] /\ rows' \subseteq Row
        /\ deleted' \in [Txns -> SUBSET Row] /\ inserted' \in [Txns -> SUBSET Row]
    BY <1>1 DEF IInv, Types
  <2> QED  BY <1>1, <2>1, <2>2 DEF IInv, Types
<1>7. OwnRows'
  BY <1>1, <1>4, <1>5 DEF IInv, OwnRows
<1>8. RacesKnown'
  <2>1. \A x \in Txns : AtWork(x)' => AtWork(x)
    BY <1>4 DEF AtWork
  <2> QED  BY <1>1, <1>5, <2>1 DEF IInv, RacesKnown
<1>9. SeesAll'
  <2> SUFFICES ASSUME NEW x \in Txns \ {t}, Undisturbed(x), AtWork(x)
               PROVE  Selected(rows', UserOf(x)) \subseteq Selected(rows, UserOf(x))
    BY <1>1, <1>4, <1>5 DEF IInv, SeesAll, AtWork
  <2>1. CASE UserOf(x) = UserOf(t)
    BY <1>1, <1>2, <2>1, OthersAddNothing
  <2>2. CASE UserOf(x) # UserOf(t)
    BY <1>2, <1>5, <2>2
  <2> QED  BY <2>1, <2>2
<1>14. RacedPuts' = RacedPuts
  BY <1>1, RacedPutsKept
<1>10. Single'
  <2> SUFFICES ASSUME NEW u \in Users \ RacedPuts, NEW a \in Selected(rows', u), NEW b \in Selected(rows', u)
               PROVE  a = b
    BY <1>14 DEF Single, Selected
  <2>1. \A c, d \in Selected(rows, u) : c = d
    BY DEF IInv, Single, Selected
  <2>2. CASE u = UserOf(t) /\ IsPut(t)
    BY <1>2, <2>2, RacedPutsPut
  <2>3. CASE ~(u = UserOf(t) /\ IsPut(t))
    BY <1>2, <2>1, <2>3
  <2> QED  BY <2>2, <2>3
<1>11. Errors'
  BY <1>4, <1>5, <1>14 DEF IInv, Errors
<1>12. ReadsCurrent'
  <2> SUFFICES ASSUME NEW x \in Txns \ {t}, UserOf(x) \notin raced, AtWork(x)
               PROVE  Selected(rows', UserOf(x)) = Selected(rows, UserOf(x))
    BY <1>1, <1>4, <1>5 DEF IInv, ReadsCurrent, AtWork
  <2>1. UserOf(x) # UserOf(t)
    BY <1>1 DEF IInv, RacesKnown
  <2> QED  BY <1>2, <1>5, <2>1
<1>13. AuditReplays'
  <2> SUFFICES ASSUME NEW u \in Users \ raced PROVE Replays(rows', log', u)
    BY <1>1 DEF AuditReplays
  <2>1. Replays(rows, log, u)
    BY DEF IInv, AuditReplays
  <2>2. u = UserOf(t) => /\ Selected(rows', u) = {NewRow(t)} \ {NoRow}
                        /\ Selected(rows, u) = {existing[t]} \ {NoRow}
    <3> SUFFICES ASSUME u = UserOf(t)
                 PROVE  /\ Selected(rows', u) = {NewRow(t)} \ {NoRow}
                        /\ Selected(rows, u) = {existing[t]} \ {NoRow}
      OBVIOUS
    <3>1. Selected(rows, u) = {existing[t]} \ {NoRow}
      BY <1>1 DEF IInv, ReadsCurrent
    <3>2. Undisturbed(t)
      BY DEF IInv, DisturbedRaced, Undisturbed
    <3> QED  BY <1>2, <3>1, <3>2
  <2>3. u # UserOf(t) => Selected(rows', u) = Selected(rows, u)
    BY <1>2
  <2>4. Selected(rows, u) = {LeftAfter(log, Len(log), u)} \ {NoRow}
    BY <2>1 DEF Replays
  <2>5. u = UserOf(t) => existing[t] = LeftAfter(log, Len(log), u)
    BY <2>2, <2>4
  <2>6. CASE ~IsPut(t) /\ existing[t] = NoRow /\ log' = log
    <3>1. Selected(rows', u) = Selected(rows, u)
      BY <1>2, <2>2, <2>3, <2>6
    <3> QED  BY <2>1, <2>6, <3>1 DEF Replays
  <2>7. ASSUME NEW e \in Entry, e.user = UserOf(t), e.old = existing[t], e.new = NewRow(t),
               log' = Append(log, e)
        PROVE  Replays(rows', log', u)
    <3>1. log \in Seq(Entry)
      BY DEF IInv, Types
    <3>2. Selected(rows', u) = {IF e.user = u THEN e.new ELSE LeftAfter(log, Len(log), u)} \ {NoRow}
      BY <2>2, <2>3, <2>4, <2>7
    <3>3. e.user = u => e.old = LeftAfter(log, Len(log), u)
      BY <2>5, <2>7
    <3>4. Replays(rows', Append(log, e), u)
      BY <2>1, <3>1, <3>2, <3>3, ReplaysAppend
    <3> QED  BY <2>7, <3>4
  <2> QED  BY <1>3, <2>6, <2>7
<1>15. DisturbedRaced'
  BY <1>1 DEF IInv, DisturbedRaced, UserOf
<1> QED  BY <1>6, <1>7, <1>8, <1>9, <1>10, <1>11, <1>12, <1>13, <1>15 DEF IInv

LEMMA InvNext == IInv /\ [Next]_vars => IInv'
<1> SUFFICES ASSUME IInv, [Next]_vars PROVE IInv'
  OBVIOUS
<1>1. CASE UNCHANGED vars
  <2>1. UNCHANGED <<rows, deleted, inserted, nextId, pc, request, existing, seen, groups, answer, log,
                    raced, disturbed>>
    BY <1>1 DEF vars, store, races
  <2>2. /\ RacedPuts' = RacedPuts
        /\ \A t \in Txns : /\ UserOf(t)' = UserOf(t) /\ IsPut(t)' = IsPut(t) /\ AtWork(t)' = AtWork(t)
                           /\ GroupGone(t)' = GroupGone(t) /\ Undisturbed(t)' = Undisturbed(t)
                           /\ Selected(rows, UserOf(t))' = Selected(rows, UserOf(t))
    BY <2>1, RacedPutsKept DEF UserOf, IsPut, AtWork, GroupGone, Undisturbed, Selected
  <2>3. Types' /\ OwnRows' /\ RacesKnown' /\ DisturbedRaced'
    BY <2>1, <2>2 DEF IInv, Types, OwnRows, RacesKnown, DisturbedRaced, UserOf
  <2>4. SeesAll' /\ Single' /\ Errors' /\ ReadsCurrent' /\ AuditReplays'
    BY <2>1, <2>2 DEF IInv, SeesAll, Single, Errors, ReadsCurrent, AuditReplays
  <2> QED  BY <2>3, <2>4 DEF IInv
<1> QED  BY <1>1, BeginStep, RefuseStep, ReadStep, SnapshotStep, DeleteStep, InsertStep, CommitStep,
            DeleteGroupStep DEF Next

THEOREM Invariance == Spec => []IInv
  BY InvInit, InvNext, PTL DEF Spec

-----------------------------------------------------------------------------
(* Selections, requests and entries of the change log are of the types the *)
(* code gives them.                                                        *)
THEOREM SelectionsTypeCorrect == Spec => []TypeOK
<1>1. IInv => TypeOK
  BY DEF IInv, Types, TypeOK
<1> QED  BY <1>1, Invariance, PTL

(* Without two PUT requests at once a student has one selection, and no    *)
(* request fails but for a group that was deleted: neither                 *)
(* scalar_one_or_none nor the unique constraint has anything to complain   *)
(* of, however many DELETE requests there are.                             *)
THEOREM OneSelection == Spec => []OneSelectionUnlessRaced
<1>1. ASSUME IInv PROVE OneSelectionUnlessRaced
  <2>1. ASSUME NEW u \in Users \ RacedPuts PROVE Cardinality(Selected(rows, u)) <= 1
    <3>1. \A a, b \in Selected(rows, u) : a = b
      BY <1>1 DEF IInv, Single, Selected
    <3> QED  BY <3>1, AtMostOne
  <2> QED  BY <1>1, <2>1 DEF IInv, Errors, OneSelectionUnlessRaced
<1> QED  BY <1>1, Invariance, PTL

(* The change log of a student whose requests never overlapped replays to  *)
(* the selection in the table (record_change and the statements around it  *)
(* in one transaction).                                                    *)
THEOREM AuditAlwaysReplays == Spec => []AuditReplays
<1>1. IInv => AuditReplays
  BY DEF IInv
<1> QED  BY <1>1, Invariance, PTL

-----------------------------------------------------------------------------
(* What a request has inserted is what it was asked for. *)
InsertsAsked == \A t \in Txns : \A r \in inserted[t] : r.group = request[t].group

LEMMA InsertsAskedStep == IInv /\ InsertsAsked /\ [Next]_vars => InsertsAsked'
<1> SUFFICES ASSUME IInv, InsertsAsked, [Next]_vars PROVE InsertsAsked'
  OBVIOUS
<1>1. CASE UNCHANGED <<inserted, request>>
  BY <1>1 DEF InsertsAsked
<1>2. ASSUME NEW t \in Txns, Insert(t), ~Fail(t) PROVE InsertsAsked'
  <2> DEFINE new == [id |-> nextId, user |-> UserOf(t), group |-> request[t].group]
  <2>1. inserted' = [inserted EXCEPT ![t] = @ \union {new}] /\ UNCHANGED request
    BY <1>2 DEF Insert, InsertRow
  <2>2. new.group = request[t].group
    OBVIOUS
  <2> HIDE DEF new
  <2>3. \A x \in Txns : \A r \in inserted'[x] : r \in inserted[x] \/ (x = t /\ r = new)
    BY <2>1 DEF IInv, Types
  <2> QED  BY <2>1, <2>2, <2>3 DEF InsertsAsked
<1>3. ASSUME NEW t \in Txns, Fail(t) \/ Commit(t) PROVE InsertsAsked'
  <2>1. inserted' = [inserted EXCEPT ![t] = {}] /\ UNCHANGED request
    BY <1>3 DEF Fail, RollBackRows, Commit, CommitRows
  <2>2. \A x \in Txns : inserted'[x] \subseteq inserted[x]
    BY <2>1 DEF IInv, Types
  <2> QED  BY <2>1, <2>2 DEF InsertsAsked
<1>6. ASSUME NEW g \in Groups, DeleteGroup(g) PROVE UNCHANGED <<inserted, request>>
  BY <1>6 DEF DeleteGroup, store
<1>4. ASSUME NEW t \in Txns, Begin(t) \/ Refuse(t) \/ Snapshot(t) \/ Delete(t) \/ (Read(t) /\ ~Fail(t))
      PROVE  UNCHANGED <<inserted, request>>
  BY <1>4 DEF Begin, Refuse, Snapshot, Delete, DeleteRows, Read, store
<1>5. CASE UNCHANGED vars
  BY <1>1, <1>5 DEF vars, store
<1> QED  BY <1>1, <1>2, <1>3, <1>4, <1>5, <1>6 DEF Next

(* A request fails on several rows of its user, on a unique key, which is  *)
(* a race, or on a group that is gone.                                     *)
LEMMA FailsFor ==
    ASSUME IInv, NEW t \in Txns, Undisturbed(t), AtWork(t), Fail(t), Read(t) \/ Insert(t)
    PROVE  rows' = rows /\ (Cardinality(Selected(rows, UserOf(t))) > 1 \/ GroupGone(t))
<1>1. rows' = rows /\ pc' = [pc EXCEPT ![t] = "done"]
  BY DEF Fail, RollBackRows
<1>2. CASE Read(t)
  <2>1. pc[t] = "reading" /\ pc'[t] = "done"
    BY <1>1, <1>2 DEF Read, IInv, Types
  <2>2. Selected(Visible(t), UserOf(t)) = Selected(rows, UserOf(t))
    BY <2>1 DEF IInv, OwnRows, Visible, Selected
  <2>3. Cardinality(Selected(Visible(t), UserOf(t))) > 1
    <3> SUFFICES ASSUME ~(Cardinality(Selected(Visible(t), UserOf(t))) > 1) PROVE FALSE
      OBVIOUS
    <3>1. pc' = [pc EXCEPT ![t] = "deleting"]
      BY <1>2 DEF Read
    <3>2. pc'[t] = "deleting"
      BY <3>1 DEF IInv, Types
    <3> QED  BY <2>1, <3>2
  <2> QED  BY <1>1, <2>2, <2>3
<1>3. CASE Insert(t)
  <2> DEFINE same == {r \in rows \union UNION {inserted[x] : x \in Txns} :
                        r.user = UserOf(t) /\ r.group = request[t].group}
  <2>1. pc[t] = "writing" /\ inserted[t] = {} /\ pc'[t] = "done"
    BY <1>1, <1>3 DEF Insert, IInv, OwnRows, Types
  <2>2. ~KeyTaken(t, same)
    BY <2>1 DEF KeyTaken, Visible, Selected, IInv, SeesAll
  <2>3. KeyTaken(t, same) \/ GroupGone(t) \/ pc' = [pc EXCEPT ![t] = "ending"]
    BY <1>3 DEF Insert
  <2>4. GroupGone(t)
    BY <2>1, <2>2, <2>3 DEF IInv, Types
  <2> QED  BY <1>1, <2>4
<1> QED  BY <1>2, <1>3

Concludes(t) ==
    \/ /\ answer'[t] = "ok"
       /\ {r.group : r \in Selected(rows', UserOf(t))} =
            IF IsPut(t) THEN {request[t].group} ELSE {}
    \/ /\ answer'[t] # "ok" /\ rows' = rows
       /\ Cardinality(Selected(rows, UserOf(t))) > 1 \/ GroupGone(t)

(* The DELETE of an undisturbed request removes all there is of the        *)
(* student, and nobody else adds to that: what it leaves is what it has    *)
(* inserted.                                                               *)
THEOREM UndisturbedHold == Spec => UndisturbedRequestsHold
<1>1. ASSUME IInv, InsertsAsked, Next, NEW t \in Txns, Undisturbed(t), answer'[t] # answer[t]
      PROVE  Concludes(t)
  <2>1. PICK x \in Txns : \/ Begin(x) \/ Refuse(x) \/ Read(x) \/ Snapshot(x)
                          \/ Delete(x) \/ Insert(x) \/ Commit(x)
    BY <1>1, DeleteGroupStep DEF Next
  <2>2. \/ answer' = answer
        \/ Refuse(x) /\ answer' = [answer EXCEPT ![x] = "refused"]
        \/ Fail(x) /\ (Read(x) \/ Insert(x)) /\ answer' = [answer EXCEPT ![x] = "error"]
        \/ Commit(x) /\ answer' = [answer EXCEPT ![x] = "ok"]
    BY <2>1 DEF Begin, Refuse, Read, Snapshot, Delete, DeleteRows, Insert, Fail, Commit
  <2>3. x = t
    BY <1>1, <2>2 DEF IInv, Types
  <2>4. CASE Refuse(t)
    BY <1>1, <2>2, <2>3, <2>4, RefuseStep DEF Concludes, Refuse, store
  <2>5. CASE Fail(t) /\ (Read(t) \/ Insert(t)) /\ answer' = [answer EXCEPT ![t] = "error"]
    <3>1. answer'[t] = "error" /\ AtWork(t)
      BY <1>1, <2>5 DEF Read, Insert, AtWork, IInv, Types
    <3> QED  BY <1>1, <2>5, <3>1, FailsFor DEF Concludes
  <2>6. CASE Commit(t) /\ answer' = [answer EXCEPT ![t] = "ok"]
    <3>1. answer'[t] = "ok"
      BY <1>1, <2>6 DEF IInv, Types
    <3>2. Selected(rows', UserOf(t)) = inserted[t] /\ pc[t] = "ending"
      BY <1>1, <2>6, CommitEffects DEF Commit
    <3>3. CASE IsPut(t)
      <4>1. PICK r \in inserted[t] : inserted[t] = {r}
        BY <1>1, <3>2, <3>3 DEF IInv, OwnRows
      <4>2. r.group = request[t].group
        BY <1>1, <4>1 DEF InsertsAsked
      <4>3. {s.group : s \in {r}} = {r.group}
        OBVIOUS
      <4> QED  BY <3>1, <3>2, <3>3, <4>1, <4>2, <4>3 DEF Concludes
    <3>4. CASE ~IsPut(t)
      <4>1. Selected(rows', UserOf(t)) = {}
        BY <1>1, <3>2, <3>4 DEF IInv, OwnRows
      <4> QED  BY <3>1, <3>4, <4>1 DEF Concludes
    <3> QED  BY <3>3, <3>4
  <2> QED  BY <1>1, <2>2, <2>3, <2>4, <2>5, <2>6
<1>2. IInv /\ InsertsAsked /\ [Next]_vars =>
        [\A t \in Txns \ disturbed : answer'[t] # answer[t] =>
           \/ /\ answer'[t] = "ok"
              /\ {r.group : r \in Selected(rows', UserOf(t))} =
                   IF IsPut(t) THEN {request[t].group} ELSE {}
           \/ /\ answer'[t] # "ok" /\ rows' = rows
              /\ Cardinality(Selected(rows, UserOf(t))) > 1 \/ GroupGone(t)]_vars
  BY <1>1 DEF Concludes, Undisturbed
<1>3. Init => InsertsAsked
  BY DEF Init, StoreInit, InsertsAsked
<1> QED  BY <1>2, <1>3, Invariance, InsertsAskedStep, PTL DEF Spec, UndisturbedRequestsHold

===============================================================================
