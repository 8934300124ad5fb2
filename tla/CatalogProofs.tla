----------------------------- MODULE CatalogProofs ----------------------------
(* Proofs about Catalog: for any columns, values, items and requests it    *)
(* implements AuditedTable.                                                *)
EXTENDS Catalog, TLAPS

Deleting == \A t \in Txns : pc[t] = "deleting" => request[t].kind = "delete"

(* No two entries share an id, those a deletion has flushed but not        *)
(* committed included.                                                     *)
IdsDistinct ==
    /\ \A d, e \in log : d.id = e.id => d = e
    /\ \A t \in Txns : pc[t] = "deleting" =>
          /\ entryId[t] < nextEntry
          /\ \A e \in log : e.id # entryId[t]
          /\ \A u \in Txns \ {t} : pc[u] = "deleting" => entryId[u] # entryId[t]

(* An id that was never inserted is in no entry and no request. *)
Unseen == /\ \A x \in Items \ used : Initial[x] = Absent
          /\ \A e \in log : e.item \in used
          /\ \A t \in Txns : Running(t) => request[t].item \in used

Replays == \A x \in Items :
    /\ Gone(log, x) <=> row[x] = Absent
    /\ row[x] # Absent => \A c \in Columns : row[x][c] = Value(log, x, c)

IInv == TypeOK /\ Deleting /\ IdsDistinct /\ Unseen /\ Replays

-----------------------------------------------------------------------------
(* Rows. *)

LEMMA RowIntro == ASSUME NEW f, f = [c \in Columns |-> f[c]],
                         \A c \in Columns : f[c] \in Values[c]
                  PROVE  f \in RowType
  BY DEF RowType

LEMMA RowElim == ASSUME NEW r \in RowType
                 PROVE  /\ r = [c \in Columns |-> r[c]]
                        /\ \A c \in Columns : r[c] \in Values[c]
                        /\ r # Absent
  BY CatalogAssumption DEF RowType

LEMMA AssignedType == ASSUME TypeOK, NEW t \in Txns, Running(t), request[t].kind = "update"
                      PROVE  /\ request[t].item \in Items
                             /\ copy[t] \in RowType /\ Assigned(t) \in RowType
<1>1. request[t] \in Updates /\ copy[t] \in RowType
  BY DEF TypeOK, Updates, Deletes
<1>2. \A c \in Columns : request[t].set[c] \in Values[c] \union {Keep}
  BY <1>1 DEF Updates, Patches
<1>3. \A c \in Columns : Assigned(t)[c] \in Values[c]
  BY <1>1, <1>2, RowElim DEF Assigned
<1>4. Assigned(t) = [c \in Columns |-> Assigned(t)[c]]
  BY DEF Assigned
<1> QED  BY <1>1, <1>3, <1>4, RowIntro DEF Updates

LEMMA WrittenType == ASSUME TypeOK, NEW t \in Txns, Running(t), request[t].kind = "update",
                            row[request[t].item] # Absent
                     PROVE  Written(t) \in RowType
<1>1. row[request[t].item] \in RowType /\ Assigned(t) \in RowType
  BY AssignedType DEF TypeOK
<1>2. \A c \in Columns : Written(t)[c] \in Values[c]
  BY <1>1, RowElim DEF Written
<1>3. Written(t) = [c \in Columns |-> Written(t)[c]]
  BY DEF Written
<1> QED  BY <1>2, <1>3, RowIntro

-----------------------------------------------------------------------------
(* What a further entry changes in the replay. *)

LEMMA LatestIs == ASSUME NEW S, NEW e \in S, \A d \in S : d.id \in Nat,
                         \A d \in S \ {e} : d.id < e.id
                  PROVE  Latest(S) = e
<1>1. \A d \in S : d.id <= e.id
  OBVIOUS
<1>2. \A d \in S : (\A f \in S : f.id <= d.id) => d = e
  OBVIOUS
<1> QED  BY <1>1, <1>2 DEF Latest

LEMMA AfterCreate ==
    ASSUME NEW L, NEW M, NEW x, NEW r, NEW e, M = L \union {e}, \A d \in L : d.item # x,
           e.id \in Nat, e.item = x, e.action = "create", e.new = r
    PROVE  /\ ~Gone(M, x)
           /\ \A c \in Columns : Value(M, x, c) = r[c]
<1>1. /\ About(M, x, "create") = {e}
      /\ About(M, x, "update") = {}
      /\ About(M, x, "delete") = {}
  BY DEF About
<1>2. \A c : Changing(M, x, c) = {e}
  BY <1>1 DEF Changing
<1>3. Latest({e}) = e
  <2> DEFINE S == {e}
  <2>1. e \in S /\ (\A d \in S : d.id \in Nat) /\ \A d \in S \ {e} : d.id < e.id
    OBVIOUS
  <2> HIDE DEF S
  <2>2. Latest(S) = e
    BY <2>1, LatestIs
  <2> QED  BY <2>2 DEF S
<1> QED  BY <1>1, <1>2, <1>3 DEF Gone, Value

LEMMA AfterUpdate ==
    ASSUME NEW L, NEW M, NEW x, NEW e, M = L \union {e},
           e.item = x, e.action = "update", e.id \in Nat,
           \A d \in L : d.id \in Nat /\ d.id < e.id
    PROVE  /\ Gone(M, x) <=> Gone(L, x)
           /\ \A c \in Columns : Value(M, x, c) =
                 IF e.old[c] # e.new[c] THEN e.new[c] ELSE Value(L, x, c)
<1>1. /\ About(M, x, "create") = About(L, x, "create")
      /\ About(M, x, "delete") = About(L, x, "delete")
      /\ About(M, x, "update") = About(L, x, "update") \union {e}
  BY DEF About
<1>2. ASSUME NEW c \in Columns, e.old[c] = e.new[c]
      PROVE  Value(M, x, c) = Value(L, x, c)
  <2>1. Changing(M, x, c) = Changing(L, x, c)
    BY <1>1, <1>2 DEF Changing
  <2> QED  BY <2>1 DEF Value
<1>3. ASSUME NEW c \in Columns, e.old[c] # e.new[c]
      PROVE  Value(M, x, c) = e.new[c]
  <2> DEFINE S == Changing(M, x, c)
  <2>1. S = Changing(L, x, c) \union {e}
    BY <1>1, <1>3 DEF Changing
  <2>2. Changing(L, x, c) \subseteq L
    BY DEF Changing, About
  <2>3. Latest(S) = e
    <3> HIDE DEF S
    <3> QED  BY <2>1, <2>2, LatestIs
  <2> QED  BY <2>1, <2>3 DEF Value
<1> QED  BY <1>1, <1>2, <1>3 DEF Gone

LEMMA AfterDelete == ASSUME NEW L, NEW M, NEW x, NEW e, M = L \union {e},
                            e.item = x, e.action = "delete"
                     PROVE  Gone(M, x)
  BY DEF Gone, About

-----------------------------------------------------------------------------
LEMMA InvInit == Init => IInv
<1> SUFFICES ASSUME Init PROVE IInv
  OBVIOUS
<1>1. /\ log = {} /\ row = Initial
      /\ \A x \in Items : \A a : About(log, x, a) = {}
  BY DEF Init, About
<1>2. \A x \in Items : \A c : Changing(log, x, c) = {}
  BY <1>1 DEF Changing
<1>3. Replays
  BY <1>1, <1>2 DEF Replays, Gone, Value
<1>4. TypeOK /\ Deleting /\ IdsDistinct /\ Unseen
  BY CatalogAssumption DEF Init, TypeOK, Deleting, IdsDistinct, Unseen, Running
<1> QED  BY <1>3, <1>4 DEF IInv

(* Steps that change neither the table nor the log. *)
LEMMA ReplaysKept == Replays /\ UNCHANGED <<row, log>> => Replays'
  BY DEF Replays

(* What End leaves of a request. *)
LEMMA EndRequest == ASSUME IInv, NEW t \in Txns, End(t)
                    PROVE  /\ \A u \in Txns : Running(u)' => u # t /\ Running(u) /\ pc'[u] = pc[u]
                           /\ \A u \in Txns \ {t} : /\ request'[u] = request[u]
                                                    /\ copy'[u] = copy[u]
                                                    /\ entryId'[u] = entryId[u]
                           /\ request'[t] = NoRequest /\ copy'[t] = Absent
                           /\ pc' \in [Txns -> {"new", "loaded", "deleting", "done"}]
                           /\ entryId' \in [Txns -> Nat] /\ raced' \subseteq Items
  BY DEF End, IInv, TypeOK, Deleting, Running

LEMMA EndedType ==
    ASSUME IInv, NEW t \in Txns, End(t)
    PROVE  /\ pc' \in [Txns -> {"new", "loaded", "deleting", "done"}]
           /\ request' \in [Txns -> Updates \union Deletes \union {NoRequest}]
           /\ copy' \in [Txns -> RowType \union {Absent}] /\ entryId' \in [Txns -> Nat]
           /\ \A u \in Txns : IF Running(u)' THEN request'[u] # NoRequest /\ copy'[u] # Absent
                              ELSE request'[u] = NoRequest /\ copy'[u] = Absent
           /\ raced' \subseteq Items
<1>1. /\ pc' = [pc EXCEPT ![t] = "done"] /\ request' = [request EXCEPT ![t] = NoRequest]
      /\ copy' = [copy EXCEPT ![t] = Absent] /\ entryId' = [entryId EXCEPT ![t] = 0]
      /\ raced' = raced
  BY DEF End
<1>2. /\ pc \in [Txns -> {"new", "loaded", "deleting", "done"}]
      /\ request \in [Txns -> Updates \union Deletes \union {NoRequest}]
      /\ copy \in [Txns -> RowType \union {Absent}] /\ entryId \in [Txns -> Nat]
      /\ raced \subseteq Items
      /\ \A u \in Txns : IF Running(u) THEN request[u] # NoRequest /\ copy[u] # Absent
                         ELSE request[u] = NoRequest /\ copy[u] = Absent
  BY DEF IInv, TypeOK
<1>3. ASSUME NEW u \in Txns
      PROVE  IF Running(u)' THEN request'[u] # NoRequest /\ copy'[u] # Absent
             ELSE request'[u] = NoRequest /\ copy'[u] = Absent
  BY <1>1, <1>2 DEF Running
<1> QED  BY <1>1, <1>2, <1>3

LEMMA RefuseStep == ASSUME IInv, NEW t \in Txns, Refuse(t) PROVE IInv'
<1>1. End(t) /\ UNCHANGED <<row, used, inUse, log, nextEntry>>
  BY DEF Refuse, tables
<1>2. TypeOK'
  BY <1>1, EndedType DEF IInv, TypeOK
<1>3. Deleting' /\ IdsDistinct' /\ Unseen'
  BY <1>1, EndRequest DEF IInv, Deleting, IdsDistinct, Unseen, Running
<1> QED  BY <1>1, <1>2, <1>3, ReplaysKept DEF IInv

(* What a new entry leaves of the other rows. *)
LEMMA OthersKept ==
    ASSUME IInv, NEW y \in Items, row'[y] = row[y],
           \E e : e.item # y /\ log' = log \union {e}
    PROVE  /\ Gone(log', y) <=> row'[y] = Absent
           /\ row'[y] # Absent => \A c \in Columns : row'[y][c] = Value(log', y, c)
<1>1. PICK e : e.item # y /\ log' = log \union {e}
  OBVIOUS
<1>2. \A a : About(log', y, a) = About(log, y, a)
  BY <1>1 DEF About
<1>3. \A c : Changing(log', y, c) = Changing(log, y, c)
  BY <1>2 DEF Changing
<1>4. /\ Gone(log', y) <=> Gone(log, y)
      /\ \A c \in Columns : Value(log', y, c) = Value(log, y, c)
  BY <1>2, <1>3 DEF Gone, Value
<1> QED  BY <1>4 DEF IInv, Replays

LEMMA CreateStep == ASSUME IInv, NEW x \in Items, NEW r \in RowType, Create(x, r) PROVE IInv'
<1> DEFINE e == [id |-> nextEntry, item |-> x, action |-> "create", old |-> Absent, new |-> r]
<1>1. /\ x \notin used /\ row' = [row EXCEPT ![x] = r] /\ used' = used \union {x}
      /\ log' = log \union {e} /\ nextEntry' = nextEntry + 1
      /\ UNCHANGED <<inUse, pc, request, copy, entryId, raced>>
  BY DEF Create, session
<1>2. e \in Entry /\ e.id = nextEntry /\ e.item = x /\ nextEntry \in Nat
  BY DEF Entry, IInv, TypeOK
<1>3. TypeOK'
  BY <1>1, <1>2, RowElim DEF IInv, TypeOK, Deleting, Running, Entry
<1>4. Deleting' /\ Unseen'
  BY <1>1, <1>2 DEF IInv, TypeOK, Deleting, Unseen, Running
<1>5. IdsDistinct'
  BY <1>1, <1>2 DEF IInv, TypeOK, Deleting, IdsDistinct, Entry
<1>6. ASSUME NEW y \in Items
      PROVE  /\ Gone(log', y) <=> row'[y] = Absent
             /\ row'[y] # Absent => \A c \in Columns : row'[y][c] = Value(log', y, c)
  <2>1. CASE y = x
    <3>1. \A d \in log : d.item # x
      BY <1>1 DEF IInv, Unseen
    <3>2. ~Gone(log', x) /\ \A c \in Columns : Value(log', x, c) = r[c]
      <4>1. /\ e.action = "create" /\ e.new = r /\ e.id \in Nat /\ e.item = x
            /\ log' = log \union {e}
        BY <1>1, <1>2
      <4> HIDE DEF e
      <4> QED  BY <3>1, <4>1, AfterCreate
    <3>3. row'[x] = r /\ r # Absent
      BY <1>1, RowElim DEF IInv, TypeOK
    <3> QED  BY <2>1, <3>2, <3>3
  <2>2. CASE y # x
    <3>1. e.item # y /\ log' = log \union {e} /\ row'[y] = row[y]
      BY <1>1, <1>2, <2>2 DEF IInv, TypeOK
    <3> HIDE DEF e
    <3> QED  BY <3>1, OthersKept
  <2> QED  BY <2>1, <2>2
<1> QED  BY <1>3, <1>4, <1>5, <1>6 DEF IInv, Replays

LEMMA LoadStep == ASSUME IInv, NEW t \in Txns, Load(t) PROVE IInv'
<1>1. PICK r \in Updates \union Deletes :
        /\ pc[t] = "new" /\ row[r.item] # Absent
        /\ request' = [request EXCEPT ![t] = r]
        /\ copy' = [copy EXCEPT ![t] = row[r.item]]
        /\ pc' = [pc EXCEPT ![t] = "loaded"]
        /\ raced' \subseteq raced \union {r.item}
        /\ UNCHANGED <<row, used, inUse, log, nextEntry, entryId>>
  BY DEF Load, tables
<1>2. r.item \in Items
  BY DEF Updates, Deletes
<1>3. row[r.item] \in RowType /\ r.item \in used
  BY <1>1, <1>2 DEF IInv, TypeOK
<1>4. TypeOK'
  <2>1. /\ pc' \in [Txns -> {"new", "loaded", "deleting", "done"}]
        /\ request' \in [Txns -> Updates \union Deletes \union {NoRequest}]
        /\ copy' \in [Txns -> RowType \union {Absent}]
    BY <1>1, <1>3 DEF IInv, TypeOK
  <2>2. r # NoRequest
    <3>1. NoRequest.kind = "none" /\ r.kind \in {"update", "delete"}
      BY DEF Updates, Deletes, NoRequest
    <3> QED  BY <3>1
  <2>3. ASSUME NEW u \in Txns
        PROVE  IF Running(u)' THEN request'[u] # NoRequest /\ copy'[u] # Absent
               ELSE request'[u] = NoRequest /\ copy'[u] = Absent
    BY <1>1, <2>2 DEF IInv, TypeOK, Running
  <2> QED  BY <1>1, <1>2, <2>1, <2>3 DEF IInv, TypeOK
<1>5. Deleting' /\ IdsDistinct' /\ Unseen'
  BY <1>1, <1>2, <1>3 DEF IInv, TypeOK, Deleting, IdsDistinct, Unseen, Running
<1> QED  BY <1>1, <1>4, <1>5, ReplaysKept DEF IInv

LEMMA UpdateStep == ASSUME IInv, NEW t \in Txns, Update(t) PROVE IInv'
<1> DEFINE x == request[t].item
           writes == Assigned(t) # copy[t]
           e == [id |-> nextEntry, item |-> x, action |-> "update",
                 old |-> copy[t], new |-> Assigned(t)]
<1>1. CASE writes /\ (row[x] = Absent \/ Taken(x, Written(t)))
  BY <1>1, RefuseStep DEF Update
<1>2. CASE ~(writes /\ (row[x] = Absent \/ Taken(x, Written(t))))
  <2>1. /\ pc[t] = "loaded" /\ request[t].kind = "update"
        /\ row' = IF writes THEN [row EXCEPT ![x] = Written(t)] ELSE row
        /\ log' = log \union {e} /\ nextEntry' = nextEntry + 1
        /\ UNCHANGED <<used, inUse>> /\ End(t)
    BY <1>2 DEF Update, Snapshot
  <2>2. Running(t) /\ x \in Items /\ x \in used /\ copy[t] \in RowType /\ Assigned(t) \in RowType
    BY <2>1, AssignedType DEF Running, IInv, Unseen
  <2>3. writes => row[x] # Absent /\ Written(t) \in RowType
    BY <1>2, <2>1, <2>2, WrittenType DEF IInv
  <2>4. e \in Entry /\ e.id = nextEntry /\ e.item = x /\ nextEntry \in Nat
    BY <2>2 DEF Entry, IInv, TypeOK
  <2>5. TypeOK'
    <3>1. /\ row' \in [Items -> RowType \union {Absent}]
          /\ {y \in Items : row'[y] # Absent} \subseteq used'
      BY <2>1, <2>2, <2>3 DEF IInv, TypeOK
    <3>2. \A d \in log' : d \in Entry /\ d.id < nextEntry'
      <4>1. \A d \in log : d \in Entry /\ d.id \in Nat /\ d.id < nextEntry
        BY DEF IInv, TypeOK, Entry
      <4> HIDE DEF e
      <4> QED  BY <2>1, <2>4, <4>1
    <3> QED  BY <2>1, <2>4, <3>1, <3>2, EndedType DEF IInv, TypeOK
  <2>6. Deleting' /\ Unseen'
    BY <2>1, <2>2, <2>4, EndRequest DEF IInv, TypeOK, Deleting, Unseen, Running
  <2>7. IdsDistinct'
    BY <2>1, <2>4, EndRequest DEF IInv, TypeOK, Deleting, IdsDistinct, Entry, Running
  <2>8. ASSUME NEW y \in Items
        PROVE  /\ Gone(log', y) <=> row'[y] = Absent
               /\ row'[y] # Absent => \A c \in Columns : row'[y][c] = Value(log', y, c)
    <3>1. CASE y # x
      <4>1. e.item # y /\ log' = log \union {e} /\ row'[y] = row[y]
        BY <2>1, <2>4, <3>1 DEF IInv, TypeOK
      <4> HIDE DEF e
      <4> QED  BY <4>1, OthersKept
    <3>2. CASE y = x
      <4>1. \A d \in log : d.id \in Nat /\ d.id < e.id
        BY <2>4 DEF IInv, TypeOK, Entry
      <4>2. /\ Gone(log', x) <=> Gone(log, x)
            /\ \A c \in Columns : Value(log', x, c) =
                        IF copy[t][c] # Assigned(t)[c] THEN Assigned(t)[c]
                        ELSE Value(log, x, c)
        <5>1. /\ e.item = x /\ e.action = "update" /\ e.id \in Nat
              /\ e.old = copy[t] /\ e.new = Assigned(t) /\ log' = log \union {e}
          BY <2>1, <2>4
        <5> HIDE DEF e
        <5> QED  BY <4>1, <5>1, AfterUpdate
      <4>3. CASE writes
        <5>1. row'[x] = Written(t) /\ row'[x] # Absent /\ row[x] # Absent
          BY <2>1, <2>2, <2>3, <4>3, RowElim DEF IInv, TypeOK
        <5>2. \A c \in Columns : row[x][c] = Value(log, x, c)
          BY <2>2, <5>1 DEF IInv, Replays
        <5>3. \A c \in Columns : Written(t)[c] = IF copy[t][c] # Assigned(t)[c] THEN Assigned(t)[c]
                                                 ELSE row[x][c]
          BY DEF Written
        <5> QED  BY <3>2, <2>2, <4>2, <5>1, <5>2, <5>3 DEF IInv, Replays
      <4>4. CASE ~writes
        BY <2>1, <2>2, <3>2, <4>2, <4>4 DEF IInv, Replays
      <4> QED  BY <4>3, <4>4
    <3> QED  BY <3>1, <3>2
  <2> QED  BY <2>5, <2>6, <2>7, <2>8 DEF IInv, Replays
<1> QED  BY <1>1, <1>2

LEMMA FlushStep == ASSUME IInv, NEW t \in Txns, FlushDelete(t) PROVE IInv'
<1>1. CASE request[t].item \in inUse
  BY <1>1, RefuseStep DEF FlushDelete
<1>2. CASE request[t].item \notin inUse
  <2>1. /\ pc[t] = "loaded" /\ request[t].kind = "delete"
        /\ entryId' = [entryId EXCEPT ![t] = nextEntry]
        /\ nextEntry' = nextEntry + 1 /\ pc' = [pc EXCEPT ![t] = "deleting"]
        /\ UNCHANGED <<row, used, inUse, log, request, copy, raced>>
    BY <1>2 DEF FlushDelete
  <2>2. TypeOK' /\ Deleting' /\ Unseen'
    BY <2>1 DEF IInv, TypeOK, Deleting, Unseen, Running, Entry
  <2>3. IdsDistinct'
    BY <2>1 DEF IInv, TypeOK, Deleting, IdsDistinct, Entry
  <2> QED  BY <2>1, <2>2, <2>3, ReplaysKept DEF IInv
<1> QED  BY <1>1, <1>2

LEMMA RemoveStep == ASSUME IInv, NEW t \in Txns, RemoveRow(t) PROVE IInv'
<1> DEFINE x == request[t].item
           e == DeletionEntry(t)
<1>1. CASE x \in inUse
  BY <1>1, RefuseStep DEF RemoveRow
<1>2. CASE x \notin inUse
  <2>1. /\ pc[t] = "deleting" /\ row' = [row EXCEPT ![x] = Absent]
        /\ log' = log \union {e} /\ UNCHANGED <<used, inUse, nextEntry>> /\ End(t)
    BY <1>2 DEF RemoveRow
  <2>2. Running(t) /\ x \in Items /\ x \in used /\ copy[t] \in RowType
    BY <2>1 DEF Running, IInv, TypeOK, Unseen, Updates, Deletes
  <2>3. /\ e.id = entryId[t] /\ e.item = x /\ e.action = "delete"
        /\ e \in Entry /\ entryId[t] < nextEntry
    BY <2>1, <2>2 DEF DeletionEntry, Entry, IInv, TypeOK, Deleting, IdsDistinct
  <2>4. TypeOK'
    <3>1. /\ row' \in [Items -> RowType \union {Absent}]
          /\ {y \in Items : row'[y] # Absent} \subseteq used'
      BY <2>1, <2>2 DEF IInv, TypeOK
    <3>2. \A d \in log' : d \in Entry /\ d.id < nextEntry'
      BY <2>1, <2>3 DEF IInv, TypeOK
    <3> QED  BY <2>1, <3>1, <3>2, EndedType DEF IInv, TypeOK
  <2>5. Deleting' /\ Unseen'
    BY <2>1, <2>2, <2>3, EndRequest DEF IInv, TypeOK, Deleting, Unseen, Running
  <2>6. IdsDistinct'
    <3>1. \A d, f \in log' : d.id = f.id => d = f
      BY <2>1, <2>3 DEF IInv, IdsDistinct
    <3>2. ASSUME NEW u \in Txns, pc'[u] = "deleting"
          PROVE  u # t /\ pc[u] = "deleting" /\ entryId'[u] = entryId[u]
      BY <2>1, <3>2, EndRequest DEF Running
    <3> QED  BY <2>1, <2>3, <3>1, <3>2 DEF IInv, IdsDistinct
  <2>7. ASSUME NEW y \in Items
        PROVE  /\ Gone(log', y) <=> row'[y] = Absent
               /\ row'[y] # Absent => \A c \in Columns : row'[y][c] = Value(log', y, c)
    <3>1. CASE y # x
      <4>1. e.item # y /\ log' = log \union {e} /\ row'[y] = row[y]
        BY <2>1, <2>3, <3>1 DEF IInv, TypeOK
      <4> HIDE DEF e
      <4> QED  BY <4>1, OthersKept
    <3>2. CASE y = x
      BY <2>1, <2>2, <2>3, <3>2, AfterDelete DEF IInv, TypeOK
    <3> QED  BY <3>1, <3>2
  <2> QED  BY <2>4, <2>5, <2>6, <2>7 DEF IInv, Replays
<1> QED  BY <1>1, <1>2

LEMMA InvStep == IInv /\ [Next]_vars => IInv'
<1> SUFFICES ASSUME IInv, [Next]_vars PROVE IInv'
  OBVIOUS
<1>1. ASSUME NEW x \in Items, UseItem(x) \/ FreeItem(x) PROVE IInv'
  BY <1>1, ReplaysKept DEF UseItem, FreeItem, session, IInv, TypeOK, Deleting,
     IdsDistinct, Unseen, Running
<1>2. ASSUME NEW x \in Items, NEW r \in RowType, Create(x, r) PROVE IInv'
  BY <1>2, CreateStep
<1>3. ASSUME NEW t \in Txns, Load(t) \/ Update(t) \/ FlushDelete(t) \/ RemoveRow(t)
      PROVE  IInv'
  BY <1>3, LoadStep, UpdateStep, FlushStep, RemoveStep
<1>4. CASE UNCHANGED vars
  BY <1>4, ReplaysKept DEF vars, tables, session, IInv, TypeOK, Deleting, IdsDistinct,
     Unseen, Running
<1> QED  BY <1>1, <1>2, <1>3, <1>4 DEF Next

LEMMA Invariance == Spec => []IInv
  BY InvInit, InvStep, PTL DEF Spec

(* Every variable of the catalog keeps its type. *)
THEOREM CatalogTypeCorrect == Spec => []TypeOK
  BY Invariance, PTL DEF IInv

-----------------------------------------------------------------------------
(* What the last entry shows of a row that no two requests met at. *)

(* The one request at such a row has the row as its copy, and a deletion   *)
(* that waits for it has the highest id of its entries.                    *)
Alone == \A t \in Txns : Running(t) /\ request[t].item \notin raced =>
    /\ copy[t] = row[request[t].item]
    /\ \A u \in Txns \ {t} : Running(u) => request[u].item # request[t].item
    /\ pc[t] = "deleting" => \A e \in log : e.item = request[t].item => e.id < entryId[t]

(* That a last entry exists is part of the invariant: without it, Latest   *)
(* would say nothing.                                                      *)
IsLast(L, x, e) == e \in L /\ e.item = x /\ \A d \in L : d.item = x => d.id <= e.id

LastShown == \A x \in Items : (\E e \in log : e.item = x) =>
    \E e : IsLast(log, x, e) /\ (x \notin raced => e.new = row[x])

SInv == IInv /\ Alone /\ LastShown

(* A step that adds one entry, which shows the row it leaves. *)
LEMMA EntryShown ==
    ASSUME IInv, LastShown, raced' = raced,
           \E e : /\ log' = log \union {e} /\ e.id \in Nat
                  /\ \A y \in Items : y # e.item => row'[y] = row[y]
                  /\ e.item \notin raced =>
                        e.new = row'[e.item] /\ \A d \in log : d.item = e.item => d.id < e.id
    PROVE  LastShown'
<1>1. PICK e : /\ log' = log \union {e} /\ e.id \in Nat
               /\ \A y \in Items : y # e.item => row'[y] = row[y]
               /\ e.item \notin raced =>
                     e.new = row'[e.item] /\ \A d \in log : d.item = e.item => d.id < e.id
  OBVIOUS
<1>2. \A d \in log : d.id \in Nat
  BY DEF IInv, TypeOK, Entry
<1>3. SUFFICES ASSUME NEW x \in Items, \E d \in log' : d.item = x
               PROVE  \E d : IsLast(log', x, d) /\ (x \notin raced => d.new = row'[x])
  BY DEF LastShown
<1>4. CASE e.item # x
  <2>1. PICK d : IsLast(log, x, d) /\ (x \notin raced => d.new = row[x])
    BY <1>1, <1>3, <1>4 DEF LastShown
  <2>2. IsLast(log', x, d)
    BY <1>1, <1>4, <2>1 DEF IsLast
  <2> QED  BY <1>1, <1>4, <2>1, <2>2
<1>5. CASE e.item = x /\ \A d \in log : d.item = x => d.id <= e.id
  <2>1. IsLast(log', x, e)
    BY <1>1, <1>5 DEF IsLast
  <2> QED  BY <1>1, <1>5, <2>1
<1>6. CASE e.item = x /\ \E d \in log : d.item = x /\ ~(d.id <= e.id)
  <2>1. x \in raced
    BY <1>1, <1>2, <1>6
  <2>2. PICK d : IsLast(log, x, d)
    BY <1>6 DEF LastShown
  <2>3. IsLast(log', x, d)
    BY <1>1, <1>2, <1>6, <2>2 DEF IsLast
  <2> QED  BY <2>1, <2>3
<1> QED  BY <1>4, <1>5, <1>6

LEMMA NothingShown == LastShown /\ UNCHANGED <<row, log>> /\ raced \subseteq raced' => LastShown'
  BY DEF LastShown

LEMMA EndedAlone == ASSUME IInv, Alone, NEW t \in Txns, Running(t), End(t),
                           \A y \in Items : y # request[t].item => row'[y] = row[y],
                           \A e \in log' \ log : e.item = request[t].item
                    PROVE  Alone'
<1> SUFFICES ASSUME NEW u \in Txns, Running(u)', request'[u].item \notin raced'
             PROVE  /\ copy'[u] = row'[request'[u].item]
                    /\ \A v \in Txns \ {u} : Running(v)' => request'[v].item # request'[u].item
                    /\ pc'[u] = "deleting" =>
                          \A e \in log' : e.item = request'[u].item => e.id < entryId'[u]
  BY DEF Alone
<1>1. /\ u # t /\ Running(u) /\ pc'[u] = pc[u] /\ request'[u] = request[u]
      /\ copy'[u] = copy[u] /\ entryId'[u] = entryId[u] /\ raced' = raced
  BY EndRequest DEF End
<1>2. request[u].item \in Items /\ request[u].item # request[t].item
  BY <1>1 DEF IInv, TypeOK, Alone, Updates, Deletes
<1>3. row'[request[u].item] = row[request[u].item]
  BY <1>1, <1>2
<1>4. \A v \in Txns \ {u} : Running(v)' => request'[v].item # request[u].item
  BY <1>1, EndRequest DEF Alone
<1>5. \A e \in log' : e.item = request[u].item => e \in log
  BY <1>2
<1> QED  BY <1>1, <1>3, <1>4, <1>5 DEF Alone

LEMMA LastInit == Init => Alone /\ LastShown
  BY DEF Init, Alone, LastShown, Running

LEMMA RefuseShown == ASSUME SInv, NEW t \in Txns, Running(t), Refuse(t)
                     PROVE  Alone' /\ LastShown'
<1>1. End(t) /\ raced' = raced /\ row' = row /\ log' = log
  BY DEF Refuse, End, tables
<1> QED  BY <1>1, EndedAlone, NothingShown DEF SInv

LEMMA LoadShown == ASSUME SInv, NEW t \in Txns, Load(t) PROVE Alone' /\ LastShown'
<1>1. PICK r \in Updates \union Deletes :
        /\ pc[t] = "new" /\ row[r.item] # Absent
        /\ request' = [request EXCEPT ![t] = r]
        /\ copy' = [copy EXCEPT ![t] = row[r.item]]
        /\ pc' = [pc EXCEPT ![t] = "loaded"]
        /\ raced' = IF \E u \in Txns : Running(u) /\ request[u].item = r.item
                    THEN raced \union {r.item} ELSE raced
        /\ UNCHANGED <<row, used, inUse, log, nextEntry, entryId>>
  BY DEF Load, tables
<1>2. raced \subseteq raced' /\ (r.item \notin raced' =>
          \A u \in Txns : Running(u) => request[u].item # r.item)
  BY <1>1
<1>3. /\ Running(t)' /\ pc'[t] = "loaded" /\ request'[t] = r /\ copy'[t] = row[r.item]
      /\ \A u \in Txns \ {t} : /\ Running(u)' <=> Running(u)
                               /\ pc'[u] = pc[u] /\ request'[u] = request[u] /\ copy'[u] = copy[u]
  BY <1>1 DEF SInv, IInv, TypeOK, Running
<1>4. Alone'
  BY <1>1, <1>2, <1>3 DEF SInv, Alone
<1> QED  BY <1>1, <1>2, <1>4, NothingShown DEF SInv

LEMMA FlushShown == ASSUME SInv, NEW t \in Txns, FlushDelete(t) PROVE Alone' /\ LastShown'
<1>1. CASE request[t].item \in inUse
  BY <1>1, RefuseShown DEF FlushDelete, Running
<1>2. CASE request[t].item \notin inUse
  <2>1. /\ pc[t] = "loaded"
        /\ entryId' = [entryId EXCEPT ![t] = nextEntry] /\ pc' = [pc EXCEPT ![t] = "deleting"]
        /\ UNCHANGED <<row, log, request, copy, raced>>
    BY <1>2 DEF FlushDelete
  <2>2. \A e \in log : e.id < nextEntry
    BY DEF SInv, IInv, TypeOK
  <2>3. /\ \A u \in Txns : Running(u)' <=> Running(u)
        /\ entryId'[t] = nextEntry
        /\ \A u \in Txns \ {t} : pc'[u] = pc[u] /\ entryId'[u] = entryId[u]
    BY <2>1 DEF SInv, IInv, TypeOK, Running
  <2>4. Alone'
    BY <2>1, <2>2, <2>3 DEF SInv, Alone
  <2> QED  BY <2>1, <2>4, NothingShown DEF SInv
<1> QED  BY <1>1, <1>2

LEMMA CreateShown == ASSUME SInv, NEW x \in Items, NEW r \in RowType, Create(x, r)
                     PROVE  Alone' /\ LastShown'
<1> DEFINE e == [id |-> nextEntry, item |-> x, action |-> "create", old |-> Absent, new |-> r]
<1>1. /\ x \notin used /\ row' = [row EXCEPT ![x] = r] /\ log' = log \union {e}
      /\ UNCHANGED <<pc, request, copy, entryId, raced>>
  BY DEF Create, session
<1>2. /\ e.id \in Nat /\ e.item = x /\ e.new = row'[x]
      /\ \A y \in Items : y # x => row'[y] = row[y]
      /\ \A d \in log : d.item # x
  BY <1>1 DEF SInv, IInv, TypeOK, Unseen
<1> HIDE DEF e
<1>3. LastShown'
  BY <1>1, <1>2, EntryShown DEF SInv
<1>4. \A t \in Txns : Running(t) => request[t].item \in Items /\ request[t].item # x
  BY <1>1 DEF SInv, IInv, TypeOK, Unseen
<1>5. Alone'
  BY <1>1, <1>2, <1>4 DEF SInv, Alone, Running
<1> QED  BY <1>3, <1>5

LEMMA UpdateShown == ASSUME SInv, NEW t \in Txns, Update(t) PROVE Alone' /\ LastShown'
<1> DEFINE x == request[t].item
           writes == Assigned(t) # copy[t]
           e == [id |-> nextEntry, item |-> x, action |-> "update",
                 old |-> copy[t], new |-> Assigned(t)]
<1>1. CASE writes /\ (row[x] = Absent \/ Taken(x, Written(t)))
  BY <1>1, RefuseShown DEF Update, Running
<1>2. CASE ~(writes /\ (row[x] = Absent \/ Taken(x, Written(t))))
  <2>1. /\ pc[t] = "loaded" /\ request[t].kind = "update"
        /\ row' = IF writes THEN [row EXCEPT ![x] = Written(t)] ELSE row
        /\ log' = log \union {e} /\ End(t) /\ raced' = raced
    BY <1>2 DEF Update, Snapshot, End
  <2>2. Running(t) /\ x \in Items /\ copy[t] \in RowType /\ Assigned(t) \in RowType
    BY <2>1, AssignedType DEF Running, SInv, IInv
  <2>3. e.item = x /\ e.new = Assigned(t) /\ e.id \in Nat /\ \A d \in log : d.id < e.id
    BY DEF SInv, IInv, TypeOK
  <2>4. \A y \in Items : y # x => row'[y] = row[y]
    BY <2>1 DEF SInv, IInv, TypeOK
  <2>5. x \notin raced => row'[x] = Assigned(t)
    <3>1. SUFFICES ASSUME x \notin raced PROVE row'[x] = Assigned(t)
      OBVIOUS
    <3>2. copy[t] = row[x]
      BY <2>2, <3>1 DEF SInv, Alone
    <3>3. \A c \in Columns : Written(t)[c] = Assigned(t)[c]
      BY <3>2 DEF Written
    <3>4. Written(t) = Assigned(t)
      <4>1. Assigned(t) = [c \in Columns |-> Assigned(t)[c]]
        BY DEF Assigned
      <4>2. Written(t) = [c \in Columns |-> Written(t)[c]]
        BY DEF Written
      <4> QED  BY <3>3, <4>1, <4>2
    <3> QED  BY <2>1, <2>2, <3>2, <3>4 DEF SInv, IInv, TypeOK
  <2> HIDE DEF e, writes
  <2>6. LastShown'
    BY <2>1, <2>3, <2>4, <2>5, EntryShown DEF SInv
  <2>7. Alone'
    BY <2>1, <2>2, <2>3, <2>4, EndedAlone DEF SInv
  <2> QED  BY <2>6, <2>7
<1> QED  BY <1>1, <1>2

LEMMA RemoveShown == ASSUME SInv, NEW t \in Txns, RemoveRow(t) PROVE Alone' /\ LastShown'
<1> DEFINE x == request[t].item
           e == DeletionEntry(t)
<1>1. CASE x \in inUse
  BY <1>1, RefuseShown DEF RemoveRow, Running
<1>2. CASE x \notin inUse
  <2>1. /\ pc[t] = "deleting" /\ row' = [row EXCEPT ![x] = Absent]
        /\ log' = log \union {e} /\ End(t) /\ raced' = raced
    BY <1>2 DEF RemoveRow, End
  <2>2. Running(t) /\ x \in Items
    BY <2>1 DEF Running, SInv, IInv, TypeOK, Updates, Deletes
  <2>3. e.id = entryId[t] /\ e.item = x /\ e.new = Absent /\ e.id \in Nat
    BY DEF DeletionEntry, SInv, IInv, TypeOK
  <2>4. row'[x] = Absent /\ \A y \in Items : y # x => row'[y] = row[y]
    BY <2>1, <2>2 DEF SInv, IInv, TypeOK
  <2>5. x \notin raced => \A d \in log : d.item = x => d.id < e.id
    BY <2>1, <2>2, <2>3 DEF SInv, Alone
  <2> HIDE DEF e
  <2>6. LastShown'
    BY <2>1, <2>3, <2>4, <2>5, EntryShown DEF SInv
  <2>7. Alone'
    BY <2>1, <2>2, <2>3, <2>4, EndedAlone DEF SInv
  <2> QED  BY <2>6, <2>7
<1> QED  BY <1>1, <1>2

LEMMA ShownStep == SInv /\ [Next]_vars => SInv'
<1> SUFFICES ASSUME SInv, [Next]_vars PROVE Alone' /\ LastShown'
  BY InvStep DEF SInv
<1>1. ASSUME NEW x \in Items, UseItem(x) \/ FreeItem(x) PROVE Alone' /\ LastShown'
  BY <1>1, NothingShown DEF UseItem, FreeItem, session, SInv, Alone, Running
<1>2. ASSUME NEW x \in Items, NEW r \in RowType, Create(x, r) PROVE Alone' /\ LastShown'
  BY <1>2, CreateShown
<1>3. ASSUME NEW t \in Txns, Load(t) \/ Update(t) \/ FlushDelete(t) \/ RemoveRow(t)
      PROVE  Alone' /\ LastShown'
  BY <1>3, LoadShown, UpdateShown, FlushShown, RemoveShown
<1>4. CASE UNCHANGED vars
  BY <1>4, NothingShown DEF vars, tables, session, SInv, Alone, Running
<1> QED  BY <1>1, <1>2, <1>3, <1>4 DEF Next

LEMMA LastIsLatest == SInv => LastEntryShowsRowUnlessRaced
<1> SUFFICES ASSUME SInv, NEW x \in Items \ raced, {e \in log : e.item = x} # {}
             PROVE  Latest({e \in log : e.item = x}).new = row[x]
  BY DEF LastEntryShowsRowUnlessRaced
<1> DEFINE S == {e \in log : e.item = x}
<1>1. PICK e : IsLast(log, x, e) /\ e.new = row[x]
  BY DEF SInv, LastShown
<1>2. \A d \in log : d.id \in Nat
  BY DEF SInv, IInv, TypeOK, Entry
<1>3. /\ e \in S /\ \A d \in S : d.id \in Nat
      /\ \A d \in S \ {e} : d.id < e.id
  BY <1>1, <1>2 DEF SInv, IInv, IdsDistinct, IsLast
<1> HIDE DEF S
<1>4. Latest(S) = e
  BY <1>3, LatestIs
<1> QED  BY <1>1, <1>4 DEF S

(* An entry of record_change shows the row as it was left, unless two      *)
(* requests for the row overlapped.                                        *)
THEOREM LastEntryShows == Spec => []LastEntryShowsRowUnlessRaced
<1>1. Init => SInv
  BY InvInit, LastInit DEF SInv
<1> QED  BY <1>1, ShownStep, LastIsLatest, PTL DEF Spec

-----------------------------------------------------------------------------
(* Refinement: the catalog is the audited table of module AuditedTable. *)

Replayed == row = Replay(log)

LEMMA RowIsReplay == IInv => Replayed
<1> SUFFICES ASSUME IInv PROVE Replayed
  OBVIOUS
<1>1. ASSUME NEW x \in Items
      PROVE  row[x] = IF Gone(log, x) THEN Absent
                      ELSE [c \in Columns |-> Value(log, x, c)]
  <2>1. CASE row[x] = Absent
    BY <2>1 DEF IInv, Replays
  <2>2. CASE row[x] # Absent
    <3>1. row[x] \in RowType /\ ~Gone(log, x)
      BY <2>2 DEF IInv, TypeOK, Replays
    <3>2. row[x] = [c \in Columns |-> row[x][c]]
      BY <3>1, RowElim
    <3>3. \A c \in Columns : row[x][c] = Value(log, x, c)
      BY <2>2 DEF IInv, Replays
    <3> QED  BY <3>1, <3>2, <3>3
  <2> QED  BY <2>1, <2>2
<1>2. row = [x \in Items |-> row[x]]
  BY DEF IInv, TypeOK
<1> QED  BY <1>1, <1>2 DEF Replay, Replayed

LEMMA OneEntry == IInv /\ [Next]_vars =>
    \/ UNCHANGED <<row, log>>
    \/ \E e : log' = log \union {e} /\ \A d \in log : d.id # e.id
<1> SUFFICES ASSUME IInv, Next, ~UNCHANGED <<row, log>>
             PROVE  \E e : log' = log \union {e} /\ \A d \in log : d.id # e.id
  BY DEF vars, tables
<1>1. \A d \in log : d.id < nextEntry /\ d.id \in Nat
  BY DEF IInv, TypeOK, Entry
<1>2. ASSUME NEW x \in Items, NEW r \in RowType, Create(x, r)
      PROVE  \E e : log' = log \union {e} /\ \A d \in log : d.id # e.id
  <2> DEFINE e == [id |-> nextEntry, item |-> x, action |-> "create", old |-> Absent, new |-> r]
  <2>1. log' = log \union {e} /\ e.id = nextEntry
    BY <1>2 DEF Create
  <2>2. \A d \in log : d.id # e.id
    BY <1>1, <2>1 DEF IInv, TypeOK
  <2> HIDE DEF e
  <2> QED  BY <2>1, <2>2
<1>3. ASSUME NEW t \in Txns, Update(t)
      PROVE  \E e : log' = log \union {e} /\ \A d \in log : d.id # e.id
  <2> DEFINE e == [id |-> nextEntry, item |-> request[t].item, action |-> "update",
                   old |-> copy[t], new |-> Snapshot(t)]
  <2>1. log' = log \union {e} /\ e.id = nextEntry
    BY <1>3 DEF Update, Refuse, tables
  <2>2. \A d \in log : d.id # e.id
    BY <1>1, <2>1 DEF IInv, TypeOK
  <2> HIDE DEF e
  <2> QED  BY <2>1, <2>2
<1>4. ASSUME NEW t \in Txns, RemoveRow(t)
      PROVE  \E e : log' = log \union {e} /\ \A d \in log : d.id # e.id
  <2>1. pc[t] = "deleting" /\ log' = log \union {DeletionEntry(t)}
    BY <1>4 DEF RemoveRow, Refuse, tables
  <2>2. DeletionEntry(t).id = entryId[t]
    BY DEF DeletionEntry
  <2> QED  BY <2>1, <2>2 DEF IInv, IdsDistinct
<1> QED  BY <1>2, <1>3, <1>4 DEF Next, UseItem, FreeItem, Load, FlushDelete, Refuse, tables

LEMMA RefineStep == IInv /\ Replayed' /\ [Next]_vars => [Audited!Next]_<<row, log>>
<1> SUFFICES ASSUME IInv, Replayed', [Next]_vars, ~UNCHANGED <<row, log>> PROVE Audited!Next
  OBVIOUS
<1>1. PICK e : log' = log \union {e} /\ \A d \in log : d.id # e.id
  BY OneEntry
<1>2. e \in log' \ log
  BY <1>1
<1>3. row' = Audited!Replay(log')
  BY DEF Replayed, Replay, Gone, Value, Latest, Changing, About, Audited!Replay,
     Audited!Gone, Audited!Value, Audited!Latest, Audited!Changing, Audited!About
<1> QED  BY <1>1, <1>2, <1>3 DEF Audited!Next, Audited!Append

(* However many requests overlap, on whatever columns and with however     *)
(* stale copies, the change log of record_change replays to the table.     *)
THEOREM CatalogIsAudited == Spec => ImplementsAuditedTable
<1>1. Init => Audited!Init
  BY DEF Init, Audited!Init
<1> QED  BY <1>1, Invariance, RowIsReplay, RefineStep, PTL DEF Spec, ImplementsAuditedTable, Audited!Spec

=============================================================================
