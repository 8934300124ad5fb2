--------------------------- MODULE NotificationProofs --------------------------
(* Proofs about the two tables that serve a user's devices: the row of a   *)
(* notification (NotificationRow), for any PATCH requests, senders and     *)
(* budget, and the push tokens (FcmTokens), for any users, tokens and      *)
(* requests.                                                               *)
EXTENDS NotificationRow, FcmTokens, FiniteSetTheorems, TLAPS

-----------------------------------------------------------------------------
(* One row of notification_outbox.                                         *)
(* Each request that has ended took one ordinal. *)
Ended == {p \in Patches : pc[p] = "done"}
Counted == now = Cardinality(Ended) + 2

(* The sender that holds the row has its delivery columns in its copy, and *)
(* an attempt left.                                                        *)
Holding ==
    /\ \A s \in Senders : pc[s] = "loaded" =>
          /\ held = {s}
          /\ copy[s].deliveryStatus = row.deliveryStatus /\ copy[s].attempts = row.attempts
          /\ copy[s].attempts < MaxAttempts
    /\ row.deliveryStatus = "queued" => row.attempts = 0

(* Who clashes is found out. *)
ClashesFound == \A p, q \in Patches :
    pc[p] = "loaded" /\ pc[q] = "loaded" /\ p \notin clashed =>
        target[q] \in {"none", target[p]} \/ target[p] = "none"

(* As long as nobody works against a request, each read column is as in    *)
(* its copy or already as it wants it.                                     *)
NoneAgainst == \A p \in Patches \ clashed : pc[p] = "loaded" /\ target[p] # "none" =>
    /\ row.readStatus \in {copy[p].readStatus, target[p]}
    /\ row.readAt = copy[p].readAt \/ (row.readAt # Null <=> target[p] = "read")

(* Every read_at comes before the next one. *)
Earlier == row.readAt < now /\ \A w \in Writers : copy[w].readAt < now

IInv == TypeOK /\ Counted /\ Holding /\ Earlier /\ ClashesFound /\ NoneAgainst

-----------------------------------------------------------------------------
LEMMA MaxNowType == IsFiniteSet(Patches) /\ MaxNow \in Nat /\ MaxNow >= 1
  BY RowAssumption, FS_CardinalityType DEF MaxNow

(* What an UPDATE leaves, column by column. *)
LEMMA WrittenColumns ==
    ASSUME TypeOK, NEW w \in Writers, NEW new \in Row
    PROVE  /\ Written(w, new) \in Row
           /\ Written(w, new).deliveryStatus =
                 IF new.deliveryStatus # copy[w].deliveryStatus THEN new.deliveryStatus
                 ELSE row.deliveryStatus
           /\ Written(w, new).attempts =
                 IF new.attempts # copy[w].attempts THEN new.attempts ELSE row.attempts
           /\ Written(w, new).readStatus =
                 IF new.readStatus # copy[w].readStatus THEN new.readStatus ELSE row.readStatus
           /\ Written(w, new).readAt =
                 IF new.readAt # copy[w].readAt THEN new.readAt ELSE row.readAt
<1>1. row \in Row
  BY DEF TypeOK
<1>2. DOMAIN row = {"deliveryStatus", "attempts", "readStatus", "readAt"}
  BY <1>1 DEF Row
<1>3. /\ Written(w, new).deliveryStatus =
            IF new.deliveryStatus # copy[w].deliveryStatus THEN new.deliveryStatus
            ELSE row.deliveryStatus
      /\ Written(w, new).attempts =
            IF new.attempts # copy[w].attempts THEN new.attempts ELSE row.attempts
      /\ Written(w, new).readStatus =
            IF new.readStatus # copy[w].readStatus THEN new.readStatus ELSE row.readStatus
      /\ Written(w, new).readAt =
            IF new.readAt # copy[w].readAt THEN new.readAt ELSE row.readAt
  BY <1>2 DEF Written
<1>4. Written(w, new) \in Row
  <2>1. Written(w, new) = [c \in {"deliveryStatus", "attempts", "readStatus", "readAt"} |->
                              Written(w, new)[c]]
    BY <1>2 DEF Written
  <2>2. /\ Written(w, new).deliveryStatus \in InitialDelivery \union Outcomes
        /\ Written(w, new).attempts \in 0..MaxAttempts
        /\ Written(w, new).readStatus \in ReadStatuses
        /\ Written(w, new).readAt \in 0..MaxNow
    BY <1>1, <1>3 DEF Row
  <2> QED  BY <2>1, <2>2 DEF Row
<1> QED  BY <1>3, <1>4

LEMMA PatchedColumns ==
    ASSUME TypeOK, now <= MaxNow, NEW p \in Patches
    PROVE  /\ Patched(p) \in Row
           /\ Patched(p).deliveryStatus = copy[p].deliveryStatus
           /\ Patched(p).attempts = copy[p].attempts
           /\ Patched(p).readStatus = IF target[p] = "none" THEN copy[p].readStatus ELSE target[p]
           /\ Patched(p).readAt = IF target[p] = "none" THEN copy[p].readAt
                                  ELSE IF target[p] = "read" THEN now ELSE Null
<1>1. copy[p] \in Row /\ target[p] \in ReadStatuses \union {"none"} /\ now \in 0..MaxNow
  BY MaxNowType DEF TypeOK, Writers
<1>2. CASE target[p] = "none"
  BY <1>1, <1>2 DEF Patched
<1>3. CASE target[p] # "none"
  <2>1. Patched(p) = [copy[p] EXCEPT !.readStatus = target[p],
                                     !.readAt = IF target[p] = "read" THEN now ELSE Null]
    BY <1>3 DEF Patched
  <2>2. target[p] \in ReadStatuses /\ (IF target[p] = "read" THEN now ELSE Null) \in 0..MaxNow
    BY <1>1, <1>3, MaxNowType DEF Null
  <2> QED  BY <1>1, <1>3, <2>1, <2>2 DEF Row
<1> QED  BY <1>2, <1>3

(* A request that has not ended has an ordinal left. *)
LEMMA NowLeft == ASSUME TypeOK, Counted, NEW p \in Patches, pc[p] # "done"
                 PROVE  now <= MaxNow /\ now >= 2
<1>1. Ended \subseteq Patches \ {p}
  BY DEF Ended
<1>2. /\ IsFiniteSet(Patches \ {p}) /\ Cardinality(Patches \ {p}) = Cardinality(Patches) - 1
      /\ Cardinality(Patches) \in Nat
  BY RowAssumption, FS_RemoveElement, FS_CardinalityType
<1>3. Cardinality(Ended) <= Cardinality(Patches \ {p}) /\ IsFiniteSet(Ended)
  BY <1>1, <1>2, FS_Subset
<1>4. Cardinality(Ended) \in Nat
  BY <1>3, FS_CardinalityType
<1> QED  BY <1>2, <1>3, <1>4 DEF Counted, MaxNow

LEMMA InvInit == Init => IInv
<1> SUFFICES ASSUME Init PROVE IInv
  OBVIOUS
<1>1. PICK d \in InitialDelivery, st \in ReadStatuses :
        row = [deliveryStatus |-> d, attempts |-> 0, readStatus |-> st,
               readAt |-> IF st = "read" THEN 1 ELSE Null]
  BY DEF Init
<1>2. row \in Row /\ row.readAt < 2
  BY <1>1, RowAssumption, MaxNowType DEF Row, Null
<1>3. TypeOK
  BY <1>2, MaxNowType DEF Init, TypeOK
<1>4. Counted
  <2>1. Ended = {}
    BY DEF Init, Ended, Writers
  <2> QED  BY <2>1, FS_EmptySet DEF Init, Counted
<1>5. Holding /\ ClashesFound /\ NoneAgainst
  BY <1>1 DEF Init, Holding, ClashesFound, NoneAgainst, Writers
<1>6. Earlier
  BY <1>2 DEF Init, Earlier
<1> QED  BY <1>3, <1>4, <1>5, <1>6 DEF IInv

LEMMA LoadStep == ASSUME IInv, NEW p \in Patches, Load(p) PROVE IInv'
<1>1. PICK st \in ReadStatuses \union {"none"} :
        /\ target' = [target EXCEPT ![p] = st]
        /\ clashed' = clashed \union Against(st) \union (IF Against(st) = {} THEN {} ELSE {p})
  BY DEF Load
<1>2. /\ pc[p] = "new" /\ pc' = [pc EXCEPT ![p] = "loaded"]
      /\ copy' = [copy EXCEPT ![p] = row]
      /\ UNCHANGED <<row, held, now>>
  BY DEF Load
<1>3. TypeOK'
  BY <1>1, <1>2 DEF IInv, TypeOK, Against, Writers
<1>4. Ended' = Ended
  BY <1>2 DEF IInv, TypeOK, Ended, Writers
<1>5. Holding' /\ Earlier'
  BY <1>2, RowAssumption DEF IInv, TypeOK, Holding, Earlier, Writers
<1>6. /\ pc'[p] = "loaded" /\ copy'[p] = row /\ target'[p] = st
      /\ \A q \in Patches \ {p} : pc'[q] = pc[q] /\ copy'[q] = copy[q] /\ target'[q] = target[q]
  BY <1>1, <1>2 DEF IInv, TypeOK, Writers
<1>7. ClashesFound'
  <2> SUFFICES ASSUME NEW q \in Patches, NEW x \in Patches,
                      pc'[q] = "loaded", pc'[x] = "loaded", q \notin clashed'
               PROVE  target'[x] \in {"none", target'[q]} \/ target'[q] = "none"
    BY DEF ClashesFound
  <2>1. q \notin clashed
    BY <1>1
  <2>2. CASE q # p /\ x # p
    BY <1>6, <2>1, <2>2 DEF IInv, ClashesFound
  <2>3. CASE q = p /\ x # p
    BY <1>1, <1>6, <2>3 DEF Against
  <2>4. CASE q # p /\ x = p
    BY <1>1, <1>6, <2>4 DEF Against
  <2>5. CASE q = p /\ x = p
    BY <2>5
  <2> QED  BY <2>2, <2>3, <2>4, <2>5
<1>8. NoneAgainst'
  BY <1>1, <1>2, <1>6 DEF IInv, NoneAgainst
<1> QED  BY <1>2, <1>3, <1>4, <1>5, <1>7, <1>8 DEF IInv, Counted

LEMMA UpdateStep ==
    ASSUME IInv, NEW p \in Patches, Update(p)
    PROVE  /\ IInv' /\ held' = held
           /\ \A q \in Patches : pc[q] # pc'[q] => q = p
           /\ p \notin clashed /\ target[p] # "none" =>
                /\ row'.readStatus = target[p]
                /\ row'.readAt # Null <=> target[p] = "read"
           /\ row'.deliveryStatus = row.deliveryStatus /\ row'.attempts = row.attempts
<1>1. /\ pc[p] = "loaded" /\ row' = Written(p, Patched(p)) /\ now' = now + 1
      /\ pc' = [pc EXCEPT ![p] = "done"]
      /\ UNCHANGED <<held, copy, target, clashed>>
  BY DEF Update
<1>2. now <= MaxNow /\ now >= 2
  BY <1>1, NowLeft DEF IInv
<1>3. /\ row' \in Row /\ row'.deliveryStatus = row.deliveryStatus /\ row'.attempts = row.attempts
      /\ row'.readStatus = IF Patched(p).readStatus # copy[p].readStatus
                           THEN Patched(p).readStatus ELSE row.readStatus
      /\ row'.readAt = IF Patched(p).readAt # copy[p].readAt THEN Patched(p).readAt ELSE row.readAt
  BY <1>1, <1>2, PatchedColumns, WrittenColumns DEF IInv, Writers
<1>4. TypeOK'
  BY <1>1, <1>2, <1>3, MaxNowType DEF IInv, TypeOK, Writers
<1>5. Counted'
  <2>1. Ended' = Ended \union {p} /\ p \notin Ended
    BY <1>1 DEF IInv, TypeOK, Ended, Writers
  <2>2. IsFiniteSet(Ended)
    BY RowAssumption, FS_Subset DEF Ended
  <2>3. Cardinality(Ended') = Cardinality(Ended) + 1 /\ Cardinality(Ended) \in Nat
    BY <2>1, <2>2, FS_AddElement, FS_CardinalityType
  <2> QED  BY <1>1, <2>3 DEF IInv, Counted
<1>6. Holding'
  BY <1>1, <1>3, RowAssumption DEF IInv, TypeOK, Holding, Writers
<1>7. Earlier'
  <2>1. /\ copy[p] \in Row /\ row \in Row /\ now \in Nat
        /\ Patched(p).readAt \in {copy[p].readAt, now, Null}
        /\ \A w \in Writers : copy[w] \in Row
    BY <1>2, PatchedColumns, MaxNowType DEF IInv, TypeOK, Writers
  <2>2. row'.readAt \in {row.readAt, copy[p].readAt, now, Null}
    BY <1>3, <2>1
  <2>3. copy[p].readAt < now /\ row.readAt < now /\ \A w \in Writers : copy[w].readAt < now
    BY DEF IInv, Earlier, Writers
  <2>4. row'.readAt < now + 1
    BY <1>2, <2>1, <2>2, <2>3, MaxNowType DEF Row, Null
  <2>5. \A w \in Writers : copy[w].readAt < now + 1
    BY <2>1, <2>3, MaxNowType DEF Row
  <2> QED  BY <1>1, <2>4, <2>5 DEF Earlier
<1>8. pc'[p] = "done" /\ \A q \in Patches \ {p} : pc'[q] = pc[q]
  BY <1>1 DEF IInv, TypeOK, Writers
<1>9. ClashesFound'
  BY <1>1, <1>8 DEF IInv, ClashesFound
(* What the request leaves as it is, is already as it wants it.            *)
<1>10. CASE target[p] = "none"
  <2>1. row'.readStatus = row.readStatus /\ row'.readAt = row.readAt
    BY <1>2, <1>3, <1>10, PatchedColumns DEF IInv
  <2>2. NoneAgainst'
    BY <1>1, <1>8, <2>1 DEF IInv, NoneAgainst
  <2> QED  BY <1>1, <1>4, <1>5, <1>6, <1>7, <1>8, <1>9, <1>10, <1>3, <2>2 DEF IInv
<1>11. CASE target[p] # "none"
  <2>1. /\ copy[p].readAt \in Nat /\ copy[p].readAt < now
        /\ Patched(p).readStatus = target[p]
        /\ Patched(p).readAt = IF target[p] = "read" THEN now ELSE Null
    BY <1>2, <1>11, PatchedColumns, MaxNowType DEF IInv, TypeOK, Earlier, Row, Writers
  <2>2. /\ row'.readStatus \in {row.readStatus, target[p]}
        /\ target[p] # copy[p].readStatus => row'.readStatus = target[p]
    BY <1>3, <2>1
  <2>3. \/ row'.readAt # Null <=> target[p] = "read"
        \/ row'.readAt = row.readAt /\ target[p] # "read" /\ copy[p].readAt = Null
    BY <1>2, <1>3, <2>1 DEF Null
  <2>4. NoneAgainst'
    <3> SUFFICES ASSUME NEW q \in Patches \ clashed, pc'[q] = "loaded", target[q] # "none"
                 PROVE  /\ row'.readStatus \in {copy[q].readStatus, target[q]}
                        /\ row'.readAt = copy[q].readAt \/ (row'.readAt # Null <=> target[q] = "read")
      BY <1>1 DEF NoneAgainst
    <3>1. q # p /\ pc[q] = "loaded" /\ target[q] = target[p]
      BY <1>1, <1>8, <1>11 DEF IInv, ClashesFound
    <3>2. /\ row.readStatus \in {copy[q].readStatus, target[q]}
          /\ row.readAt = copy[q].readAt \/ (row.readAt # Null <=> target[q] = "read")
      BY <3>1 DEF IInv, NoneAgainst
    <3> QED  BY <2>2, <2>3, <3>1, <3>2
  <2>5. ASSUME p \notin clashed
        PROVE  row'.readStatus = target[p] /\ (row'.readAt # Null <=> target[p] = "read")
    <3>1. /\ row.readStatus \in {copy[p].readStatus, target[p]}
          /\ row.readAt = copy[p].readAt \/ (row.readAt # Null <=> target[p] = "read")
      BY <1>1, <1>11, <2>5 DEF IInv, NoneAgainst
    <3> QED  BY <2>2, <2>3, <3>1
  <2> QED  BY <1>1, <1>3, <1>4, <1>5, <1>6, <1>7, <1>8, <1>9, <2>4, <2>5 DEF IInv
<1> QED  BY <1>10, <1>11

LEMMA LockStep == ASSUME IInv, NEW s \in Senders, Lock(s) PROVE IInv'
<1>1. /\ pc[s] = "new" /\ held = {} /\ pc' = [pc EXCEPT ![s] = "loaded"]
      /\ copy' = [copy EXCEPT ![s] = row] /\ held' = {s}
      /\ row.deliveryStatus = "queued"
           \/ (row.deliveryStatus = "failed" /\ row.attempts < MaxAttempts)
      /\ UNCHANGED <<row, target, now, clashed>>
  BY DEF Lock
<1>2. TypeOK'
  BY <1>1 DEF IInv, TypeOK, Writers
<1>3. Ended' = Ended /\ \A p \in Patches : pc'[p] = pc[p] /\ copy'[p] = copy[p]
  BY <1>1, RowAssumption DEF IInv, TypeOK, Ended, Writers
<1>4. Holding'
  BY <1>1, RowAssumption DEF IInv, TypeOK, Holding, Writers
<1>5. ClashesFound' /\ NoneAgainst' /\ Earlier'
  BY <1>1, <1>3 DEF IInv, TypeOK, ClashesFound, NoneAgainst, Earlier, Writers
<1> QED  BY <1>1, <1>2, <1>3, <1>4, <1>5 DEF IInv, Counted

(* The end of a batch, with or without an outcome for the row. *)
LEMMA ReleaseStep ==
    ASSUME IInv, NEW s \in Senders, pc[s] = "loaded", pc' = [pc EXCEPT ![s] = "done"],
           held' = {}, UNCHANGED <<copy, target, now, clashed>>, row' \in Row,
           row'.readStatus = row.readStatus, row'.readAt = row.readAt,
           row'.deliveryStatus = "queued" => row'.attempts = 0
    PROVE  IInv'
<1>1. TypeOK'
  BY DEF IInv, TypeOK, Writers
<1>2. Ended' = Ended /\ \A p \in Patches : pc'[p] = pc[p]
  BY RowAssumption DEF IInv, TypeOK, Ended, Writers
<1>3. \A u \in Senders : pc'[u] # "loaded"
  BY RowAssumption DEF IInv, TypeOK, Holding, Writers
<1>4. Holding'
  BY <1>3 DEF Holding
<1>5. ClashesFound' /\ NoneAgainst' /\ Earlier'
  BY <1>2 DEF IInv, ClashesFound, NoneAgainst, Earlier
<1> QED  BY <1>1, <1>2, <1>4, <1>5 DEF IInv, Counted

LEMMA DeliverStep ==
    ASSUME IInv, NEW s \in Senders, Deliver(s)
    PROVE  IInv' /\ held # {} /\ row'.readStatus = row.readStatus /\ row'.readAt = row.readAt
<1>1. PICK o \in Outcomes :
        row' = Written(s, [copy[s] EXCEPT !.deliveryStatus = o, !.attempts = @ + 1])
  BY DEF Deliver
<1> DEFINE new == [copy[s] EXCEPT !.deliveryStatus = o, !.attempts = @ + 1]
<1>2. /\ copy[s] \in Row /\ copy[s].attempts < MaxAttempts /\ held = {s}
      /\ copy[s].deliveryStatus = row.deliveryStatus
  BY DEF Deliver, IInv, TypeOK, Holding, Writers
<1>3. /\ new \in Row /\ new.deliveryStatus = o /\ new.attempts = copy[s].attempts + 1
      /\ new.readStatus = copy[s].readStatus /\ new.readAt = copy[s].readAt
  <2>1. copy[s].attempts + 1 \in 0..MaxAttempts /\ o \in InitialDelivery \union Outcomes
    BY <1>2, RowAssumption DEF Row
  <2> QED  BY <1>2, <2>1 DEF Row
<1> HIDE DEF new
<1>4. /\ row' \in Row /\ row'.readStatus = row.readStatus /\ row'.readAt = row.readAt
      /\ row'.deliveryStatus = o
  <2>1. TypeOK /\ s \in Writers /\ row' = Written(s, new)
    BY <1>1 DEF IInv, Writers, new
  <2> QED  BY <1>2, <1>3, <2>1, WrittenColumns
<1> QED  BY <1>2, <1>4, ReleaseStep DEF Deliver, Outcomes

LEMMA RollBackStep == ASSUME IInv, NEW s \in Senders, RollBack(s) PROVE IInv' /\ row' = row
  BY ReleaseStep DEF RollBack, IInv, TypeOK, Holding

LEMMA InvStep == IInv /\ [Next]_vars => IInv'
<1> SUFFICES ASSUME IInv, [Next]_vars PROVE IInv'
  OBVIOUS
<1>1. CASE UNCHANGED vars
  BY <1>1 DEF vars, IInv, TypeOK, Counted, Ended, Holding, Earlier, ClashesFound, NoneAgainst
<1> QED  BY <1>1, LoadStep, UpdateStep, LockStep, DeliverStep, RollBackStep DEF Next

LEMMA Invariance == Spec => []IInv
  BY InvInit, InvStep, PTL DEF Spec

(* Whatever strings the requests and the row's creator give, the status    *)
(* columns hold one of them or an outcome, read_at is no later than the    *)
(* last request, and attempts stay in the budget.                          *)
THEOREM RowTypeCorrect == Spec => []TypeOK
  BY Invariance, PTL DEF IInv

(* A PATCH request leaves what it asks for, for any requests, statuses and *)
(* senders, from whatever state earlier requests left and together with    *)
(* any number of others that ask for the same: NoneAgainst says why.       *)
THEOREM PatchTakesEffect == Spec => PatchTakesEffectUnlessClashed
<1>1. IInv /\ [Next]_vars =>
        [\A p \in Patches \ clashed :
           pc[p] = "loaded" /\ pc'[p] = "done" /\ target[p] # "none" =>
             /\ row'.readStatus = target[p]
             /\ row'.readAt # Null <=> target[p] = "read"]_vars
  <2> SUFFICES ASSUME IInv, Next, NEW p \in Patches \ clashed,
                      pc[p] = "loaded", pc'[p] = "done", target[p] # "none"
               PROVE  row'.readStatus = target[p] /\ (row'.readAt # Null <=> target[p] = "read")
    OBVIOUS
  <2>1. PICK q \in Patches : Update(q) /\ q = p
    <3>1. ASSUME NEW q \in Patches, Load(q) PROVE pc'[p] # "done"
      BY <3>1 DEF Load, IInv, TypeOK, Writers
    <3>2. ASSUME NEW s \in Senders, Lock(s) \/ Deliver(s) \/ RollBack(s) PROVE pc'[p] # "done"
      BY <3>2, RowAssumption DEF Lock, Deliver, RollBack, IInv, TypeOK, Writers
    <3>3. PICK q \in Patches : Update(q)
      BY <3>1, <3>2 DEF Next
    <3> QED  BY <3>3, UpdateStep
  <2> QED  BY <2>1, UpdateStep
<1> QED  BY <1>1, Invariance, PTL DEF Spec, PatchTakesEffectUnlessClashed

(* However old their copies, PATCH requests keep what senders record and   *)
(* senders keep read marks.                                                *)
THEOREM MarksKept == Spec => DeliveryAndReadMarksKept
<1>1. IInv /\ [Next]_vars =>
        [/\ row'.deliveryStatus # row.deliveryStatus \/ row'.attempts # row.attempts
              => held # {} /\ held' = {}
         /\ held # {} /\ held' = {}
              => row'.readStatus = row.readStatus /\ row'.readAt = row.readAt]_vars
  BY UpdateStep, DeliverStep, RollBackStep DEF Next, Load, Lock, Deliver
<1> QED  BY <1>1, Invariance, PTL DEF Spec, DeliveryAndReadMarksKept

-----------------------------------------------------------------------------
(* Push tokens.                                                            *)
TokensTypes ==
    /\ rows \subseteq TokenRow /\ IsFiniteSet(rows) /\ nextId \in Nat
    /\ deleted \in [Txns -> SUBSET TokenRow] /\ inserted \in [Txns -> SUBSET TokenRow]
    /\ seen \in [Txns -> SUBSET TokenRow]
    /\ stage \in [Txns -> Stages]
    /\ request \in [Txns -> Requests]
    /\ existing \in [Txns -> TokenRow \union {NoRow}]
    /\ answer \in [Txns -> {"none", "ok", "error"}]
    /\ rivals \subseteq Txns

AtWork(t) == stage[t] \notin {"new", "done"}

(* What a request of the stage p may hold: rows D deleted, I inserted, S   *)
(* seen.  A registration writes one row of its user and deletes rows of    *)
(* others.                                                                 *)
MayHold(t, p, D, I, S) ==
    /\ \A r \in D \union I \union S : r.token = TokenOf(t)
    /\ p \notin {"inserting", "ending"} => D = {} /\ I = {}
    /\ p \in {"new", "reading"} => S = {}
    /\ p = "inserting" \/ ~Registers(t) => I = {}
    /\ p \in {"refreshing", "inserting"} => Registers(t)
    /\ IsFiniteSet(I)
    /\ p = "ending" /\ Registers(t) => \E r \in I : I = {r} /\ r.user = request[t].user

HoldsOwn == \A t \in Txns : MayHold(t, stage[t], deleted[t], inserted[t], seen[t])

(* Registrations that overlap find each other out. *)
RivalsFound == \A t, x \in Txns :
    AtWork(t) /\ AtWork(x) /\ Registers(t) /\ Registers(x) /\ TokenOf(t) = TokenOf(x) /\ t # x
      => t \in rivals

(* What a registration of the stage p that no other overlaps knows of the  *)
(* table: its user has no row but e, or none, and what it has seen or      *)
(* deleted is all there is of others.  Deletions only make this truer.     *)
Knows(t, p, D, S, e) ==
    /\ p = "refreshing" => /\ e # NoRow /\ e.user = request[t].user /\ e.token = TokenOf(t)
                           /\ OfUser(rows, t) \subseteq {e}
    /\ p \in {"purging", "inserting", "ending"} => OfUser(rows, t) = {}
    /\ p = "purging" /\ S # {} => OfOthers(rows, t) \subseteq S
    /\ p \in {"inserting", "ending"} => OfOthers(rows, t) \subseteq D

LoneKnows == \A t \in Txns \ rivals : Registers(t) =>
                Knows(t, stage[t], deleted[t], seen[t], existing[t])

OneHolder == \A tok \in Tokens \ {TokenOf(t) : t \in rivals} :
                \A a, b \in Holders(rows, tok) : a = b

TokensInv == TokensTypes /\ HoldsOwn /\ RivalsFound /\ LoneKnows /\ OneHolder

LEMMA TokenRequest ==
    ASSUME TokensTypes, NEW t \in Txns
    PROVE  TokenOf(t) \in Tokens /\ request[t].user \in Users
  BY DEF TokensTypes, Requests, TokenOf

LEMMA TokenAtMostOne == ASSUME NEW S, \A a, b \in S : a = b
                        PROVE  IsFiniteSet(S) /\ Cardinality(S) <= 1 /\ Cardinality(S) \in Nat
<1>1. CASE S = {}
  BY <1>1, FS_EmptySet
<1>2. CASE S # {}
  <2>1. PICK a : a \in S
    BY <1>2
  <2>2. S = {a}
    BY <2>1
  <2>3. IsFiniteSet({a}) /\ Cardinality({a}) = 1
    BY FS_Singleton
  <2> QED  BY <2>2, <2>3
<1> QED  BY <1>1, <1>2

LEMMA TokensInvInit == TokensInit => TokensInv
<1> SUFFICES ASSUME TokensInit PROVE TokensInv
  OBVIOUS
<1>1. /\ rows = InitialRows /\ nextId = 1 /\ rivals = {}
      /\ deleted = [t \in Txns |-> {}] /\ inserted = [t \in Txns |-> {}]
      /\ seen = [t \in Txns |-> {}] /\ stage = [t \in Txns |-> "new"]
      /\ request \in [Txns -> Requests] /\ existing = [t \in Txns |-> NoRow]
      /\ answer = [t \in Txns |-> "none"]
  BY DEF TokensInit, StoreInit
<1>2. InitialRows \subseteq TokenRow
  <2> SUFFICES ASSUME NEW p \in Initial
               PROVE  [id |-> 0, user |-> p[1], token |-> p[2]] \in TokenRow
    BY DEF InitialRows
  <2>1. p[1] \in Users /\ p[2] \in Tokens
    BY TokensAssumption
  <2> QED  BY <2>1 DEF TokenRow
<1>3. TokensTypes
  <2> DEFINE f == [p \in Initial |-> [id |-> 0, user |-> p[1], token |-> p[2]]]
  <2>1. f \in Surjection(Initial, InitialRows)
    BY DEF InitialRows, Surjection
  <2>2. IsFiniteSet(InitialRows)
    BY <2>1, TokensAssumption, FS_Surjection
  <2> HIDE DEF f
  <2> QED  BY <1>1, <1>2, <2>2 DEF TokensTypes, Stages
<1>4. HoldsOwn /\ RivalsFound /\ LoneKnows
  BY <1>1, FS_EmptySet DEF HoldsOwn, MayHold, RivalsFound, LoneKnows, Knows, AtWork
<1>5. OneHolder
  <2> SUFFICES ASSUME NEW a \in InitialRows, NEW b \in InitialRows, a.token = b.token PROVE a = b
    BY <1>1 DEF OneHolder, Holders
  <2>1. PICK p \in Initial : a = [id |-> 0, user |-> p[1], token |-> p[2]]
    BY DEF InitialRows
  <2>2. PICK q \in Initial : b = [id |-> 0, user |-> q[1], token |-> q[2]]
    BY DEF InitialRows
  <2>3. p[2] = q[2]
    BY <2>1, <2>2
  <2>4. p = q
    BY <2>3, TokensAssumption
  <2> QED  BY <2>1, <2>2, <2>4
<1> QED  BY <1>3, <1>4, <1>5 DEF TokensInv

(* A step of t that leaves the table and the races, and moves t to p. *)
LEMMA TokensOwnStep ==
    ASSUME TokensInv, NEW t \in Txns, NEW p \in Stages, AtWork(t), p # "new",
           stage' = [stage EXCEPT ![t] = p], TokensTypes',
           UNCHANGED <<rows, request, rivals>>,
           \A x \in Txns \ {t} : /\ deleted'[x] = deleted[x] /\ inserted'[x] = inserted[x]
                                 /\ seen'[x] = seen[x] /\ existing'[x] = existing[x],
           MayHold(t, p, deleted'[t], inserted'[t], seen'[t]),
           Registers(t) /\ t \notin rivals => Knows(t, p, deleted'[t], seen'[t], existing'[t])
    PROVE  TokensInv'
<1>1. stage'[t] = p /\ \A x \in Txns \ {t} : stage'[x] = stage[x]
  BY DEF TokensInv, TokensTypes
<1>2. HoldsOwn'
  <2> SUFFICES ASSUME NEW x \in Txns
               PROVE  MayHold(x, stage'[x], deleted'[x], inserted'[x], seen'[x])
    BY DEF HoldsOwn, MayHold, TokenOf, Registers
  <2>1. CASE x = t
    BY <1>1, <2>1
  <2>2. CASE x # t
    BY <1>1, <2>2 DEF TokensInv, HoldsOwn
  <2> QED  BY <2>1, <2>2
<1>3. RivalsFound'
  BY <1>1 DEF TokensInv, RivalsFound, AtWork, TokenOf, Registers
<1>4. LoneKnows'
  <2> SUFFICES ASSUME NEW x \in Txns \ rivals, Registers(x)
               PROVE  Knows(x, stage'[x], deleted'[x], seen'[x], existing'[x])
    BY DEF LoneKnows, Knows, OfUser, OfOthers, TokenOf, Registers
  <2>1. CASE x = t
    BY <1>1, <2>1
  <2>2. CASE x # t
    BY <1>1, <2>2 DEF TokensInv, LoneKnows
  <2> QED  BY <2>1, <2>2
<1>5. OneHolder'
  BY DEF TokensInv, OneHolder, Holders, TokenOf
<1> QED  BY <1>2, <1>3, <1>4, <1>5 DEF TokensInv

LEMMA TokensBeginStep == ASSUME TokensInv, NEW t \in Txns, Begin(t) PROVE TokensInv'
<1>1. /\ stage[t] = "new" /\ stage' = [stage EXCEPT ![t] = "reading"]
      /\ rivals' = rivals \union Rivals(t) \union (IF Rivals(t) = {} THEN {} ELSE {t})
      /\ UNCHANGED <<rows, deleted, inserted, nextId, request, existing, seen, answer>>
  BY DEF Begin, store
<1>2. stage'[t] = "reading" /\ \A x \in Txns \ {t} : stage'[x] = stage[x]
  BY <1>1 DEF TokensInv, TokensTypes
<1>3. rivals \subseteq rivals' /\ \A x \in Txns : TokenOf(x)' = TokenOf(x) /\ Registers(x)' = Registers(x)
  BY <1>1 DEF TokenOf, Registers
<1>4. TokensTypes'
  <2>1. stage' \in [Txns -> Stages]
    BY <1>1 DEF TokensInv, TokensTypes, Stages
  <2>2. rivals' \subseteq Txns
    BY <1>1 DEF TokensInv, TokensTypes, Rivals
  <2> QED  BY <1>1, <2>1, <2>2 DEF TokensInv, TokensTypes
<1>5. HoldsOwn'
  <2> SUFFICES ASSUME NEW x \in Txns
               PROVE  MayHold(x, stage'[x], deleted[x], inserted[x], seen[x])
    BY <1>1 DEF HoldsOwn, MayHold, TokenOf, Registers
  <2>1. MayHold(x, stage[x], deleted[x], inserted[x], seen[x])
    BY DEF TokensInv, HoldsOwn
  <2> QED  BY <1>1, <1>2, <2>1 DEF MayHold
<1>6. RivalsFound'
  <2> SUFFICES ASSUME NEW y \in Txns, NEW x \in Txns, AtWork(y)', AtWork(x)',
                      Registers(y), Registers(x), TokenOf(y) = TokenOf(x), y # x
               PROVE  y \in rivals'
    BY <1>3 DEF RivalsFound
  <2>1. \A z \in Txns \ {t} : AtWork(z)' => z \in Txns /\ stage[z] \notin {"new", "done"}
    BY <1>2 DEF AtWork
  <2>2. CASE y = t
    BY <1>1, <2>1, <2>2 DEF Rivals
  <2>3. CASE x = t
    BY <1>1, <2>1, <2>3 DEF Rivals
  <2>4. CASE y # t /\ x # t
    BY <1>3, <2>1, <2>4 DEF TokensInv, RivalsFound, AtWork
  <2> QED  BY <2>2, <2>3, <2>4
<1>7. LoneKnows'
  <2> SUFFICES ASSUME NEW x \in Txns \ rivals', Registers(x)
               PROVE  Knows(x, stage'[x], deleted[x], seen[x], existing[x])
    BY <1>1, <1>3 DEF LoneKnows, Knows, OfUser, OfOthers, TokenOf
  <2>1. CASE x = t
    BY <1>2, <2>1 DEF Knows
  <2>2. CASE x # t
    BY <1>2, <1>3, <2>2 DEF TokensInv, LoneKnows
  <2> QED  BY <2>1, <2>2
<1>8. OneHolder'
  BY <1>1, <1>3 DEF TokensInv, OneHolder, Holders, TokenOf
<1> QED  BY <1>4, <1>5, <1>6, <1>7, <1>8 DEF TokensInv

LEMMA TokensFailStep ==
    ASSUME TokensInv, NEW t \in Txns, AtWork(t), Fail(t) PROVE TokensInv'
<1>1. /\ stage' = [stage EXCEPT ![t] = "done"] /\ answer' = [answer EXCEPT ![t] = "error"]
      /\ deleted' = [deleted EXCEPT ![t] = {}] /\ inserted' = [inserted EXCEPT ![t] = {}]
      /\ UNCHANGED <<rows, nextId, request, existing, seen, rivals>>
  BY DEF Fail, RollBackRows, End
<1>2. TokensTypes'
  <2>1. /\ stage' \in [Txns -> Stages] /\ answer' \in [Txns -> {"none", "ok", "error"}]
        /\ deleted' \in [Txns -> SUBSET TokenRow] /\ inserted' \in [Txns -> SUBSET TokenRow]
    BY <1>1 DEF TokensInv, TokensTypes, Stages
  <2> QED  BY <1>1, <2>1 DEF TokensInv, TokensTypes
<1>3. /\ deleted'[t] = {} /\ inserted'[t] = {} /\ seen'[t] = seen[t]
      /\ \A x \in Txns \ {t} : /\ deleted'[x] = deleted[x] /\ inserted'[x] = inserted[x]
                               /\ seen'[x] = seen[x] /\ existing'[x] = existing[x]
  BY <1>1 DEF TokensInv, TokensTypes
<1>4. MayHold(t, "done", deleted'[t], inserted'[t], seen'[t])
  BY <1>3, FS_EmptySet DEF TokensInv, HoldsOwn, MayHold
<1>5. Knows(t, "done", deleted'[t], seen'[t], existing'[t])
  BY DEF Knows
<1> QED  BY <1>1, <1>2, <1>3, <1>4, <1>5, TokensOwnStep DEF Stages

(* Several elements are more than one. *)
LEMMA TokenSeveral == ASSUME NEW S, IsFiniteSet(S), NEW a \in S, NEW b \in S, a # b
                      PROVE  Cardinality(S) > 1
<1>1. IsFiniteSet(S \ {a}) /\ Cardinality(S) \in Nat /\ Cardinality(S \ {a}) = Cardinality(S) - 1
  BY FS_RemoveElement, FS_CardinalityType
<1>2. Cardinality(S \ {a}) \in Nat /\ Cardinality(S \ {a}) # 0
  BY <1>1, FS_CardinalityType, FS_EmptySet
<1> QED  BY <1>1, <1>2

LEMMA TokensCheckStep ==
    ASSUME TokensInv, NEW t \in Txns, Check(t)
    PROVE  /\ TokensInv' /\ rows' = rows
           /\ answer'[t] # answer[t] =>
                answer'[t] = "error" /\ Cardinality(OfUser(rows, t)) > 1
<1> DEFINE found == OfUser(Visible(t), t)
<1>1. stage[t] = "reading" /\ AtWork(t) /\ Registers(t)
  BY DEF Check, AtWork
<1>2. deleted[t] = {} /\ inserted[t] = {} /\ seen[t] = {}
  BY <1>1 DEF TokensInv, HoldsOwn, MayHold
<1>3. /\ found = OfUser(rows, t) /\ found \subseteq TokenRow
      /\ \A e \in found : e.user = request[t].user /\ e.token = TokenOf(t)
  BY <1>2 DEF Visible, OfUser, TokensInv, TokensTypes
<1>4. IsFiniteSet(found)
  BY <1>2, FS_Subset DEF Visible, OfUser, TokensInv, TokensTypes
<1> HIDE DEF found
<1>5. CASE Cardinality(found) > 1
  <2>1. Fail(t)
    BY <1>5 DEF Check, found
  <2>2. rows' = rows /\ answer'[t] = "error"
    BY <2>1 DEF Fail, RollBackRows, End, TokensInv, TokensTypes
  <2> QED  BY <1>1, <1>3, <1>5, <2>1, <2>2, TokensFailStep
<1>6. CASE ~(Cardinality(found) > 1)
  <2> DEFINE e == IF found = {} THEN NoRow ELSE CHOOSE r \in found : TRUE
             p == IF found = {} THEN "purging" ELSE "refreshing"
  <2>1. /\ existing' = [existing EXCEPT ![t] = e] /\ stage' = [stage EXCEPT ![t] = p]
        /\ UNCHANGED <<rows, deleted, inserted, nextId, request, seen, answer, rivals>>
    BY <1>6 DEF Check, found, store
  <2>2. /\ e \in TokenRow \union {NoRow} /\ p \in {"purging", "refreshing"}
        /\ p = "refreshing" => e \in found /\ found \subseteq {e}
        /\ p = "purging" => OfUser(rows, t) = {}
    BY <1>3, <1>4, <1>6, TokenSeveral
  <2> HIDE DEF e, p
  <2>3. TokensTypes'
    <3>1. stage' \in [Txns -> Stages] /\ existing' \in [Txns -> TokenRow \union {NoRow}]
      BY <2>1, <2>2 DEF TokensInv, TokensTypes, Stages
    <3> QED  BY <2>1, <3>1 DEF TokensInv, TokensTypes
  <2>4. existing'[t] = e /\ \A x \in Txns \ {t} : existing'[x] = existing[x]
    BY <2>1 DEF TokensInv, TokensTypes
  <2>5. MayHold(t, p, deleted'[t], inserted'[t], seen'[t])
    BY <1>1, <1>2, <2>1, <2>2, FS_EmptySet DEF MayHold
  <2>6. Knows(t, p, deleted'[t], seen'[t], existing'[t])
    BY <1>2, <1>3, <2>1, <2>2, <2>4, TokensAssumption DEF Knows
  <2> QED  BY <1>1, <2>1, <2>2, <2>3, <2>4, <2>5, <2>6, TokensOwnStep DEF Stages
<1> QED  BY <1>5, <1>6

(* A commit of t changes the rows of its token only. *)
LEMMA TokensCommitStep ==
    ASSUME TokensInv, NEW t \in Txns, AtWork(t), CommitRows(t), End(t, "ok"),
           Registers(t) /\ t \notin rivals =>
              rows' = rows \/ \E r : Holders(rows', TokenOf(t)) = {r},
           ~Registers(t) => inserted[t] = {}
    PROVE  TokensInv'
<1>1. /\ rows' = (rows \ deleted[t]) \union inserted[t]
      /\ deleted' = [deleted EXCEPT ![t] = {}] /\ inserted' = [inserted EXCEPT ![t] = {}]
      /\ stage' = [stage EXCEPT ![t] = "done"] /\ answer' = [answer EXCEPT ![t] = "ok"]
      /\ UNCHANGED <<nextId, request, existing, seen, rivals>>
  BY DEF CommitRows, End
<1>2. /\ stage'[t] = "done" /\ deleted'[t] = {} /\ inserted'[t] = {}
      /\ \A x \in Txns \ {t} : /\ stage'[x] = stage[x] /\ deleted'[x] = deleted[x]
                               /\ inserted'[x] = inserted[x]
  BY <1>1 DEF TokensInv, TokensTypes
<1>3. \A r \in deleted[t] \union inserted[t] : r.token = TokenOf(t)
  BY DEF TokensInv, HoldsOwn, MayHold
<1>4. \A tok : tok # TokenOf(t) => Holders(rows', tok) = Holders(rows, tok)
  BY <1>1, <1>3 DEF Holders
<1>5. \A x \in Txns : /\ TokenOf(x)' = TokenOf(x) /\ Registers(x)' = Registers(x)
                      /\ TokenOf(x) \in Tokens
  BY <1>1, TokenRequest DEF TokenOf, Registers, TokensInv
<1>6. TokensTypes'
  <2>1. /\ stage' \in [Txns -> Stages] /\ answer' \in [Txns -> {"none", "ok", "error"}]
        /\ deleted' \in [Txns -> SUBSET TokenRow] /\ inserted' \in [Txns -> SUBSET TokenRow]
    BY <1>1 DEF TokensInv, TokensTypes, Stages
  <2>2. rows' \subseteq TokenRow
    BY <1>1 DEF TokensInv, TokensTypes
  <2>3. IsFiniteSet(rows')
    <3>1. IsFiniteSet(rows \ deleted[t]) /\ IsFiniteSet(inserted[t])
      BY FS_Subset DEF TokensInv, TokensTypes, HoldsOwn, MayHold
    <3> QED  BY <1>1, <3>1, FS_Union
  <2> QED  BY <1>1, <2>1, <2>2, <2>3 DEF TokensInv, TokensTypes
<1>7. HoldsOwn'
  <2> SUFFICES ASSUME NEW x \in Txns
               PROVE  MayHold(x, stage'[x], deleted'[x], inserted'[x], seen'[x])
    BY <1>1 DEF HoldsOwn, MayHold, TokenOf, Registers
  <2>1. MayHold(x, stage[x], deleted[x], inserted[x], seen[x])
    BY DEF TokensInv, HoldsOwn
  <2>2. CASE x = t
    BY <1>1, <1>2, <2>1, <2>2, FS_EmptySet DEF MayHold
  <2>3. CASE x # t
    BY <1>1, <1>2, <2>1, <2>3
  <2> QED  BY <2>2, <2>3
<1>8. RivalsFound'
  <2>1. \A x \in Txns : AtWork(x)' => AtWork(x)
    BY <1>2 DEF AtWork
  <2> QED  BY <1>1, <1>5, <2>1 DEF TokensInv, RivalsFound
<1>9. LoneKnows'
  <2> SUFFICES ASSUME NEW x \in Txns \ rivals, x # t, Registers(x)
               PROVE  Knows(x, stage[x], deleted[x], seen[x], existing[x])'
    BY <1>1, <1>2, <1>5 DEF LoneKnows, Knows
  <2>1. Knows(x, stage[x], deleted[x], seen[x], existing[x])
    BY DEF TokensInv, LoneKnows
  <2>2. CASE AtWork(x)
    <3>1. TokenOf(x) # TokenOf(t) \/ ~Registers(t)
      BY <2>2 DEF TokensInv, RivalsFound
    <3>2. Holders(rows', TokenOf(x)) \subseteq Holders(rows, TokenOf(x))
      BY <1>1, <1>4, <3>1 DEF Holders
    <3>3. /\ OfUser(rows, x)' \subseteq OfUser(rows, x)
          /\ OfOthers(rows, x)' \subseteq OfOthers(rows, x)
      BY <1>1, <3>2 DEF OfUser, OfOthers, Holders, TokenOf
    <3> QED  BY <1>1, <1>2, <1>5, <2>1, <3>3 DEF Knows
  <2>3. CASE ~AtWork(x)
    BY <1>2, <2>3 DEF AtWork, Knows
  <2> QED  BY <2>2, <2>3
<1>10. OneHolder'
  <2> SUFFICES ASSUME NEW tok \in Tokens \ {TokenOf(x) : x \in rivals}, NEW a \in Holders(rows', tok),
                      NEW b \in Holders(rows', tok)
               PROVE  a = b
    <3>1. {TokenOf(x) : x \in rivals}' = {TokenOf(x) : x \in rivals}
      BY <1>1 DEF TokenOf
    <3> QED  BY <3>1 DEF OneHolder
  <2>1. \A c, d \in Holders(rows, tok) : c = d
    BY DEF TokensInv, OneHolder
  <2>2. CASE tok = TokenOf(t) /\ Registers(t)
    <3>1. t \notin rivals
      BY <2>2
    <3> QED  BY <2>1, <2>2, <3>1
  <2>3. CASE tok = TokenOf(t) /\ ~Registers(t)
    BY <1>1, <2>1, <2>3 DEF Holders
  <2>4. CASE tok # TokenOf(t)
    BY <1>4, <2>1, <2>4
  <2> QED  BY <2>2, <2>3, <2>4
<1> QED  BY <1>6, <1>7, <1>8, <1>9, <1>10 DEF TokensInv

LEMMA TokensRefreshStep ==
    ASSUME TokensInv, NEW t \in Txns, Refresh(t)
    PROVE  /\ TokensInv' /\ rows' = rows
           /\ t \notin rivals =>
                /\ existing[t] # NoRow
                /\ \/ answer'[t] = "ok" /\ OfUser(rows, t) = {existing[t]}
                   \/ answer'[t] = "error" /\ OfUser(rows, t) = {}
<1>1. stage[t] = "refreshing" /\ AtWork(t)
  BY DEF Refresh, AtWork
<1>2. deleted[t] = {} /\ inserted[t] = {} /\ Registers(t)
  BY <1>1 DEF TokensInv, HoldsOwn, MayHold
<1>3. t \notin rivals => /\ existing[t] # NoRow
                         /\ existing[t].user = request[t].user /\ existing[t].token = TokenOf(t)
                         /\ OfUser(rows, t) \subseteq {existing[t]}
  BY <1>1, <1>2 DEF TokensInv, LoneKnows, Knows
<1>4. CASE existing[t] \in rows
  <2>1. CommitRows(t) /\ End(t, "ok")
    BY <1>4 DEF Refresh
  <2>2. rows' = rows /\ answer'[t] = "ok"
    BY <1>2, <2>1 DEF CommitRows, End, TokensInv, TokensTypes
  <2>3. t \notin rivals => OfUser(rows, t) = {existing[t]}
    BY <1>3, <1>4 DEF OfUser
  <2> QED  BY <1>1, <1>2, <1>3, <2>1, <2>2, <2>3, TokensCommitStep
<1>5. CASE existing[t] \notin rows
  <2>1. Fail(t)
    BY <1>5 DEF Refresh
  <2>2. rows' = rows /\ answer'[t] = "error"
    BY <2>1 DEF Fail, RollBackRows, End, TokensInv, TokensTypes
  <2>3. t \notin rivals => OfUser(rows, t) = {}
    BY <1>3, <1>5 DEF OfUser
  <2> QED  BY <1>1, <1>3, <2>1, <2>2, <2>3, TokensFailStep
<1> QED  BY <1>4, <1>5

LEMMA TokensEndStep ==
    ASSUME TokensInv, NEW t \in Txns, Commit(t)
    PROVE  /\ TokensInv' /\ answer'[t] = "ok"
           /\ Registers(t) /\ t \notin rivals =>
                /\ OfUser(rows, t) = {}
                /\ \E r : r.user = request[t].user /\ Holders(rows', TokenOf(t)) = {r}
<1>1. stage[t] = "ending" /\ AtWork(t) /\ CommitRows(t) /\ End(t, "ok")
  BY DEF Commit, AtWork
<1>2. rows' = (rows \ deleted[t]) \union inserted[t] /\ answer'[t] = "ok"
  BY <1>1 DEF CommitRows, End, TokensInv, TokensTypes
<1>3. ASSUME Registers(t), t \notin rivals
      PROVE  /\ OfUser(rows, t) = {}
             /\ \E r : r.user = request[t].user /\ Holders(rows', TokenOf(t)) = {r}
  <2>1. PICK r \in inserted[t] : inserted[t] = {r} /\ r.user = request[t].user
    BY <1>1, <1>3 DEF TokensInv, HoldsOwn, MayHold
  <2>2. r.token = TokenOf(t)
    BY DEF TokensInv, HoldsOwn, MayHold
  <2>3. OfUser(rows, t) = {} /\ OfOthers(rows, t) \subseteq deleted[t]
    BY <1>1, <1>3 DEF TokensInv, LoneKnows, Knows
  <2>4. \A a \in Holders(rows, TokenOf(t)) : a \in deleted[t]
    BY <2>3 DEF OfUser, OfOthers, Holders
  <2>5. Holders(rows', TokenOf(t)) = {r}
    BY <1>2, <2>1, <2>2, <2>4 DEF Holders
  <2> QED  BY <2>1, <2>3, <2>5
<1>4. ~Registers(t) => inserted[t] = {}
  BY <1>1 DEF TokensInv, HoldsOwn, MayHold
<1> QED  BY <1>1, <1>2, <1>3, <1>4, TokensCommitStep

LEMMA TokensSnapshotStep ==
    ASSUME TokensInv, NEW t \in Txns, Snapshot(t) PROVE TokensInv' /\ answer' = answer
<1> DEFINE S == OfOthers(rows, t)
<1>1. stage[t] = "purging" /\ AtWork(t) /\ answer' = answer /\ seen[t] = {}
  BY DEF Snapshot, AtWork
<1>2. deleted[t] = {} /\ inserted[t] = {}
  BY <1>1 DEF TokensInv, HoldsOwn, MayHold
<1>3. S = OfOthers(Visible(t), t) /\ S \subseteq TokenRow /\ \A r \in S : r.token = TokenOf(t)
  BY <1>2 DEF Visible, OfOthers, TokensInv, TokensTypes
<1> HIDE DEF S
<1>4. /\ seen' = [seen EXCEPT ![t] = S]
      /\ UNCHANGED <<rows, deleted, inserted, nextId, stage, request, existing, answer, rivals>>
  BY <1>3 DEF Snapshot, store
<1>5. TokensTypes'
  <2>1. seen' \in [Txns -> SUBSET TokenRow]
    BY <1>3, <1>4 DEF TokensInv, TokensTypes
  <2> QED  BY <1>4, <2>1 DEF TokensInv, TokensTypes
<1>6. seen'[t] = S /\ \A x \in Txns \ {t} : seen'[x] = seen[x]
  BY <1>4 DEF TokensInv, TokensTypes
<1>7. stage' = [stage EXCEPT ![t] = "purging"]
  BY <1>1, <1>4 DEF TokensInv, TokensTypes
<1>8. MayHold(t, "purging", deleted'[t], inserted'[t], seen'[t])
  BY FS_EmptySet, <1>2, <1>3, <1>4, <1>6 DEF MayHold
<1>9. Registers(t) /\ t \notin rivals =>
        Knows(t, "purging", deleted'[t], seen'[t], existing'[t])
  <2>1. Registers(t) /\ t \notin rivals => OfUser(rows, t) = {}
    BY <1>1 DEF TokensInv, LoneKnows, Knows
  <2> QED  BY <1>6, <2>1 DEF Knows, S
<1> QED  BY <1>1, <1>4, <1>5, <1>6, <1>7, <1>8, <1>9, TokensOwnStep DEF Stages

LEMMA TokensPurgeStep ==
    ASSUME TokensInv, NEW t \in Txns, Purge(t) PROVE TokensInv' /\ answer' = answer
<1> DEFINE next == IF Registers(t) THEN "inserting" ELSE "ending"
<1>1. stage[t] = "purging" /\ AtWork(t) /\ answer' = answer
  BY DEF Purge, AtWork
<1>2. deleted[t] = {} /\ inserted[t] = {}
  BY <1>1 DEF TokensInv, HoldsOwn, MayHold
<1>3. /\ seen[t] = {} => OfOthers(Visible(t), t) = {}
      /\ deleted' = [deleted EXCEPT ![t] = @ \union (seen[t] \intersect rows)]
      /\ stage' = [stage EXCEPT ![t] = next]
      /\ UNCHANGED <<rows, inserted, nextId, request, existing, seen, answer, rivals>>
  BY DEF Purge, DeleteRows, Registers
<1>4. /\ next \in {"inserting", "ending"} /\ (next = "inserting" => Registers(t))
      /\ next = "ending" => ~Registers(t)
  OBVIOUS
<1> HIDE DEF next
<1>5. TokensTypes'
  <2>1. stage' \in [Txns -> Stages] /\ deleted' \in [Txns -> SUBSET TokenRow]
    BY <1>3, <1>4 DEF TokensInv, TokensTypes, Stages
  <2> QED  BY <1>3, <2>1 DEF TokensInv, TokensTypes
<1>6. deleted'[t] = seen[t] \intersect rows /\ \A x \in Txns \ {t} : deleted'[x] = deleted[x]
  BY <1>2, <1>3 DEF TokensInv, TokensTypes
<1>7. MayHold(t, next, deleted'[t], inserted'[t], seen'[t])
  <2>1. \A r \in seen[t] : r.token = TokenOf(t)
    BY DEF TokensInv, HoldsOwn, MayHold
  <2> QED  BY <1>2, <1>3, <1>4, <1>6, <2>1, FS_EmptySet DEF MayHold
<1>8. Registers(t) /\ t \notin rivals => Knows(t, next, deleted'[t], seen'[t], existing'[t])
  <2> SUFFICES ASSUME Registers(t), t \notin rivals
               PROVE  Knows(t, next, deleted'[t], seen'[t], existing'[t])
    OBVIOUS
  <2>1. /\ OfUser(rows, t) = {}
        /\ seen[t] # {} => OfOthers(rows, t) \subseteq seen[t]
    BY <1>1 DEF TokensInv, LoneKnows, Knows
  <2>2. OfOthers(rows, t) \subseteq deleted'[t]
    <3>1. CASE seen[t] = {}
      BY <1>2, <1>3, <3>1 DEF Visible, OfOthers
    <3>2. CASE seen[t] # {}
      BY <1>6, <2>1, <3>2 DEF OfOthers
    <3> QED  BY <3>1, <3>2
  <2> QED  BY <1>4, <2>1, <2>2 DEF Knows
<1>9. next \in Stages /\ next # "new"
  BY <1>4 DEF Stages
<1>10. /\ UNCHANGED <<rows, request, rivals>>
       /\ \A x \in Txns \ {t} : /\ deleted'[x] = deleted[x] /\ inserted'[x] = inserted[x]
                                /\ seen'[x] = seen[x] /\ existing'[x] = existing[x]
  BY <1>3, <1>6
<1> QED  BY <1>1, <1>3, <1>5, <1>7, <1>8, <1>9, <1>10, TokensOwnStep

LEMMA TokensInsertStep ==
    ASSUME TokensInv, NEW t \in Txns, Insert(t) PROVE TokensInv' /\ answer' = answer
<1> DEFINE new == [id |-> nextId, user |-> request[t].user, token |-> TokenOf(t)]
<1>1. /\ stage[t] = "inserting" /\ AtWork(t) /\ answer' = answer
      /\ Registers(t) /\ inserted[t] = {}
  BY DEF Insert, AtWork, TokensInv, HoldsOwn, MayHold
<1>2. new \in TokenRow /\ new.user = request[t].user /\ new.token = TokenOf(t)
  BY TokenRequest DEF TokensInv, TokensTypes, TokenRow
<1>3. /\ inserted' = [inserted EXCEPT ![t] = @ \union {new}] /\ nextId' = nextId + 1
      /\ stage' = [stage EXCEPT ![t] = "ending"]
      /\ UNCHANGED <<rows, deleted, request, existing, seen, answer, rivals>>
  BY DEF Insert, InsertRow
<1> HIDE DEF new
<1>4. TokensTypes'
  <2>1. /\ stage' \in [Txns -> Stages] /\ inserted' \in [Txns -> SUBSET TokenRow]
        /\ nextId' \in Nat
    BY <1>2, <1>3 DEF TokensInv, TokensTypes, Stages
  <2> QED  BY <1>3, <2>1 DEF TokensInv, TokensTypes
<1>5. inserted'[t] = {new} /\ \A x \in Txns \ {t} : inserted'[x] = inserted[x]
  BY <1>1, <1>3 DEF TokensInv, TokensTypes
<1>6. MayHold(t, "ending", deleted'[t], inserted'[t], seen'[t])
  <2>1. \A r \in deleted[t] \union seen[t] : r.token = TokenOf(t)
    BY DEF TokensInv, HoldsOwn, MayHold
  <2> QED  BY <1>1, <1>2, <1>3, <1>5, <2>1, FS_Singleton DEF MayHold
<1>7. Registers(t) /\ t \notin rivals =>
        Knows(t, "ending", deleted'[t], seen'[t], existing'[t])
  BY <1>1, <1>3 DEF TokensInv, LoneKnows, Knows
<1> QED  BY <1>1, <1>3, <1>4, <1>5, <1>6, <1>7, TokensOwnStep DEF Stages

LEMMA TokensFindStep ==
    ASSUME TokensInv, NEW t \in Txns, Find(t) PROVE TokensInv' /\ ~Registers(t)
<1>1. stage[t] = "reading" /\ AtWork(t) /\ ~Registers(t)
  BY DEF Find, AtWork, Registers
<1>2. deleted[t] = {} /\ inserted[t] = {} /\ seen[t] = {}
  BY <1>1 DEF TokensInv, HoldsOwn, MayHold
<1>3. CASE Fail(t)
  BY <1>1, <1>3, TokensFailStep
<1>4. ASSUME NEW r \in OfUser(Visible(t), t),
             existing' = [existing EXCEPT ![t] = r], seen' = [seen EXCEPT ![t] = {r}],
             stage' = [stage EXCEPT ![t] = "purging"],
             UNCHANGED <<store, request, answer, rivals>>
      PROVE  TokensInv'
  <2>1. UNCHANGED <<rows, deleted, inserted, nextId>>
    BY <1>4 DEF store
  <2>2. r \in TokenRow /\ r.token = TokenOf(t)
    BY <1>2 DEF OfUser, Visible, TokensInv, TokensTypes
  <2>3. TokensTypes'
    <3>1. /\ stage' \in [Txns -> Stages] /\ existing' \in [Txns -> TokenRow \union {NoRow}]
          /\ seen' \in [Txns -> SUBSET TokenRow]
      BY <1>4, <2>2 DEF TokensInv, TokensTypes, Stages
    <3> QED  BY <1>4, <2>1, <3>1 DEF TokensInv, TokensTypes
  <2>4. seen'[t] = {r} /\ \A x \in Txns \ {t} : seen'[x] = seen[x] /\ existing'[x] = existing[x]
    BY <1>4 DEF TokensInv, TokensTypes
  <2>5. MayHold(t, "purging", deleted'[t], inserted'[t], seen'[t])
    BY <1>2, <2>1, <2>2, <2>4, FS_EmptySet DEF MayHold
  <2> QED  BY <1>1, <1>4, <2>1, <2>3, <2>4, <2>5, TokensOwnStep DEF Stages
<1> QED  BY <1>1, <1>3, <1>4 DEF Find

LEMMA TokensInvNext == TokensInv /\ [TokensNext]_tokensVars => TokensInv'
<1> SUFFICES ASSUME TokensInv, [TokensNext]_tokensVars PROVE TokensInv'
  OBVIOUS
<1>1. CASE UNCHANGED tokensVars
  <2>1. UNCHANGED <<rows, deleted, inserted, nextId, stage, request, existing, seen, answer, rivals>>
    BY <1>1 DEF tokensVars, store
  <2>2. TokensTypes' /\ HoldsOwn' /\ RivalsFound'
    BY <2>1 DEF TokensInv, TokensTypes, HoldsOwn, MayHold, RivalsFound, AtWork, TokenOf, Registers
  <2>3. LoneKnows' /\ OneHolder'
    BY <2>1 DEF TokensInv, LoneKnows, Knows, OfUser, OfOthers, TokenOf, Registers, OneHolder, Holders
  <2> QED  BY <2>2, <2>3 DEF TokensInv
<1>2. CASE TokensNext
  BY <1>2, TokensBeginStep, TokensCheckStep, TokensRefreshStep, TokensSnapshotStep, TokensPurgeStep,
     TokensInsertStep, TokensFindStep, TokensEndStep DEF TokensNext
<1> QED  BY <1>1, <1>2

THEOREM TokensInvariance == TokensSpec => []TokensInv
  BY TokensInvInit, TokensInvNext, PTL DEF TokensSpec

(* Token rows, requests and what they hold are of the types the code gives *)
(* them.                                                                   *)
THEOREM TokensTypeCorrect == TokensSpec => []TokensTypeOK
<1>1. TokensInv => TokensTypeOK
  BY DEF TokensInv, TokensTypes, TokensTypeOK
<1> QED  BY <1>1, TokensInvariance, PTL

(* Without a unique constraint, a device's token keeps one row unless two  *)
(* registrations of it overlapped, and whatever deletions do.              *)
THEOREM OneHolderHolds == TokensSpec => []OneHolderUnlessRaced
<1>1. ASSUME TokensInv, NEW tok \in Tokens \ {TokenOf(t) : t \in rivals}
      PROVE  Cardinality(Holders(rows, tok)) <= 1
  <2>1. \A a, b \in Holders(rows, tok) : a = b
    BY <1>1 DEF TokensInv, OneHolder
  <2> QED  BY <2>1, TokenAtMostOne
<1>2. TokensInv => OneHolderUnlessRaced
  BY <1>1 DEF OneHolderUnlessRaced
<1> QED  BY <1>2, TokensInvariance, PTL

(* What a registration without rivals does when it ends, by the rows its   *)
(* user has at that moment.                                                *)
EndsAtOnce(t) ==
    \/ /\ Cardinality(OfUser(rows, t)) = 1 /\ rows' = rows
       /\ answer'[t] = "ok"
    \/ /\ Cardinality(OfUser(rows, t)) > 1 /\ rows' = rows
       /\ answer'[t] = "error"
    \/ /\ OfUser(rows, t) = {} /\ answer'[t] = "ok"
       /\ Cardinality(Holders(rows', TokenOf(t))) = 1
       /\ \A r \in Holders(rows', TokenOf(t)) : r.user = request[t].user
    \/ /\ OfUser(rows, t) = {} /\ existing[t] # NoRow /\ rows' = rows
       /\ answer'[t] = "error"

(* A registration that no other of its token overlaps acts as if at one    *)
(* instant on the rows it finds at its end, whatever races came before it  *)
(* and whatever deletions run beside it.                                   *)
THEOREM LoneRegistration == TokensSpec => LoneRegistrationHolds
<1>1. ASSUME TokensInv, NEW t \in Txns, NEW x \in Txns \ rivals,
             \/ Begin(t) \/ Check(t) \/ Refresh(t) \/ Snapshot(t)
             \/ Purge(t) \/ Insert(t) \/ Find(t) \/ Commit(t),
             Registers(x), answer'[x] # answer[x]
      PROVE  EndsAtOnce(x)
  <2>1. x = t
    BY <1>1 DEF TokensInv, TokensTypes, Begin, Check, Refresh, Snapshot, Purge, Insert, Find,
                Commit, End, Fail
  <2>2. ~Begin(t) /\ ~Snapshot(t) /\ ~Purge(t) /\ ~Insert(t) /\ ~Find(t)
    BY <1>1, <2>1, TokensSnapshotStep, TokensPurgeStep, TokensInsertStep, TokensFindStep DEF Begin
  <2>3. CASE Check(t)
    BY <1>1, <2>1, <2>3, TokensCheckStep DEF EndsAtOnce
  <2>4. CASE Refresh(t)
    <3>1. Cardinality({existing[t]}) = 1
      BY FS_Singleton
    <3> QED  BY <1>1, <2>1, <2>4, <3>1, TokensRefreshStep DEF EndsAtOnce
  <2>5. CASE Commit(t)
    <3>1. answer'[t] = "ok" /\ OfUser(rows, t) = {}
      BY <1>1, <2>1, <2>5, TokensEndStep
    <3>2. PICK r : r.user = request[t].user /\ Holders(rows', TokenOf(t)) = {r}
      BY <1>1, <2>1, <2>5, TokensEndStep
    <3>3. Cardinality({r}) = 1
      BY FS_Singleton
    <3> QED  BY <2>1, <3>1, <3>2, <3>3 DEF EndsAtOnce
  <2> QED  BY <1>1, <2>2, <2>3, <2>4, <2>5
<1>2. TokensInv /\ [TokensNext]_tokensVars =>
        [\A t \in Txns \ rivals : Registers(t) /\ answer'[t] # answer[t] => EndsAtOnce(t)]_tokensVars
  BY <1>1 DEF TokensNext
<1> QED  BY <1>2, TokensInvariance, PTL DEF TokensSpec, LoneRegistrationHolds, EndsAtOnce

===============================================================================
