--------------------------- MODULE NotificationRow ---------------------------
(***************************************************************************)
(* One notification_outbox row under concurrent writers: PATCH requests    *)
(* that set the read columns (update_notification) and senders that write  *)
(* the delivery columns (process_outbox).                                  *)
(*                                                                         *)
(* Every writer works on the copy its session loaded.  SQLAlchemy's UPDATE *)
(* sets only the columns whose value differs from that copy, so writers of *)
(* different columns do not disturb each other, and writers of the same    *)
(* columns may write half of what they mean.  Times are ordinals.          *)
(***************************************************************************)
EXTENDS Naturals, FiniteSets

CONSTANTS
    Patches,      \* PATCH /notifications/{id} requests
    Senders,      \* process_outbox runs
    MaxAttempts,  \* their max_attempts
    ReadStatuses, \* read_status values that are asked for: any strings
    InitialDelivery   \* delivery_status values the row is created with: any

ASSUME RowAssumption == /\ MaxAttempts \in Nat \ {0}
                        /\ {"read", "unread"} \subseteq ReadStatuses /\ "none" \notin ReadStatuses
                        /\ Patches \intersect Senders = {} /\ IsFiniteSet(Patches)

VARIABLES
    row,         \* the committed row
    held,        \* set holding the sender that locked the row, if any
    pc,          \* pc[p]: "new", "loaded", "done"
    copy,        \* copy[p]: the row as p's session loaded it
    target,      \* target[p]: the read status p asks for, "none" if none
    now,         \* ordinal of the next read_at
    clashed      \* history: PATCH requests that ran while one for another status did

vars == <<row, held, pc, copy, target, now, clashed>>

Writers == Patches \union Senders
Outcomes == {"sent", "failed", "permanent_failure", "skipped"}
Null == 0
MaxNow == Cardinality(Patches) + 1

Row == [deliveryStatus : InitialDelivery \union Outcomes, attempts : 0..MaxAttempts,
        readStatus : ReadStatuses, readAt : 0..MaxNow]

TypeOK == /\ row \in Row
          /\ held \subseteq Senders
          /\ pc \in [Writers -> {"new", "loaded", "done"}]
          /\ copy \in [Writers -> Row]
          /\ target \in [Patches -> ReadStatuses \union {"none"}]
          /\ now \in 1..(MaxNow + 1)
          /\ clashed \subseteq Patches

(* enqueue_notifications stamps read_at when the row is created "read". *)
Init ==
    /\ \E d \in InitialDelivery, st \in ReadStatuses :
         row = [deliveryStatus |-> d, attempts |-> 0, readStatus |-> st,
                readAt |-> IF st = "read" THEN 1 ELSE Null]
    /\ held = {}
    /\ pc = [w \in Writers |-> "new"]
    /\ copy = [w \in Writers |-> row]
    /\ target = [p \in Patches |-> "none"]
    /\ now = 2
    /\ clashed = {}

(* Variant: an UPDATE of every column. *)
WholeRow(w, new) == new

(* The UPDATE of w: columns that differ from its copy, on the row as it    *)
(* now is.                                                                 *)
Written(w, new) == [c \in DOMAIN row |-> IF new[c] # copy[w][c] THEN new[c] ELSE row[c]]

(* The requests under way that mean to write another status than st. *)
Against(st) == {q \in Patches : pc[q] = "loaded" /\ {st, target[q]} \intersect {"none"} = {}
                                  /\ target[q] # st}

(* get_notification, in the route and again from the session's identity    *)
(* map: the one read the request makes.                                    *)
Load(p) ==
    /\ pc[p] = "new"
    /\ pc' = [pc EXCEPT ![p] = "loaded"]
    /\ copy' = [copy EXCEPT ![p] = row]
    /\ \E st \in ReadStatuses \union {"none"} :
         /\ target' = [target EXCEPT ![p] = st]
         /\ clashed' = clashed \union Against(st) \union (IF Against(st) = {} THEN {} ELSE {p})
    /\ UNCHANGED <<row, held, now>>

(* Variants: a request without a read status writes it all the same;       *)
(* read_at not cleared.                                                    *)
PatchedUnguarded(p) ==
    [copy[p] EXCEPT !.readStatus = target[p],
                    !.readAt = IF target[p] = "read" THEN now ELSE Null]

PatchedKeepingReadAt(p) ==
    IF target[p] = "none" THEN copy[p]
    ELSE [copy[p] EXCEPT !.readStatus = target[p],
                         !.readAt = IF target[p] = "read" THEN now ELSE @]

(* What the request leaves in its session. *)
Patched(p) ==
    IF target[p] = "none" THEN copy[p]
    ELSE [copy[p] EXCEPT !.readStatus = target[p],
                         !.readAt = IF target[p] = "read" THEN now ELSE Null]

(* The commit; an UPDATE waits for a sender's row lock, a commit with      *)
(* nothing to write does not.                                              *)
Update(p) ==
    /\ pc[p] = "loaded"
    /\ Patched(p) # copy[p] => held = {}
    /\ row' = Written(p, Patched(p))
    /\ now' = now + 1
    /\ pc' = [pc EXCEPT ![p] = "done"]
    /\ UNCHANGED <<held, copy, target, clashed>>

Lock(s) ==
    /\ pc[s] = "new" /\ held = {}
    /\ row.deliveryStatus = "queued"
         \/ (row.deliveryStatus = "failed" /\ row.attempts < MaxAttempts)
    /\ pc' = [pc EXCEPT ![s] = "loaded"]
    /\ copy' = [copy EXCEPT ![s] = row]
    /\ held' = {s}
    /\ UNCHANGED <<row, target, now, clashed>>

(* The batch commits with the outcome of the pushes, or rolls back. *)
Deliver(s) ==
    /\ pc[s] = "loaded"
    /\ \E o \in Outcomes :
         /\ o = "failed" => copy[s].attempts + 1 < MaxAttempts
         /\ o = "permanent_failure" => copy[s].attempts + 1 >= MaxAttempts
         /\ row' = Written(s, [copy[s] EXCEPT !.deliveryStatus = o, !.attempts = @ + 1])
    /\ pc' = [pc EXCEPT ![s] = "done"]
    /\ held' = {}
    /\ UNCHANGED <<copy, target, now, clashed>>

RollBack(s) ==
    /\ pc[s] = "loaded"
    /\ pc' = [pc EXCEPT ![s] = "done"]
    /\ held' = {}
    /\ UNCHANGED <<row, copy, target, now, clashed>>

Next == \/ \E p \in Patches : Load(p) \/ Update(p)
        \/ \E s \in Senders : Lock(s) \/ Deliver(s) \/ RollBack(s)

Spec == Init /\ [][Next]_vars

-----------------------------------------------------------------------------
(* A PATCH request never undoes a delivery, nor a delivery a read mark,    *)
(* though each writes from a copy that may be older than the other's       *)
(* commit: the delivery columns change only with the commit of the sender  *)
(* that holds the row, and that commit changes nothing else.               *)
DeliveryAndReadMarksKept ==
    [][/\ row'.deliveryStatus # row.deliveryStatus \/ row'.attempts # row.attempts
            => held # {} /\ held' = {}
       /\ held # {} /\ held' = {}
            => row'.readStatus = row.readStatus /\ row'.readAt = row.readAt]_vars

(* What a PATCH request asks for is what it leaves: its status, and        *)
(* read_at set exactly if that is "read".  It may have found the two       *)
(* columns at odds, as requests for different statuses leave them when     *)
(* they overlap, or be one of several that mark the row alike, like a      *)
(* retry, each writing only what differs from its own copy.  Excepted are  *)
(* the requests that themselves overlapped one for a different status.     *)
PatchTakesEffectUnlessClashed ==
    [][\A p \in Patches \ clashed :
         pc[p] = "loaded" /\ pc'[p] = "done" /\ target[p] # "none" =>
           /\ row'.readStatus = target[p]
           /\ row'.readAt # Null <=> target[p] = "read"]_vars

=============================================================================
