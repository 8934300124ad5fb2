------------------------------ MODULE Delivery ------------------------------
(***************************************************************************)
(* What the notification outbox promises about one notification, with no   *)
(* senders, locks, batches, tokens or time: the delivery status and the    *)
(* number of recorded attempts.  README.md states it as                    *)
(* queued -> sent / failed / permanent_failure / skipped, with failed      *)
(* deliveries retried while attempts are left.                             *)
(***************************************************************************)
EXTENDS Naturals

CONSTANTS
    Notes,    \* notification_outbox ids
    Budgets   \* the values of max_attempts the senders run with

VARIABLES
    status,   \* status[n]: delivery status, "absent" before the row exists
    tries     \* tries[n]: recorded delivery attempts

avars == <<status, tries>>

(* The statuses a delivery attempt can leave behind. *)
Outcomes == {"sent", "failed", "permanent_failure", "skipped"}

(* Nothing is ever sent again for a notification in one of these. *)
FinalStatuses == {"sent", "permanent_failure", "skipped", "other"}

(* "other": a string the API lets an admin create a row with. *)
Statuses == {"absent", "queued", "other"} \union Outcomes

AInit == /\ status = [n \in Notes |-> "absent"]
         /\ tries = [n \in Notes |-> 0]

(* Some rows are created, each in the status its creator asks for. *)
Create == \E N \in SUBSET Notes, st \in Statuses \ {"absent"} :
            /\ \A n \in N : status[n] = "absent"
            /\ status' = [n \in Notes |-> IF n \in N THEN st ELSE status[n]]
            /\ UNCHANGED tries

(* An attempt at n by a sender whose budget is b may record outcome o. *)
MayRecord(n, b, o) ==
    /\ o \in Outcomes
    /\ \/ status[n] = "queued"
       \/ status[n] = "failed" /\ tries[n] < b
    /\ o = "failed" => tries[n] + 1 < b
    /\ o = "permanent_failure" => tries[n] + 1 >= b

(* One batch of attempts is recorded at once. *)
Record == \E B \in SUBSET Notes, b \in Budgets, out \in [Notes -> Outcomes] :
            /\ \A n \in B : MayRecord(n, b, out[n])
            /\ status' = [n \in Notes |-> IF n \in B THEN out[n] ELSE status[n]]
            /\ tries' = [n \in Notes |-> IF n \in B THEN tries[n] + 1 ELSE tries[n]]

ANext == Create \/ Record

ASpec == AInit /\ [][ANext]_avars

=============================================================================
