------------------------------- MODULE Outbox -------------------------------
(***************************************************************************)
(* The notification outbox and the senders that drain it through FCM:      *)
(* process_outbox of app/services/push_service.py, run every minute by the *)
(* API process (app/main.py) and by hand or cron through                   *)
(* app/scripts/send_notifications.py, over the rows that                   *)
(* app/services/notification_service.py creates and the push tokens users  *)
(* register and delete meanwhile.                                          *)
(*                                                                         *)
(* A sender's whole batch is ONE database transaction.  It locks the rows  *)
(* it selects, talks to FCM token by token with the locks held, and writes *)
(* every row's outcome in the final commit; any exception, or the death of *)
(* the process, rolls the batch back as if it had never been picked.       *)
(*                                                                         *)
(* Time is an age: lastAttempt[n] counts ticks since the recorded attempt, *)
(* up to Horizon, beyond which every age satisfies every sender's backoff. *)
(***************************************************************************)
EXTENDS Integers, FiniteSets

CONSTANTS
    Notes,           \* notification_outbox ids
    NoNote,          \* not a notification
    Users, Owner,    \* Owner[n]: the user_id of notification n
    Devices,         \* FCM registration tokens (the token column)
    Senders,         \* processes that call process_outbox
    RetryFailed,     \* RetryFailed[s]: the retry_failed argument of s
    MaxAttempts,     \* MaxAttempts[s]: its max_attempts argument
    Limit,           \* Limit[s]: its limit (batch_size)
    Backoff,         \* Backoff[s]: its retry_backoff_seconds, in ticks
    Poison,          \* notifications whose payload makes _stringify raise
    CreateStatuses,  \* delivery statuses an admin creates rows with
    MaxRows,         \* bound: rows ever inserted into fcm_tokens
    MaxFaults,       \* bound: crashes and transient exceptions
    Horizon          \* bound: ages stop growing here

Outcomes == {"sent", "failed", "permanent_failure", "skipped"}

(* The column takes any string: "other" is one no sender knows. *)
Statuses == {"absent", "queued", "other"} \union Outcomes

ASSUME NotesAssumption == /\ NoNote \notin Notes
                          /\ Owner \in [Notes -> Users]
                          /\ Poison \subseteq Notes
                          /\ CreateStatuses \subseteq Statuses \ {"absent"}
ASSUME SendersAssumption == /\ RetryFailed \in [Senders -> BOOLEAN]
                            /\ MaxAttempts \in [Senders -> Nat \ {0}]
                            /\ Limit \in [Senders -> Nat]
                            /\ Backoff \in [Senders -> Nat]
ASSUME BoundsAssumption == /\ MaxRows \in Nat /\ MaxFaults \in Nat
                           /\ Horizon \in Nat /\ \A s \in Senders : Backoff[s] <= Horizon

VARIABLES
    deliveryStatus,  \* column delivery_status; "absent" before the insert
    attempts,        \* column attempts
    lastAttempt,     \* age of column last_attempt_at; Never for NULL
    createdAt,       \* column created_at, as the ordinal of the insert
    clock,           \* ordinal of the next insert
    tokens,          \* rows of fcm_tokens
    nextRow,         \* next value of the fcm_tokens id sequence
    pc,              \* pc[s]: "idle", "batch" (between records) or "push"
    batch,           \* batch[s]: the rows s has locked
    cur,             \* cur[s]: the record s is sending
    pending,         \* pending[s]: tokens of cur[s] not tried yet
    accepted,        \* accepted[s]: FCM took some message of cur[s]
    refused,         \* refused[s]: FCM refused some message of cur[s]
    result,          \* result[s][n]: uncommitted outcome, "none" before
    invalid,         \* invalid[s]: ids of token rows s deletes on commit
    elapsed,         \* elapsed[s]: ticks since s stamped `now`
    faults           \* crashes and transient exceptions so far

rows == <<deliveryStatus, attempts, lastAttempt>>
inserts == <<createdAt, clock>>
registry == <<tokens, nextRow>>
work == <<cur, pending, accepted, refused>>
trans == <<pc, batch, work, result, invalid, elapsed>>
vars == <<rows, inserts, registry, trans, faults>>

Never == -1
Ages == 0..Horizon

Older(age) == IF age \in 0..(Horizon - 1) THEN age + 1 ELSE age

TokenRow == [id : Nat, user : Users, device : Devices]
NoResult == [n \in Notes |-> "none"]

Present == {n \in Notes : deliveryStatus[n] # "absent"}

TypeOK ==
    /\ deliveryStatus \in [Notes -> Statuses]
    /\ attempts \in [Notes -> Nat]
    /\ lastAttempt \in [Notes -> Ages \union {Never}]
    /\ createdAt \in [Notes -> Nat]
    /\ clock \in Nat
    /\ tokens \subseteq TokenRow
    /\ nextRow \in Nat
    /\ pc \in [Senders -> {"idle", "batch", "push"}]
    /\ batch \in [Senders -> SUBSET Notes]
    /\ cur \in [Senders -> Notes \union {NoNote}]
    /\ \A s \in Senders : pc[s] = "push" <=> cur[s] # NoNote
    /\ pending \in [Senders -> SUBSET TokenRow]
    /\ accepted \in [Senders -> BOOLEAN]
    /\ refused \in [Senders -> BOOLEAN]
    /\ result \in [Senders -> [Notes -> Outcomes \union {"none"}]]
    /\ invalid \in [Senders -> SUBSET Nat]
    /\ elapsed \in [Senders -> Ages]
    /\ faults \in Nat

Init ==
    /\ deliveryStatus = [n \in Notes |-> "absent"]
    /\ attempts = [n \in Notes |-> 0]
    /\ lastAttempt = [n \in Notes |-> Never]
    /\ createdAt = [n \in Notes |-> 0]
    /\ clock = 0
    /\ tokens = {} /\ nextRow = 0
    /\ pc = [s \in Senders |-> "idle"]
    /\ batch = [s \in Senders |-> {}]
    /\ cur = [s \in Senders |-> NoNote]
    /\ pending = [s \in Senders |-> {}]
    /\ accepted = [s \in Senders |-> FALSE]
    /\ refused = [s \in Senders |-> FALSE]
    /\ result = [s \in Senders |-> NoResult]
    /\ invalid = [s \in Senders |-> {}]
    /\ elapsed = [s \in Senders |-> 0]
    /\ faults = 0

-----------------------------------------------------------------------------
(* The API around the senders. *)

Insert(N, st) ==
    /\ deliveryStatus' = [n \in Notes |-> IF n \in N THEN st ELSE deliveryStatus[n]]
    /\ createdAt' = [n \in Notes |-> IF n \in N THEN clock ELSE createdAt[n]]
    /\ clock' = clock + 1
    /\ UNCHANGED <<attempts, lastAttempt, registry, trans, faults>>

(* enqueue_notifications: one row per distinct recipient, all stamped with *)
(* one created_at and committed together.                                  *)
Enqueue == \E N \in SUBSET (Notes \ Present) :
               /\ N # {}
               /\ \A m, n \in N : Owner[m] = Owner[n] => m = n
               /\ Insert(N, "queued")

(* create_notification: an admin may ask for any delivery_status; null and *)
(* the empty string mean "queued".                                         *)
CreateNotification(n) == /\ n \notin Present
                         /\ \E st \in CreateStatuses : Insert({n}, st)

(* register_token with a token the user does not have yet (otherwise only  *)
(* the platform column changes): other users' rows of it are dropped.      *)
RegisterToken(u, d) ==
    /\ nextRow < MaxRows
    /\ \A r \in tokens : ~(r.user = u /\ r.device = d)
    /\ tokens' = {r \in tokens : r.device # d}
                   \union {[id |-> nextRow, user |-> u, device |-> d]}
    /\ nextRow' = nextRow + 1
    /\ UNCHANGED <<rows, inserts, trans, faults>>

DeleteToken(r) == /\ tokens' = tokens \ {r}
                  /\ UNCHANGED <<rows, inserts, nextRow, trans, faults>>

Tick == /\ lastAttempt' = [n \in Notes |-> Older(lastAttempt[n])]
        /\ elapsed' = [s \in Senders |->
                         IF pc[s] = "idle" THEN elapsed[s] ELSE Older(elapsed[s])]
        /\ UNCHANGED <<deliveryStatus, attempts, inserts, registry, pc, batch,
                       work, result, invalid, faults>>

-----------------------------------------------------------------------------
(* One run of process_outbox by sender s. *)

Due(s, n) == lastAttempt[n] = Never \/ lastAttempt[n] >= Backoff[s]

(* Variants of the WHERE clause that a plausible bug would leave: without   *)
(* the IS NULL branch, and without the backoff condition.                  *)
EligibleWithoutNullCheck(s, n) ==
    \/ deliveryStatus[n] = "queued"
    \/ /\ RetryFailed[s] /\ deliveryStatus[n] = "failed"
       /\ attempts[n] < MaxAttempts[s] /\ lastAttempt[n] # Never /\ Due(s, n)

EligibleWithoutBackoff(s, n) ==
    \/ deliveryStatus[n] = "queued"
    \/ /\ RetryFailed[s] /\ deliveryStatus[n] = "failed"
       /\ attempts[n] < MaxAttempts[s]

(* The WHERE clause of the batch query. *)
Eligible(s, n) ==
    \/ deliveryStatus[n] = "queued"
    \/ /\ RetryFailed[s] /\ deliveryStatus[n] = "failed"
       /\ attempts[n] < MaxAttempts[s] /\ Due(s, n)

(* Variant: no row locks. *)
NothingLocked == {}

(* Rows another transaction holds: FOR UPDATE SKIP LOCKED passes them by. *)
Locked == UNION {batch[s] : s \in Senders}

(* ORDER BY created_at LIMIT: the oldest rows, ties broken either way. *)
OldestOf(s, B, N) ==
    /\ B \subseteq N
    /\ IF Cardinality(N) <= Limit[s] THEN B = N ELSE Cardinality(B) = Limit[s]
    /\ \A m \in B, n \in N \ B : createdAt[m] <= createdAt[n]

(* With nothing to select, process_outbox returns and nothing changes. *)
Select(s) ==
    /\ pc[s] = "idle"
    /\ \E B \in SUBSET Notes :
         /\ B # {}
         /\ OldestOf(s, B, {n \in Notes : Eligible(s, n)} \ Locked)
         /\ batch' = [batch EXCEPT ![s] = B]
    /\ pc' = [pc EXCEPT ![s] = "batch"]
    /\ UNCHANGED <<rows, inserts, registry, work, result, invalid, elapsed, faults>>

Todo(s) == {n \in batch[s] : result[s][n] = "none"}
TokensOf(n) == {r \in tokens : r.user = Owner[n]}

(* The loop takes the next record and reads its owner's tokens; without    *)
(* any, the record is skipped.                                             *)
LoadTokens(s, n) ==
    /\ pc[s] = "batch"
    /\ n \in Todo(s) /\ \A m \in Todo(s) : createdAt[n] <= createdAt[m]
    /\ IF TokensOf(n) = {}
       THEN /\ result' = [result EXCEPT ![s][n] = "skipped"]
            /\ UNCHANGED <<pc, work>>
       ELSE /\ pc' = [pc EXCEPT ![s] = "push"]
            /\ cur' = [cur EXCEPT ![s] = n]
            /\ pending' = [pending EXCEPT ![s] = TokensOf(n)]
            /\ UNCHANGED <<accepted, refused, result>>
    /\ UNCHANGED <<rows, inserts, registry, batch, invalid, elapsed, faults>>

Pushing(s, r) == pc[s] = "push" /\ r \in pending[s] /\ cur[s] \notin Poison

PushAccepted(s, r) ==
    /\ Pushing(s, r)
    /\ pending' = [pending EXCEPT ![s] = @ \ {r}]
    /\ accepted' = [accepted EXCEPT ![s] = TRUE]
    /\ UNCHANGED <<rows, inserts, registry, pc, batch, cur, refused, result,
                   invalid, elapsed, faults>>

(* FCM answers with an error; NotRegistered, InvalidRegistration and       *)
(* UNREGISTERED also mark the token row for deletion.                      *)
PushRefused(s, r) ==
    /\ Pushing(s, r)
    /\ pending' = [pending EXCEPT ![s] = @ \ {r}]
    /\ refused' = [refused EXCEPT ![s] = TRUE]
    /\ \E unregistered \in BOOLEAN :
         invalid' = [invalid EXCEPT ![s] = IF unregistered THEN @ \union {r.id} ELSE @]
    /\ UNCHANGED <<rows, inserts, registry, pc, batch, cur, accepted, result,
                   elapsed, faults>>

(* Variants: the budget compared before the attempt is counted;            *)
(* partial failure taken for success; no status assigned after a partial   *)
(* failure, so that the row keeps the one it had.                          *)
VerdictBeforeCounting(s, n) ==
    IF accepted[s] /\ ~refused[s] THEN "sent"
    ELSE IF attempts[n] >= MaxAttempts[s] THEN "permanent_failure" ELSE "failed"

VerdictOnAnySuccess(s, n) ==
    IF accepted[s] THEN "sent"
    ELSE IF attempts[n] + 1 >= MaxAttempts[s] THEN "permanent_failure" ELSE "failed"

VerdictUnassigned(s, n) ==
    IF accepted[s] /\ ~refused[s] THEN "sent"
    ELSE IF accepted[s] THEN deliveryStatus[n]
    ELSE IF attempts[n] + 1 >= MaxAttempts[s] THEN "permanent_failure" ELSE "failed"

(* record.attempts already counts this attempt when it is compared. *)
Verdict(s, n) ==
    IF accepted[s] /\ ~refused[s] THEN "sent"
    ELSE IF attempts[n] + 1 >= MaxAttempts[s] THEN "permanent_failure" ELSE "failed"

(* All tokens of the record tried: its status is decided in memory. *)
Settle(s) ==
    /\ pc[s] = "push" /\ pending[s] = {}
    /\ result' = [result EXCEPT ![s][cur[s]] = Verdict(s, cur[s])]
    /\ pc' = [pc EXCEPT ![s] = "batch"]
    /\ cur' = [cur EXCEPT ![s] = NoNote]
    /\ accepted' = [accepted EXCEPT ![s] = FALSE]
    /\ refused' = [refused EXCEPT ![s] = FALSE]
    /\ UNCHANGED <<rows, inserts, registry, batch, pending, invalid, elapsed, faults>>

(* Variant: the session is not closed and its row locks stay. *)
ReleaseKeepingLocks(s) ==
    /\ pc' = [pc EXCEPT ![s] = "idle"]
    /\ cur' = [cur EXCEPT ![s] = NoNote]
    /\ pending' = [pending EXCEPT ![s] = {}]
    /\ accepted' = [accepted EXCEPT ![s] = FALSE]
    /\ refused' = [refused EXCEPT ![s] = FALSE]
    /\ result' = [result EXCEPT ![s] = NoResult]
    /\ invalid' = [invalid EXCEPT ![s] = {}]
    /\ elapsed' = [elapsed EXCEPT ![s] = 0]
    /\ UNCHANGED batch

(* The end of the transaction either way: locks and session state go. *)
Release(s) ==
    /\ pc' = [pc EXCEPT ![s] = "idle"]
    /\ batch' = [batch EXCEPT ![s] = {}]
    /\ cur' = [cur EXCEPT ![s] = NoNote]
    /\ pending' = [pending EXCEPT ![s] = {}]
    /\ accepted' = [accepted EXCEPT ![s] = FALSE]
    /\ refused' = [refused EXCEPT ![s] = FALSE]
    /\ result' = [result EXCEPT ![s] = NoResult]
    /\ invalid' = [invalid EXCEPT ![s] = {}]
    /\ elapsed' = [elapsed EXCEPT ![s] = 0]

(* Variant: the attempt is not counted. *)
CommitUncounted(s) ==
    /\ pc[s] = "batch" /\ Todo(s) = {}
    /\ deliveryStatus' = [n \in Notes |->
         IF n \in batch[s] THEN result[s][n] ELSE deliveryStatus[n]]
    /\ lastAttempt' = [n \in Notes |->
         IF n \in batch[s] THEN elapsed[s] ELSE lastAttempt[n]]
    /\ tokens' = {r \in tokens : r.id \notin invalid[s]}
    /\ Release(s)
    /\ UNCHANGED <<attempts, inserts, nextRow, faults>>

(* The one commit of the batch: outcomes, attempts, and invalid tokens.    *)
Commit(s) ==
    /\ pc[s] = "batch" /\ Todo(s) = {}
    /\ deliveryStatus' = [n \in Notes |->
         IF n \in batch[s] THEN result[s][n] ELSE deliveryStatus[n]]
    /\ attempts' = [n \in Notes |->
         IF n \in batch[s] THEN attempts[n] + 1 ELSE attempts[n]]
    /\ lastAttempt' = [n \in Notes |->
         IF n \in batch[s] THEN elapsed[s] ELSE lastAttempt[n]]
    /\ tokens' = {r \in tokens : r.id \notin invalid[s]}
    /\ Release(s)
    /\ UNCHANGED <<inserts, nextRow, faults>>

(* A push raises: a poison payload always and before the request, any      *)
(* other on a timeout or a failed OAuth exchange.  The exception leaves    *)
(* process_outbox, closing the session rolls back, the loop goes on.       *)
PushRaises(s) ==
    /\ pc[s] = "push" /\ pending[s] # {}
    /\ IF cur[s] \in Poison THEN UNCHANGED faults
       ELSE faults < MaxFaults /\ faults' = faults + 1
    /\ Release(s)
    /\ UNCHANGED <<rows, inserts, registry>>

(* The process dies, or the database connection does, in mid-transaction. *)
Crash(s) ==
    /\ pc[s] # "idle"
    /\ faults < MaxFaults /\ faults' = faults + 1
    /\ Release(s)
    /\ UNCHANGED <<rows, inserts, registry>>

SenderStep(s) ==
    \/ Select(s) \/ Settle(s) \/ Commit(s) \/ PushRaises(s)
    \/ \E n \in Notes : LoadTokens(s, n)
    \/ \E r \in pending[s] : PushAccepted(s, r) \/ PushRefused(s, r)

Next ==
    \/ Enqueue \/ Tick
    \/ \E n \in Notes : CreateNotification(n)
    \/ \E u \in Users, d \in Devices : RegisterToken(u, d)
    \/ \E r \in tokens : DeleteToken(r)
    \/ \E s \in Senders : SenderStep(s) \/ Crash(s)

Spec == Init /\ [][Next]_vars

(* The loop of main.py swallows exceptions and runs again every minute and *)
(* each request times out after ten seconds, so a sender with work to do   *)
(* keeps going; and time passes.                                           *)
Fairness == WF_vars(Tick) /\ \A s \in Senders : WF_vars(SenderStep(s))
FairSpec == Spec /\ Fairness

-----------------------------------------------------------------------------
(* No notification is in the batch of two senders: without SKIP LOCKED and *)
(* the row locks, the API's loop and a cron run would push it twice.       *)
ExclusiveProcessing ==
    \A s, t \in Senders : s # t => batch[s] \intersect batch[t] = {}

(* The recorded attempts stay within the senders' budgets: a queued row    *)
(* was never attempted, one left "failed" after an attempt is within some  *)
(* sender's reach, and no row counts more attempts than the largest budget. *)
AttemptsWithinBudget ==
    \A n \in Notes :
      /\ deliveryStatus[n] \in {"absent", "queued"} => attempts[n] = 0
      /\ attempts[n] > 0 =>
           \E s \in Senders : IF deliveryStatus[n] = "failed"
                              THEN attempts[n] < MaxAttempts[s]
                              ELSE attempts[n] <= MaxAttempts[s]

HoldsOnlyBatch ==
    \A s \in Senders : /\ pc[s] = "idle" <=> batch[s] = {}
                       /\ \A n \in Notes \ batch[s] : result[s][n] = "none"

StillEligible == \A s \in Senders : \A n \in batch[s] :
    \/ deliveryStatus[n] = "queued"
    \/ /\ RetryFailed[s] /\ deliveryStatus[n] = "failed"
       /\ attempts[n] < MaxAttempts[s] /\ Due(s, n)

DeletesOwnTokens == \A s \in Senders : \A r \in tokens :
    r.id \in invalid[s] => \E n \in batch[s] : r.user = Owner[n]

(* What a batch holds in memory agrees with the rows it locked: outcomes   *)
(* only for its own rows, each of them still in the state it was selected  *)
(* in, and token rows to delete only of users it pushed to.                *)
BatchMatchesRows == HoldsOnlyBatch /\ StillEligible /\ DeletesOwnTokens

(* A recorded attempt is never overwritten by another within the backoff   *)
(* window that follows it: the window of the sender that makes the new     *)
(* attempt, whichever sender made the last one.                            *)
BackoffBetweenRecords ==
    [][\A n \in Notes : attempts'[n] # attempts[n] =>
                          \E s \in Senders : n \in batch[s] /\ Due(s, n)]_vars

(* README.md: the outbox is drained: with senders running, no notification *)
(* with a sendable payload stays queued.                                   *)
DrainsQueued ==
    \A n \in Notes \ Poison : (deliveryStatus[n] = "queued") ~> (deliveryStatus[n] # "queued")

(* Failed deliveries are retried until they end: with a retrying sender    *)
(* running, "failed" is left for good by delivery, by running out of       *)
(* attempts or by losing the last token.                                   *)
RetriesConclude ==
    \A n \in Notes : (deliveryStatus[n] = "failed")
                       ~> (deliveryStatus[n] \in {"sent", "permanent_failure", "skipped"})

D == INSTANCE Delivery WITH status <- deliveryStatus, tries <- attempts,
                            Budgets <- {MaxAttempts[s] : s \in Senders}

(* The outbox is the delivery life cycle of README.md: locks, batches,     *)
(* retries and rollbacks only ever record attempts the life cycle allows.  *)
ImplementsDelivery == D!ASpec

=============================================================================
