--------------------------- MODULE MCOutboxPushes ---------------------------
(* The API's own sender and a cron job: each retries within its own budget *)
(* and backoff, and takes batches of its own size.                         *)
EXTENDS OutboxPushes, TLC

CONSTANTS n1, n2, u1, u2, d1, d2, api, cron

TwoOwners == n1 :> u1 @@ n2 :> u2
SmallBudgets == api :> 2 @@ cron :> 1
BothRetry == api :> TRUE @@ cron :> TRUE
BatchSizes == api :> 2 @@ cron :> 1
Backoffs == api :> 1 @@ cron :> 2

(* Nothing tells the devices apart, nor the users, each with a notification. *)
Swapped == n1 :> n2 @@ n2 :> n1 @@ u1 :> u2 @@ u2 :> u1
Interchangeable == Permutations({d1, d2}) \union {Swapped}
                     \union {p @@ Swapped : p \in Permutations({d1, d2})}

=============================================================================
