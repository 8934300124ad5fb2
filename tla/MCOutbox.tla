------------------------------ MODULE MCOutbox ------------------------------
(* The API's own sender alone, over the notifications of one or two users. *)
EXTENDS Outbox, TLC

CONSTANTS n1, n2, u1, u2, api

OneOwner == n1 :> u1 @@ n2 :> u1
TwoOwners == n1 :> u1 @@ n2 :> u2
Retrying == api :> TRUE
TwoAttempts == api :> 2
OneByOne == api :> 1
Pairs == api :> 2
BackoffOne == api :> 1
BackoffTwo == api :> 2

=============================================================================
