---------------------------- MODULE OutboxPushes ----------------------------
(***************************************************************************)
(* Outbox with a record of what reached FCM.  The database forgets a batch *)
(* that is rolled back; FCM and the devices do not.  rounds, reached and   *)
(* missed are history: they never constrain a step of Outbox.              *)
(***************************************************************************)
EXTENDS Outbox

CONSTANT RoundCap   \* bound: rounds[n] stops counting here
ASSUME PushesAssumption == RoundCap \in Nat \ {0} /\ IsFiniteSet(Senders)

VARIABLES
    rounds,     \* rounds[n]: times a sender started pushing n
    reached,    \* notifications FCM accepted for some device
    missed      \* notifications it refused for some device in their last round

history == <<rounds, reached, missed>>
pvars == <<vars, history>>

PInit == /\ Init
         /\ rounds = [n \in Notes |-> 0]
         /\ reached = {} /\ missed = {}

Reached(n) == reached' = reached \union {n}

LoadRound(s, n) ==
    /\ LoadTokens(s, n)
    /\ rounds' = [rounds EXCEPT ![n] =
         IF TokensOf(n) # {} /\ @ < RoundCap THEN @ + 1 ELSE @]
    /\ missed' = missed \ {n}
    /\ UNCHANGED reached

Accept(s, r) == /\ PushAccepted(s, r)
                /\ Reached(cur[s])
                /\ UNCHANGED <<rounds, missed>>

Refuse(s, r) == /\ PushRefused(s, r)
                /\ missed' = missed \union {cur[s]}
                /\ UNCHANGED <<rounds, reached>>

(* A request that times out may have been delivered all the same; a poison *)
(* payload raises before any request.                                      *)
Raise(s) ==
    /\ PushRaises(s)
    /\ UNCHANGED reached \/ (cur[s] \notin Poison /\ Reached(cur[s]))
    /\ UNCHANGED <<rounds, missed>>

Quiet == /\ \/ Enqueue \/ Tick
            \/ \E n \in Notes : CreateNotification(n)
            \/ \E u \in Users, d \in Devices : RegisterToken(u, d)
            \/ \E r \in tokens : DeleteToken(r)
            \/ \E s \in Senders : Select(s) \/ Settle(s) \/ Commit(s) \/ Crash(s)
         /\ UNCHANGED history

PNext == \/ Quiet
         \/ \E s \in Senders : Raise(s)
         \/ \E s \in Senders, n \in Notes : LoadRound(s, n)
         \/ \E s \in Senders : \E r \in pending[s] : Accept(s, r) \/ Refuse(s, r)

PSpec == PInit /\ [][PNext]_pvars

-----------------------------------------------------------------------------
(* Senders in whose open batch n was pushed, or is being pushed. *)
InFlight(n) == {s \in Senders : cur[s] = n \/ result[s][n] # "none"}

(* Every round of pushes is accounted for: by a recorded attempt, by an    *)
(* open batch, or by one of the faults that rolled a batch back.  Counting *)
(* attempts in the batch transaction loses a round only to a fault.        *)
RoundsAccounted ==
    \A n \in Notes : rounds[n] <= attempts[n] + Cardinality(InFlight(n)) + faults

(* A row that ends "sent" after an attempt was accepted by FCM for some    *)
(* device of its owner and, in its last round, refused for none: whatever  *)
(* the other sender does, and however often batches roll back, a partial   *)
(* failure never counts as delivered.  One never pushed reached nobody.    *)
SentWasReached ==
    \A n \in Notes : /\ deliveryStatus[n] = "sent" /\ attempts[n] > 0 =>
                           n \in reached \ missed
                     /\ rounds[n] = 0 => n \notin reached

=============================================================================
