------------------------------- MODULE JwksCache -------------------------------
(***************************************************************************)
(* The cache of Microsoft's signing keys (MicrosoftOAuthClient._get_jwks   *)
(* of app/services/microsoft_oauth.py), shared by the logins of one        *)
(* process: coroutines that give way to each other while a request is out. *)
(* A key set is known by the tick at which Microsoft served it.            *)
(*                                                                         *)
(* These are the steps that SignIn is made of.                             *)
(***************************************************************************)
EXTENDS Naturals

CONSTANTS
    Logins,    \* coroutines, each of which needs the keys again and again
    Ttl,       \* ms_jwks_cache_seconds, in ticks
    NoKeys,    \* an empty cache
    MaxTime    \* bound: the last tick

ASSUME JwksAssumption == Ttl \in Nat /\ MaxTime \in Nat /\ NoKeys \notin Nat

VARIABLES
    now,
    cache,      \* _jwks_cache
    expiresAt,  \* _jwks_expires_at
    pc,         \* pc[c]: "idle", "fetching" or "storing"
    called,     \* called[c]: when c called _get_jwks
    answer      \* answer[c]: the keys in Microsoft's answer

jwks == <<now, cache, expiresAt, pc, called, answer>>

Keys == 0..MaxTime \union {NoKeys}

JwksTypeOK == /\ now \in 0..MaxTime /\ cache \in Keys /\ expiresAt \in 0..(MaxTime + Ttl)
              /\ pc \in [Logins -> {"idle", "fetching", "storing"}]
              /\ called \in [Logins -> 0..MaxTime] /\ answer \in [Logins -> Keys]

JwksInit == /\ now = 0 /\ cache = NoKeys /\ expiresAt = 0
            /\ pc = [c \in Logins |-> "idle"]
            /\ called = [c \in Logins |-> 0]
            /\ answer = [c \in Logins |-> NoKeys]

Fresh == cache # NoKeys /\ now < expiresAt

Hit(c) == pc[c] = "idle" /\ Fresh /\ UNCHANGED jwks

Miss(c) == /\ pc[c] = "idle" /\ ~Fresh
           /\ pc' = [pc EXCEPT ![c] = "fetching"]
           /\ called' = [called EXCEPT ![c] = now]
           /\ UNCHANGED <<now, cache, expiresAt, answer>>

(* Microsoft answers; the coroutine goes on when the loop comes to it. *)
Answer(c) == /\ pc[c] = "fetching"
             /\ pc' = [pc EXCEPT ![c] = "storing"]
             /\ answer' = [answer EXCEPT ![c] = now]
             /\ UNCHANGED <<now, cache, expiresAt, called>>

(* A timeout, an error status, an answer without keys. *)
FetchFails(c) == /\ pc[c] = "fetching"
                 /\ pc' = [pc EXCEPT ![c] = "idle"]
                 /\ UNCHANGED <<now, cache, expiresAt, called, answer>>

(* Variant: the time to live is counted from the end of the request. *)
ExpiryFromStore(c) == now + Ttl

(* The keys live for Ttl from the call, not from the answer. *)
Expiry(c) == called[c] + Ttl

Store(c) == /\ pc[c] = "storing"
            /\ cache' = answer[c] /\ expiresAt' = Expiry(c)
            /\ answer' = [answer EXCEPT ![c] = NoKeys]
            /\ pc' = [pc EXCEPT ![c] = "idle"]
            /\ UNCHANGED <<now, called>>

Tick == /\ now < MaxTime /\ now' = now + 1
        /\ UNCHANGED <<cache, expiresAt, pc, called, answer>>

-----------------------------------------------------------------------------
(* Keys that come from the cache were Microsoft's within the last Ttl,     *)
(* however slow the request was that brought them and whatever other       *)
(* requests stored in the meantime.                                        *)
CachedKeysAreRecent == Fresh => now - cache < Ttl

=============================================================================
