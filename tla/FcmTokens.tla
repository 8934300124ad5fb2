------------------------------ MODULE FcmTokens ------------------------------
(***************************************************************************)
(* The push tokens of devices: POST and DELETE /fcm-tokens                 *)
(* (app/services/fcm_token_service.py), each request a READ COMMITTED      *)
(* transaction.  A device's token belongs to the user who registered it    *)
(* last; fcm_tokens has no unique constraint, the service alone keeps a    *)
(* token from being registered twice.                                      *)
(***************************************************************************)
EXTENDS RowStore

CONSTANTS
    Users, Tokens,
    NoRow,      \* no token row
    Initial     \* rows before the requests, as <<user, token>> pairs

VARIABLES
    stage,      \* a member of Stages
    request,    \* request[t]: the kind, user and token asked for
    existing,   \* existing[t]: the row the first query returned
    seen,       \* seen[t]: rows t's DELETE is for
    answer,     \* answer[t]: "none" until t has ended, "ok" or "error"
    rivals      \* history: registrations that overlapped another of their token

tokensVars == <<store, stage, request, existing, seen, answer, rivals>>

Requests == [kind : {"register", "delete"}, user : Users, token : Tokens]
TokenRow == [id : Nat, user : Users, token : Tokens]

(* No two rows hold one token before the requests. *)
ASSUME TokensAssumption == /\ NoRow \notin TokenRow /\ Initial \subseteq Users \X Tokens
                           /\ IsFiniteSet(Initial)
                           /\ \A p, q \in Initial : p[2] = q[2] => p = q

InitialRows == {[id |-> 0, user |-> p[1], token |-> p[2]] : p \in Initial}

Stages == {"new", "reading", "refreshing", "purging", "inserting", "ending", "done"}

TokensTypeOK ==
    /\ rows \subseteq TokenRow
    /\ \A t \in Txns : deleted[t] \union inserted[t] \union seen[t] \subseteq TokenRow
    /\ stage \in [Txns -> Stages]
    /\ existing \in [Txns -> TokenRow \union {NoRow}]
    /\ answer \in [Txns -> {"none", "ok", "error"}]
    /\ rivals \subseteq Txns

TokensInit ==
    /\ StoreInit(InitialRows, 1)
    /\ stage = [t \in Txns |-> "new"]
    /\ request \in [Txns -> Requests]
    /\ existing = [t \in Txns |-> NoRow]
    /\ seen = [t \in Txns |-> {}]
    /\ answer = [t \in Txns |-> "none"]
    /\ rivals = {}

TokenOf(t) == request[t].token
Holders(R, tok) == {r \in R : r.token = tok}
OfUser(R, t) == {r \in R : r.user = request[t].user /\ r.token = TokenOf(t)}
OfOthers(R, t) == {r \in R : r.user # request[t].user /\ r.token = TokenOf(t)}
Registers(t) == request[t].kind = "register"

(* The other registrations of the token that are under way. *)
Rivals(t) == {x \in Txns : /\ stage[x] \notin {"new", "done"} /\ Registers(x)
                           /\ Registers(t) /\ TokenOf(x) = TokenOf(t)}

Begin(t) ==
    /\ stage[t] = "new"
    /\ stage' = [stage EXCEPT ![t] = "reading"]
    /\ rivals' = rivals \union Rivals(t) \union (IF Rivals(t) = {} THEN {} ELSE {t})
    /\ UNCHANGED <<store, request, existing, seen, answer>>

End(t, a) == /\ stage' = [stage EXCEPT ![t] = "done"]
             /\ answer' = [answer EXCEPT ![t] = a]
             /\ UNCHANGED <<request, existing, seen, rivals>>

Fail(t) == RollBackRows(t) /\ End(t, "error")

(* Variant: the first query looks for the token alone. *)
CheckAnyUser(t) ==
    LET found == Holders(Visible(t), TokenOf(t)) IN
    /\ stage[t] = "reading" /\ Registers(t)
    /\ IF Cardinality(found) > 1 THEN Fail(t)
       ELSE /\ existing' = [existing EXCEPT ![t] =
                              IF found = {} THEN NoRow ELSE CHOOSE r \in found : TRUE]
            /\ stage' = [stage EXCEPT ![t] = IF found = {} THEN "purging" ELSE "refreshing"]
            /\ UNCHANGED <<store, request, seen, answer, rivals>>

(* register_token: scalar_one_or_none raises on a second row of the user. *)
Check(t) ==
    LET found == OfUser(Visible(t), t) IN
    /\ stage[t] = "reading" /\ Registers(t)
    /\ IF Cardinality(found) > 1 THEN Fail(t)
       ELSE /\ existing' = [existing EXCEPT ![t] =
                              IF found = {} THEN NoRow ELSE CHOOSE r \in found : TRUE]
            /\ stage' = [stage EXCEPT ![t] = IF found = {} THEN "purging" ELSE "refreshing"]
            /\ UNCHANGED <<store, request, seen, answer, rivals>>

(* The user has the token: its platform is updated and the row read back;  *)
(* a row gone by then raises StaleDataError or InvalidRequestError.  (An   *)
(* UPDATE that waits for a lock on the row acts when the wait is over.)    *)
Refresh(t) ==
    /\ stage[t] = "refreshing"
    /\ IF existing[t] \in rows THEN CommitRows(t) /\ End(t, "ok") ELSE Fail(t)

(* The DELETE of the token's rows of other users takes its snapshot, *)
Snapshot(t) ==
    /\ stage[t] = "purging" /\ seen[t] = {} /\ OfOthers(Visible(t), t) # {}
    /\ seen' = [seen EXCEPT ![t] = OfOthers(Visible(t), t)]
    /\ UNCHANGED <<store, stage, request, existing, answer, rivals>>

(* Variant: nothing is purged. *)
SkipPurge(t) ==
    /\ stage[t] = "purging"
    /\ stage' = [stage EXCEPT ![t] = IF Registers(t) THEN "inserting" ELSE "ending"]
    /\ UNCHANGED <<store, request, existing, seen, answer, rivals>>

(* and deletes them when no other transaction holds them. *)
Purge(t) ==
    /\ stage[t] = "purging"
    /\ seen[t] = {} => OfOthers(Visible(t), t) = {}
    /\ DeleteRows(t, seen[t])
    /\ stage' = [stage EXCEPT ![t] = IF Registers(t) THEN "inserting" ELSE "ending"]
    /\ UNCHANGED <<request, existing, seen, answer, rivals>>

Insert(t) ==
    /\ stage[t] = "inserting"
    /\ InsertRow(t, [id |-> nextId, user |-> request[t].user, token |-> TokenOf(t)])
    /\ stage' = [stage EXCEPT ![t] = "ending"]
    /\ UNCHANGED <<request, existing, seen, answer, rivals>>

(* Variant: delete_token without the 404. *)
FindUnchecked(t) ==
    /\ stage[t] = "reading" /\ ~Registers(t)
    /\ existing' = [existing EXCEPT ![t] = NoRow]
    /\ seen' = [seen EXCEPT ![t] = {NoRow}]
    /\ stage' = [stage EXCEPT ![t] = "purging"]
    /\ UNCHANGED <<store, request, answer, rivals>>

(* delete_token, of a row the client knows: 404 if it is gone when read;   *)
(* gone only when deleted, it is as good as deleted.                       *)
Find(t) ==
    /\ stage[t] = "reading" /\ ~Registers(t)
    /\ \/ OfUser(Visible(t), t) = {} /\ Fail(t)
       \/ \E r \in OfUser(Visible(t), t) :
            /\ existing' = [existing EXCEPT ![t] = r]
            /\ seen' = [seen EXCEPT ![t] = {r}]
            /\ stage' = [stage EXCEPT ![t] = "purging"]
            /\ UNCHANGED <<store, request, answer, rivals>>

Commit(t) == /\ stage[t] = "ending"
             /\ CommitRows(t)
             /\ End(t, "ok")

TokensNext == \E t \in Txns : \/ Begin(t) \/ Check(t) \/ Refresh(t) \/ Snapshot(t)
                               \/ Purge(t) \/ Insert(t) \/ Find(t) \/ Commit(t)

TokensSpec == TokensInit /\ [][TokensNext]_tokensVars

-----------------------------------------------------------------------------
(* A device's token has one row, of one user, unless two registrations of  *)
(* it overlapped: registering it for the next user of the device takes it  *)
(* from the last one, whatever deletions run at the same time.             *)
OneHolderUnlessRaced ==
    \A tok \in Tokens \ {TokenOf(t) : t \in rivals} : Cardinality(Holders(rows, tok)) <= 1

(* A registration that no other of its token overlaps acts as if at one    *)
(* instant, its end, whatever rows earlier races have left and deletions   *)
(* take meanwhile.  With one row of its user it succeeds and changes none  *)
(* (other users' rows stay); with more, which an earlier race has left, it *)
(* fails; with none it succeeds and the token has one row, its user's, or  *)
(* fails because a deletion took the row it had found.                     *)
LoneRegistrationHolds ==
    [][\A t \in Txns \ rivals :
         Registers(t) /\ answer'[t] # answer[t] =>
           \/ /\ Cardinality(OfUser(rows, t)) = 1 /\ rows' = rows
              /\ answer'[t] = "ok"
           \/ /\ Cardinality(OfUser(rows, t)) > 1 /\ rows' = rows
              /\ answer'[t] = "error"
           \/ /\ OfUser(rows, t) = {} /\ answer'[t] = "ok"
              /\ Cardinality(Holders(rows', TokenOf(t))) = 1
              /\ \A r \in Holders(rows', TokenOf(t)) : r.user = request[t].user
           \/ /\ OfUser(rows, t) = {} /\ existing[t] # NoRow /\ rows' = rows
              /\ answer'[t] = "error"]_tokensVars

=============================================================================
