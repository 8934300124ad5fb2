------------------------------ MODULE AuthSessions ------------------------------
(***************************************************************************)
(* The life cycle of auth sessions (app/services/auth_service.py): a login *)
(* opens one, a refresh ends it and opens its successor, a logout ends it  *)
(* or all of the user's, and app/scripts/cleanup_auth_sessions.py deletes  *)
(* rows whose time has passed.  The revocation and the new session of a    *)
(* refresh are two commits.                                                *)
(*                                                                         *)
(* A login and the refreshes that follow from it are one line of sessions; *)
(* line is history, as are closed and raced.                               *)
(***************************************************************************)
EXTENDS Naturals, FiniteSets

CONSTANTS
    Users,
    Txns,         \* requests
    NoSession,    \* no session: a logout without a refresh token
    Lifetime,     \* auth_refresh_token_exp_minutes, in ticks
    Grace,        \* grace_days, in ticks
    MaxSessions,  \* bound: sessions ever opened
    MaxTime       \* bound: the last tick

ASSUME SessionsAssumption == /\ Lifetime \in Nat \ {0} /\ Grace \in Nat
                             /\ MaxSessions \in Nat /\ MaxTime \in Nat
                             /\ NoSession \notin Nat

VARIABLES
    now,       \* the clock
    opened,    \* sessions opened so far, numbered from 1
    owner,     \* owner[j]: the user of session j, as its tokens say
    expires,   \* expires[j]: when j and its refresh token expire
    row,       \* row[j]: "none", "live" or "revoked", in auth_sessions
    pc,        \* "new", "reading", "rotating" or "ending" (to revoke a session
               \* with or without a successor), "revokingAll", "opening", "done"
    request,   \* request[t]: kind, user and session of the request
    line,      \* line[j]: the session of the login that j goes back to
    closed,    \* lines a logout or a revocation of all sessions has ended
    raced      \* users with a refresh that overlapped another request

sessions == <<opened, owner, expires, line>>
vars == <<now, sessions, row, pc, request, closed, raced>>

Ids == 1..MaxSessions
Opened == 1..opened
NoRequest == [kind |-> "none"]
Requests == [kind : {"refresh", "logout"}, user : Users, session : Ids \union {NoSession}]

TypeOK == /\ now \in 0..MaxTime /\ opened \in 0..MaxSessions
          /\ owner \in [Opened -> Users] /\ line \in [Opened -> Opened]
          /\ expires \in [Opened -> 0..(MaxTime + Lifetime)]
          /\ row \in [Opened -> {"none", "live", "revoked"}]
          /\ pc \in [Txns -> {"new", "reading", "rotating", "ending",
                              "revokingAll", "opening", "done"}]
          /\ request \in [Txns -> Requests \union {NoRequest}]
          /\ closed \subseteq Ids /\ raced \subseteq Users

Init == /\ now = 0 /\ opened = 0
        /\ owner = [j \in {} |-> 0] /\ expires = owner /\ line = owner /\ row = owner
        /\ pc = [t \in Txns |-> "new"]
        /\ request = [t \in Txns |-> NoRequest]
        /\ closed = {} /\ raced = {}

Extended(f, v) == [j \in 1..(opened + 1) |-> IF j = opened + 1 THEN v ELSE f[j]]

(* Variant: the lifetime is added to the expiry of the session before. *)
SlidingExpiry(j) == (IF j = opened + 1 THEN now ELSE expires[j]) + Lifetime

(* The expiry of the session that follows j. *)
Expiry(j) == now + Lifetime

(* _issue_tokens and _persist_session: the session that follows j. *)
Open(u, j, l) ==
    /\ opened < MaxSessions
    /\ opened' = opened + 1
    /\ owner' = Extended(owner, u)
    /\ expires' = Extended(expires, Expiry(j))
    /\ line' = Extended(line, l)
    /\ row' = Extended(row, "live")

(* login_with_microsoft, once the user is known. *)
Login(u) == /\ Open(u, opened + 1, opened + 1)
            /\ UNCHANGED <<now, pc, request, closed, raced>>

Running(t) == pc[t] \notin {"new", "done"}

Start(t, r, next) ==
    /\ pc[t] = "new"
    /\ request' = [request EXCEPT ![t] = r]
    /\ pc' = [pc EXCEPT ![t] = next]
    /\ raced' = IF \E x \in Txns : /\ Running(x) /\ request[x].user = r.user
                                   /\ "refresh" \in {r.kind, request[x].kind}
                THEN raced \union {r.user} ELSE raced
    /\ UNCHANGED <<now, sessions, row, closed>>

(* A refresh token is decoded before its session is looked up. *)
StartRefresh(t) == \E j \in Opened :
    /\ now < expires[j]
    /\ Start(t, [kind |-> "refresh", user |-> owner[j], session |-> j], "reading")

(* get_current_actor asks for a live session; the refresh token to revoke  *)
(* may be another one of the user's, or left out.                          *)
StartLogout(t) == \E j \in Opened, k \in Opened \union {NoSession} :
    /\ row[j] = "live" /\ now < expires[j]
    /\ k # NoSession => owner[k] = owner[j] /\ now < expires[k]
    /\ Start(t, [kind |-> "logout", user |-> owner[j], session |-> k],
             IF k = NoSession THEN "revokingAll" ELSE "reading")

Go(t, next) == /\ pc' = [pc EXCEPT ![t] = next]
               /\ request' = IF next = "done" THEN [request EXCEPT ![t] = NoRequest]
                             ELSE request

(* Variant: a refresh does not tell a revoked session from a live one. *)
ReadIgnoringRevoked(t) ==
    LET j == request[t].session IN
    /\ pc[t] = "reading"
    /\ Go(t, CASE row[j] = "none" -> "done"
                [] request[t].kind = "refresh" -> "rotating"
                [] OTHER -> "ending")
    /\ UNCHANGED <<now, sessions, row, closed, raced>>

(* _get_session_by_token and what follows from the row.  A refresh with a  *)
(* revoked token revokes all the user's sessions, a logout with an unknown *)
(* one too.  (The session a logout comes from is in its database session   *)
(* since get_current_actor, live as it was then: if it is revoked by now,  *)
(* it is revoked once more, which changes only when that was.)             *)
Read(t) ==
    LET j == request[t].session IN
    /\ pc[t] = "reading"
    /\ IF request[t].kind = "refresh"
       THEN Go(t, CASE row[j] = "none" -> "done"
                    [] row[j] = "revoked" -> "revokingAll"
                    [] row[j] = "live" /\ expires[j] <= now -> "ending"
                    [] OTHER -> "rotating")
       ELSE Go(t, CASE row[j] = "none" -> "revokingAll"
                    [] row[j] = "revoked" -> "done"
                    [] OTHER -> "ending")
    /\ UNCHANGED <<now, sessions, row, closed, raced>>

(* _revoke_session writes the row whatever others did to it since; a row   *)
(* deleted since raises.                                                   *)
Revoke(t) ==
    LET j == request[t].session IN
    /\ pc[t] \in {"rotating", "ending"}
    /\ IF row[j] = "none" THEN Go(t, "done") /\ UNCHANGED <<row, closed>>
       ELSE /\ row' = [row EXCEPT ![j] = "revoked"]
            /\ closed' = IF request[t].kind = "logout" THEN closed \union {line[j]}
                         ELSE closed
            /\ Go(t, IF pc[t] = "rotating" THEN "opening" ELSE "done")
    /\ UNCHANGED <<now, sessions, raced>>

(* The second commit of a refresh. *)
OpenNext(t) ==
    /\ pc[t] = "opening"
    /\ Open(request[t].user, request[t].session, line[request[t].session])
    /\ Go(t, "done")
    /\ UNCHANGED <<now, closed, raced>>

(* _revoke_all_sessions *)
RevokeAll(t) ==
    LET mine == {j \in Opened : owner[j] = request[t].user} IN
    /\ pc[t] = "revokingAll"
    /\ row' = [j \in Opened |-> IF j \in mine /\ row[j] = "live" THEN "revoked" ELSE row[j]]
    /\ closed' = closed \union {line[j] : j \in mine}
    /\ Go(t, "done")
    /\ UNCHANGED <<now, sessions, raced>>

(* The process dies or the database connection does. *)
Lose(t) == Running(t) /\ Go(t, "done") /\ UNCHANGED <<now, sessions, row, closed, raced>>

(* Variant: revoked sessions go at once. *)
OutdatedOnceRevoked(j) == row[j] = "revoked" \/ expires[j] + Grace < now

Outdated(j) == \/ expires[j] < now /\ row[j] = "revoked"
               \/ expires[j] + Grace < now

(* cleanup_auth_sessions: one DELETE. *)
Cleanup == /\ row' = [j \in Opened |-> IF Outdated(j) THEN "none" ELSE row[j]]
           /\ UNCHANGED <<now, sessions, pc, request, closed, raced>>

Tick == /\ now < MaxTime /\ now' = now + 1
        /\ UNCHANGED <<sessions, row, pc, request, closed, raced>>

Next == \/ \E u \in Users : Login(u)
        \/ \E t \in Txns : \/ StartRefresh(t) \/ StartLogout(t) \/ Read(t) \/ Revoke(t)
                           \/ OpenNext(t) \/ RevokeAll(t) \/ Lose(t)
        \/ Cleanup \/ Tick

Spec == Init /\ [][Next]_vars

-----------------------------------------------------------------------------
Live(l) == {j \in Opened : line[j] = l /\ row[j] = "live"}

(* A login has one live session at a time, however often it is refreshed,  *)
(* lost between the two commits or retried with an old token, and none     *)
(* once a logout ended it, as long as the user's refreshes overlap no      *)
(* other request.                                                          *)
OneLivePerLogin ==
    \A l \in Opened : owner[l] \notin raced =>
        Cardinality(Live(l)) <= IF l \in closed THEN 0 ELSE 1

(* A refresh token that is still good is never forgotten: the cleanup may  *)
(* run at any time, and a token rotated earlier is still known as used.    *)
GoodTokensKnown == \A j \in Opened : now < expires[j] => row[j] # "none"

=============================================================================
