--------------------------- MODULE AuthSessionsProofs --------------------------
(* Proofs about AuthSessions, for any users and requests, any lifetime and *)
(* grace period, and whatever the bounds.                                  *)
EXTENDS AuthSessions, FiniteSetTheorems, TLAPS

(* Sessions of one line have one user; a request is about a session of its *)
(* user, unless it revokes them all.                                       *)
Owned ==
    /\ closed \subseteq Opened
    /\ \A j \in Opened : owner[line[j]] = owner[j]
    /\ \A t \in Txns : Running(t) =>
         /\ request[t] \in Requests
         /\ pc[t] # "revokingAll" => /\ request[t].session \in Opened
                                     /\ owner[request[t].session] = request[t].user
         /\ pc[t] \in {"rotating", "opening"} => request[t].kind = "refresh"

OneLive ==
    \A j \in Opened : row[j] = "live" /\ owner[j] \notin raced =>
        /\ line[j] \notin closed
        /\ \A k \in Opened : line[k] = line[j] /\ row[k] = "live" => k = j

Alone ==
    \A t \in Txns : Running(t) /\ request[t].kind = "refresh" /\ request[t].user \notin raced =>
        \A x \in Txns \ {t} : Running(x) => request[x].user # request[t].user

(* What a request has found is still so: the session that it will revoke   *)
(* is the last live one of its line, and the line that it will open a      *)
(* session of has none and is not closed.                                  *)
Pending ==
    \A t \in Txns : Running(t) /\ request[t].user \notin raced =>
        /\ pc[t] \in {"rotating", "ending"} =>
             \A k \in Opened : line[k] = line[request[t].session] /\ row[k] = "live"
                                 => k = request[t].session
        /\ pc[t] = "opening" =>
             \A k \in Opened : line[k] = line[request[t].session] => row[k] # "live"
        /\ pc[t] \in {"rotating", "opening"} => line[request[t].session] \notin closed

TInv == TypeOK /\ Owned
IInv == TInv /\ GoodTokensKnown /\ OneLive /\ Alone /\ Pending

-----------------------------------------------------------------------------
LEMMA OpenedIds == TypeOK => Opened \subseteq Ids
  BY SessionsAssumption DEF TypeOK, Opened, Ids

(* A session is opened for u in line l, as l's next or as a line of its own. *)
LEMMA OpenedNext ==
    ASSUME TypeOK, NEW u \in Users, NEW j, NEW l \in 1..(opened + 1), Open(u, j, l)
    PROVE  /\ opened \in Nat /\ opened' = opened + 1 /\ opened' \in 0..MaxSessions
           /\ Opened' = Opened \union {opened + 1} /\ opened + 1 \notin Opened
           /\ owner' \in [Opened' -> Users] /\ line' \in [Opened' -> Opened']
           /\ row' \in [Opened' -> {"none", "live", "revoked"}]
           /\ owner'[opened + 1] = u /\ line'[opened + 1] = l /\ row'[opened + 1] = "live"
           /\ \A k \in Opened : owner'[k] = owner[k] /\ line'[k] = line[k] /\ row'[k] = row[k]
<1>1. /\ opened \in Nat /\ opened' = opened + 1 /\ opened' \in 0..MaxSessions
      /\ owner' = Extended(owner, u) /\ line' = Extended(line, l) /\ row' = Extended(row, "live")
      /\ owner \in [Opened -> Users] /\ line \in [Opened -> Opened]
      /\ row \in [Opened -> {"none", "live", "revoked"}]
  BY SessionsAssumption DEF Open, TypeOK
<1>2. /\ Opened' = 1..(opened + 1) /\ Opened \subseteq 1..(opened + 1)
      /\ Opened' = Opened \union {opened + 1} /\ opened + 1 \notin Opened
  BY <1>1 DEF Opened
<1>3. /\ owner' \in [Opened' -> Users] /\ owner'[opened + 1] = u
      /\ \A k \in Opened : owner'[k] = owner[k]
  BY <1>1, <1>2 DEF Extended
<1>4. /\ line' \in [Opened' -> Opened'] /\ line'[opened + 1] = l
      /\ \A k \in Opened : line'[k] = line[k]
  BY <1>1, <1>2 DEF Extended
<1>5. /\ row' \in [Opened' -> {"none", "live", "revoked"}] /\ row'[opened + 1] = "live"
      /\ \A k \in Opened : row'[k] = row[k]
  BY <1>1, <1>2 DEF Extended
<1> QED  BY <1>1, <1>2, <1>3, <1>4, <1>5

LEMMA OpenedExpires ==
    ASSUME TypeOK, NEW u, NEW j, NEW l, Open(u, j, l)
    PROVE  /\ expires' \in [Opened' -> 0..(MaxTime + Lifetime)]
           /\ \A k \in Opened : expires'[k] = expires[k]
<1> DEFINE Times == 0..(MaxTime + Lifetime)
<1>1. /\ opened \in Nat /\ expires' = Extended(expires, Expiry(j))
      /\ Expiry(j) \in Times /\ expires \in [Opened -> Times]
  BY SessionsAssumption DEF Open, Expiry, TypeOK
<1>2. Opened' = 1..(opened + 1) /\ Opened = 1..opened
  BY DEF Open, Opened
<1> HIDE DEF Times
<1>3. expires' \in [Opened' -> Times] /\ \A k \in Opened : expires'[k] = expires[k]
  BY <1>1, <1>2 DEF Extended
<1> QED  BY <1>3 DEF Times

LEMMA GoType == ASSUME TypeOK, NEW t \in Txns, Running(t), NEW next, Go(t, next),
                       next \in {"reading", "rotating", "ending", "revokingAll", "opening", "done"}
                PROVE  /\ pc' \in [Txns -> {"new", "reading", "rotating", "ending",
                                            "revokingAll", "opening", "done"}]
                       /\ request' \in [Txns -> Requests \union {NoRequest}]
                       /\ pc'[t] = next
                       /\ \A x \in Txns \ {t} : pc'[x] = pc[x] /\ request'[x] = request[x]
                       /\ Running(t)' => request'[t] = request[t]
                       /\ \A x \in Txns : Running(x)' => Running(x) /\ request'[x] = request[x]
  BY DEF Go, TypeOK, Running

LEMMA InvInit == Init => IInv
<1> SUFFICES ASSUME Init PROVE IInv
  OBVIOUS
<1>1. Opened = {}
  BY DEF Init, Opened
<1>2. TypeOK
  BY <1>1, SessionsAssumption DEF Init, TypeOK
<1> QED  BY <1>1, <1>2 DEF Init, IInv, TInv, Owned, GoodTokensKnown, OneLive, Alone, Pending, Running

-----------------------------------------------------------------------------
(* Requests that only move on: nothing of the sessions changes. *)

LEMMA StartStep ==
    ASSUME IInv, NEW t \in Txns, NEW r \in Requests, NEW next \in {"reading", "revokingAll"},
           next # "revokingAll" => r.session \in Opened /\ owner[r.session] = r.user,
           Start(t, r, next)
    PROVE  IInv'
<1>1. /\ pc[t] = "new" /\ request' = [request EXCEPT ![t] = r] /\ pc' = [pc EXCEPT ![t] = next]
      /\ raced \subseteq raced' /\ raced' \subseteq raced \union {r.user}
      /\ UNCHANGED <<now, opened, owner, expires, line, row, closed>>
  BY DEF Start, sessions
<1>2. /\ pc'[t] = next /\ request'[t] = r
      /\ \A x \in Txns \ {t} : /\ pc'[x] = pc[x] /\ request'[x] = request[x]
                               /\ Running(x)' <=> Running(x)
  BY <1>1 DEF IInv, TInv, TypeOK, Running
<1>3. \A x \in Txns : Running(x) /\ "refresh" \in {r.kind, request[x].kind} /\ r.user \notin raced'
        => request[x].user # r.user
  BY DEF Start
<1>4. r.user \in Users
  BY DEF Requests
<1>5. TInv' /\ GoodTokensKnown' /\ OneLive'
  <2>1. TypeOK'
    BY <1>1, <1>4 DEF IInv, TInv, TypeOK, Opened
  <2>2. Owned'
    BY <1>1, <1>2 DEF IInv, TInv, Owned, Opened
  <2> QED  BY <1>1, <2>1, <2>2 DEF IInv, TInv, GoodTokensKnown, OneLive, Opened
<1>6. Alone'
  BY <1>1, <1>2, <1>3 DEF IInv, Alone, Running
<1>7. Pending'
  BY <1>1, <1>2 DEF IInv, Pending, Opened
<1> QED  BY <1>5, <1>6, <1>7 DEF IInv

LEMMA LoseStep == ASSUME IInv, NEW t \in Txns, Lose(t) PROVE IInv'
<1>1. UNCHANGED <<now, opened, owner, expires, line, row, closed, raced>>
  BY DEF Lose, sessions
<1>2. /\ pc' \in [Txns -> {"new", "reading", "rotating", "ending",
                           "revokingAll", "opening", "done"}]
      /\ request' \in [Txns -> Requests \union {NoRequest}]
      /\ \A x \in Txns : Running(x)' => Running(x) /\ request'[x] = request[x] /\ pc'[x] = pc[x]
  BY GoType DEF Lose, IInv, TInv, Running
<1>3. TypeOK' /\ GoodTokensKnown' /\ OneLive'
  BY <1>1, <1>2 DEF IInv, TInv, TypeOK, GoodTokensKnown, OneLive, Opened
<1>4. Owned' /\ Alone'
  BY <1>1, <1>2 DEF IInv, TInv, Owned, Alone, Opened
<1>5. Pending'
  BY <1>1, <1>2 DEF IInv, Pending, Opened
<1> QED  BY <1>3, <1>4, <1>5 DEF IInv, TInv

LEMMA ReadStep == ASSUME IInv, NEW t \in Txns, Read(t) PROVE IInv'
<1> DEFINE j == request[t].session
<1>1. /\ pc[t] = "reading" /\ Running(t)
      /\ UNCHANGED <<now, opened, owner, expires, line, row, closed, raced>>
  BY DEF Read, sessions, Running
<1>2. PICK next \in {"rotating", "ending", "revokingAll", "done"} :
        /\ Go(t, next)
        /\ next \in {"rotating", "ending"} => row[j] = "live"
        /\ next = "rotating" => request[t].kind = "refresh"
  <2>1. j \in Opened /\ row[j] \in {"none", "live", "revoked"} /\ request[t] \in Requests
    BY <1>1 DEF IInv, TInv, Owned, TypeOK
  <2>2. request[t].kind \in {"refresh", "logout"}
    BY <2>1 DEF Requests
  <2> QED  BY <2>1, <2>2 DEF Read
<1>3. /\ pc' \in [Txns -> {"new", "reading", "rotating", "ending",
                           "revokingAll", "opening", "done"}]
      /\ request' \in [Txns -> Requests \union {NoRequest}]
      /\ pc'[t] = next
      /\ \A x \in Txns : Running(x)' => Running(x) /\ request'[x] = request[x]
      /\ \A x \in Txns \ {t} : pc'[x] = pc[x]
  BY <1>1, <1>2, GoType DEF IInv, TInv
<1>4. TInv' /\ GoodTokensKnown' /\ OneLive' /\ Alone'
  <2>1. TypeOK'
    BY <1>1, <1>3 DEF IInv, TInv, TypeOK, Opened
  <2>2. Owned'
    BY <1>1, <1>2, <1>3 DEF IInv, TInv, Owned, Opened
  <2>4. GoodTokensKnown' /\ OneLive'
    BY <1>1 DEF IInv, GoodTokensKnown, OneLive, Opened
  <2>3. Alone'
    BY <1>1, <1>3 DEF IInv, Alone
  <2> QED  BY <2>1, <2>2, <2>3, <2>4 DEF TInv
<1>5. Pending'
  <2>1. j \in Opened /\ owner[j] = request[t].user
    BY <1>1 DEF IInv, TInv, Owned
  <2>2. request[t].user \notin raced /\ next \in {"rotating", "ending"} =>
          line[j] \notin closed /\ \A k \in Opened : line[k] = line[j] /\ row[k] = "live" => k = j
    BY <1>2, <2>1 DEF IInv, OneLive
  <2> QED  BY <1>1, <1>2, <1>3, <2>2 DEF IInv, Pending, Opened
<1> QED  BY <1>4, <1>5 DEF IInv

-----------------------------------------------------------------------------
(* Steps that end sessions. *)

LEMMA RevokeStep == ASSUME IInv, NEW t \in Txns, Revoke(t) PROVE IInv'
<1> DEFINE j == request[t].session
<1>1. /\ pc[t] \in {"rotating", "ending"} /\ Running(t)
      /\ UNCHANGED <<now, opened, owner, expires, line, raced>>
  BY DEF Revoke, sessions, Running
<1>2. j \in Opened /\ owner[j] = request[t].user /\ request[t] \in Requests
  BY <1>1 DEF IInv, TInv, Owned
<1>3. CASE row[j] = "none"
  <2>1. Go(t, "done") /\ UNCHANGED <<row, closed>>
    BY <1>3 DEF Revoke
  <2> QED  BY <1>1, <2>1, LoseStep DEF Lose, sessions
<1>4. CASE row[j] # "none"
  <2>1. /\ row' = [row EXCEPT ![j] = "revoked"]
        /\ closed' = IF request[t].kind = "logout" THEN closed \union {line[j]} ELSE closed
        /\ Go(t, IF pc[t] = "rotating" THEN "opening" ELSE "done")
    BY <1>4 DEF Revoke
  <2>2. /\ pc' \in [Txns -> {"new", "reading", "rotating", "ending",
                             "revokingAll", "opening", "done"}]
        /\ request' \in [Txns -> Requests \union {NoRequest}]
        /\ pc'[t] = IF pc[t] = "rotating" THEN "opening" ELSE "done"
        /\ \A x \in Txns : Running(x)' => Running(x) /\ request'[x] = request[x]
        /\ \A x \in Txns \ {t} : pc'[x] = pc[x]
    BY <1>1, <2>1, GoType DEF IInv, TInv
  <2>3. /\ row' \in [Opened -> {"none", "live", "revoked"}] /\ row'[j] = "revoked"
        /\ \A k \in Opened \ {j} : row'[k] = row[k]
        /\ line[j] \in Opened /\ owner[line[j]] = owner[j]
    BY <1>2, <2>1 DEF IInv, TInv, TypeOK, Owned
  <2>4. TInv'
    <3>1. closed' \subseteq Opened /\ Opened' = Opened /\ Opened \subseteq Ids
      <4>1. closed' \subseteq Opened
        BY <1>1, <2>1, <2>3 DEF IInv, TInv, Owned
      <4>2. Opened' = Opened
        BY <1>1 DEF Opened
      <4> QED  BY <4>1, <4>2, OpenedIds DEF IInv, TInv
    <3>2. TypeOK'
      BY <1>1, <2>2, <2>3, <3>1 DEF IInv, TInv, TypeOK
    <3>3. Owned'
      BY <1>1, <1>2, <2>2, <3>1 DEF IInv, TInv, Owned
    <3> QED  BY <3>2, <3>3 DEF TInv
  <2>5. GoodTokensKnown' /\ Alone'
    BY <1>1, <2>2, <2>3 DEF IInv, GoodTokensKnown, Alone, Opened
  <2>6. owner[j] \notin raced => \A k \in Opened : line[k] = line[j] => row'[k] # "live"
    BY <1>1, <1>2, <2>3 DEF IInv, Pending
  <2>7. \A k \in Opened : line[k] = line[j] => owner[k] = owner[j]
    BY <2>3 DEF IInv, TInv, Owned
  <2>8. OneLive'
    <3>1. SUFFICES ASSUME NEW i \in Opened, row'[i] = "live", owner[i] \notin raced
                   PROVE  /\ line[i] \notin closed'
                          /\ \A k \in Opened : line[k] = line[i] /\ row'[k] = "live" => k = i
      BY <1>1 DEF OneLive, Opened
    <3>2. row[i] = "live" /\ i # j /\ line[i] # line[j]
      BY <2>3, <2>6, <2>7, <3>1
    <3>3. /\ line[i] \notin closed
          /\ \A k \in Opened : line[k] = line[i] /\ row[k] = "live" => k = i
      BY <3>1, <3>2 DEF IInv, OneLive
    <3> QED  BY <2>1, <2>3, <3>2, <3>3
  <2>9. Pending'
    <3>1. SUFFICES ASSUME NEW x \in Txns, Running(x)', request[x].user \notin raced,
                          request'[x] = request[x], Running(x)
                   PROVE  /\ pc'[x] \in {"rotating", "ending"} =>
                               \A k \in Opened : line[k] = line[request[x].session] /\ row'[k] = "live"
                                                   => k = request[x].session
                          /\ pc'[x] = "opening" =>
                               \A k \in Opened : line[k] = line[request[x].session] => row'[k] # "live"
                          /\ pc'[x] \in {"rotating", "opening"} =>
                               line[request[x].session] \notin closed'
      BY <1>1, <2>2 DEF Pending, Opened
    <3>2. CASE x = t
      BY <1>1, <1>2, <2>1, <2>2, <2>6, <3>1, <3>2 DEF IInv, TInv, Owned, Pending
    <3>3. CASE x # t
      <4>1. pc'[x] = pc[x] /\ \A k \in Opened : row'[k] = "live" => row[k] = "live"
        BY <2>2, <2>3, <3>3
      <4>2. pc[x] \in {"rotating", "opening"} => line[request[x].session] \notin closed'
        <5>1. SUFFICES ASSUME pc[x] \in {"rotating", "opening"}
                       PROVE  line[request[x].session] \notin closed'
          OBVIOUS
        <5>2. /\ request[x].session \in Opened /\ request[x].kind = "refresh"
              /\ owner[request[x].session] = request[x].user
          BY <3>1, <5>1 DEF IInv, TInv, Owned
        <5>3. request[t].user # request[x].user
          BY <1>1, <3>1, <3>3, <5>2 DEF IInv, Alone
        <5>4. line[request[x].session] # line[j]
          BY <1>2, <2>7, <5>2, <5>3
        <5> QED  BY <2>1, <3>1, <5>1, <5>4 DEF IInv, Pending
      <4> QED  BY <3>1, <4>1, <4>2 DEF IInv, Pending
    <3> QED  BY <3>2, <3>3
  <2> QED  BY <2>4, <2>5, <2>8, <2>9 DEF IInv
<1> QED  BY <1>3, <1>4

LEMMA RevokeAllStep == ASSUME IInv, NEW t \in Txns, RevokeAll(t) PROVE IInv'
<1> DEFINE mine == {j \in Opened : owner[j] = request[t].user}
<1>1. /\ pc[t] = "revokingAll" /\ Running(t)
      /\ row' = [j \in Opened |-> IF j \in mine /\ row[j] = "live" THEN "revoked" ELSE row[j]]
      /\ closed' = closed \union {line[j] : j \in mine}
      /\ Go(t, "done")
      /\ UNCHANGED <<now, opened, owner, expires, line, raced>>
  BY DEF RevokeAll, sessions, Running
<1>2. /\ pc' \in [Txns -> {"new", "reading", "rotating", "ending",
                           "revokingAll", "opening", "done"}]
      /\ request' \in [Txns -> Requests \union {NoRequest}]
      /\ ~Running(t)'
      /\ \A x \in Txns : Running(x)' => Running(x) /\ request'[x] = request[x]
      /\ \A x \in Txns \ {t} : pc'[x] = pc[x]
  BY <1>1, GoType DEF IInv, TInv, Running
<1>3. /\ row' \in [Opened -> {"none", "live", "revoked"}]
      /\ \A k \in Opened : /\ row'[k] = "live" => row[k] = "live" /\ k \notin mine
                           /\ row'[k] = "none" => row[k] = "none"
  BY <1>1 DEF IInv, TInv, TypeOK
<1>4. /\ \A l \in closed' : l \in closed \/ (l \in Opened /\ owner[l] = request[t].user)
      /\ \A k \in Opened : line[k] \in Opened /\ owner[line[k]] = owner[k]
  BY <1>1 DEF IInv, TInv, TypeOK, Owned
<1>5. TInv'
  <2>1. closed' \subseteq Opened /\ Opened' = Opened /\ Opened \subseteq Ids
    <3>1. closed' \subseteq Opened
      BY <1>1, <1>4 DEF IInv, TInv, Owned
    <3>2. Opened' = Opened
      BY <1>1 DEF Opened
    <3> QED  BY <3>1, <3>2, OpenedIds DEF IInv, TInv
  <2>2. TypeOK'
    BY <1>1, <1>2, <1>3, <2>1 DEF IInv, TInv, TypeOK
  <2>3. Owned'
    BY <1>1, <1>2, <2>1 DEF IInv, TInv, Owned
  <2> QED  BY <2>2, <2>3 DEF TInv
<1>6. GoodTokensKnown' /\ Alone'
  BY <1>1, <1>2, <1>3 DEF IInv, GoodTokensKnown, Alone, Opened
<1>7. OneLive'
  BY <1>1, <1>3, <1>4 DEF IInv, OneLive, Opened
<1>8. Pending'
  <2>1. SUFFICES ASSUME NEW x \in Txns \ {t}, Running(x), pc'[x] = pc[x], request'[x] = request[x],
                        request[x].user \notin raced
                 PROVE  /\ pc[x] \in {"rotating", "ending"} =>
                             \A k \in Opened : line[k] = line[request[x].session] /\ row'[k] = "live"
                                                 => k = request[x].session
                        /\ pc[x] = "opening" =>
                             \A k \in Opened : line[k] = line[request[x].session] => row'[k] # "live"
                        /\ pc[x] \in {"rotating", "opening"} =>
                             line[request[x].session] \notin closed'
    BY <1>1, <1>2 DEF Pending, Opened
  <2>2. ASSUME pc[x] \in {"rotating", "opening"}
        PROVE  line[request[x].session] \notin closed'
    <3>1. /\ request[x].session \in Opened /\ request[x].kind = "refresh"
          /\ owner[request[x].session] = request[x].user
      BY <2>1, <2>2 DEF IInv, TInv, Owned
    <3>2. request[t].user # request[x].user
      BY <1>1, <2>1, <3>1 DEF IInv, Alone
    <3> QED  BY <1>4, <2>1, <2>2, <3>1, <3>2 DEF IInv, Pending
  <2> QED  BY <1>3, <2>1, <2>2 DEF IInv, Pending
<1> QED  BY <1>5, <1>6, <1>7, <1>8 DEF IInv

LEMMA CleanupStep == ASSUME IInv, Cleanup PROVE IInv'
<1>1. /\ row' = [j \in Opened |-> IF Outdated(j) THEN "none" ELSE row[j]]
      /\ UNCHANGED <<now, opened, owner, expires, line, pc, request, closed, raced>>
  BY DEF Cleanup, sessions
<1>2. \A j \in Opened : Outdated(j) => ~(now < expires[j])
  BY SessionsAssumption DEF IInv, TInv, TypeOK, Outdated
<1>3. /\ row' \in [Opened -> {"none", "live", "revoked"}]
      /\ \A k \in Opened : row'[k] = "live" => row[k] = "live"
  BY <1>1 DEF IInv, TInv, TypeOK
<1>4. TInv'
  BY <1>1, <1>3 DEF IInv, TInv, TypeOK, Owned, Opened, Running
<1>5. GoodTokensKnown'
  BY <1>1, <1>2 DEF IInv, GoodTokensKnown, Opened
<1>6. OneLive' /\ Alone' /\ Pending'
  BY <1>1, <1>3 DEF IInv, OneLive, Alone, Pending, Opened, Running
<1> QED  BY <1>4, <1>5, <1>6 DEF IInv

LEMMA TickStep == ASSUME IInv, Tick PROVE IInv'
<1>1. /\ now < MaxTime /\ now' = now + 1
      /\ UNCHANGED <<opened, owner, expires, line, row, pc, request, closed, raced>>
  BY DEF Tick, sessions
<1>2. TypeOK'
  <2>1. now' \in 0..MaxTime
    BY <1>1, SessionsAssumption DEF IInv, TInv, TypeOK
  <2> QED  BY <1>1, <2>1 DEF IInv, TInv, TypeOK, Opened
<1>3. Owned'
  BY <1>1 DEF IInv, TInv, Owned, Opened, Running
<1>4. GoodTokensKnown'
  <2>1. \A j \in Opened : expires[j] \in Nat /\ now \in Nat
    BY SessionsAssumption DEF IInv, TInv, TypeOK
  <2> QED  BY <1>1, <2>1 DEF IInv, GoodTokensKnown, Opened
<1> QED  BY <1>1, <1>2, <1>3, <1>4 DEF IInv, TInv, OneLive, Alone, Pending, Opened, Running

-----------------------------------------------------------------------------
(* Steps that open sessions. *)

LEMMA OpenStep ==
    ASSUME IInv, NEW u \in Users, NEW i, NEW l \in 1..(opened + 1), Open(u, i, l),
           UNCHANGED <<now, closed, raced>>,
           pc' \in [Txns -> {"new", "reading", "rotating", "ending",
                             "revokingAll", "opening", "done"}],
           request' \in [Txns -> Requests \union {NoRequest}],
           \A x \in Txns : Running(x)' => Running(x) /\ request'[x] = request[x] /\ pc'[x] = pc[x],
           l \in Opened => owner[l] = u,
           l \notin closed \/ u \in raced,
           u \notin raced => \A k \in Opened : line[k] = l => row[k] # "live",
           u \notin raced => \A x \in Txns :
               Running(x)' /\ pc[x] # "revokingAll" => line[request[x].session] # l
    PROVE  IInv'
<1> DEFINE n == opened + 1
<1>1. /\ opened \in Nat /\ opened' = n /\ opened' \in 0..MaxSessions
      /\ Opened' = Opened \union {n} /\ n \notin Opened
      /\ owner' \in [Opened' -> Users] /\ line' \in [Opened' -> Opened']
      /\ row' \in [Opened' -> {"none", "live", "revoked"}]
      /\ owner'[n] = u /\ line'[n] = l /\ row'[n] = "live"
      /\ \A k \in Opened : owner'[k] = owner[k] /\ line'[k] = line[k] /\ row'[k] = row[k]
  BY OpenedNext DEF IInv, TInv
<1>2. /\ expires' \in [Opened' -> 0..(MaxTime + Lifetime)]
      /\ \A k \in Opened : expires'[k] = expires[k]
  BY OpenedExpires DEF IInv, TInv
<1>3. l \in Opened' /\ \A k \in Opened : line[k] \in Opened
  BY <1>1 DEF IInv, TInv, TypeOK, Opened
<1> HIDE DEF n
<1>4. TypeOK'
  BY <1>1, <1>2 DEF IInv, TInv, TypeOK
<1>5. Owned'
  <2>1. ASSUME NEW k \in Opened' PROVE owner'[line'[k]] = owner'[k]
    <3>1. CASE k = n
      BY <1>1, <1>3, <3>1
    <3>2. CASE k \in Opened
      <4>1. owner[line[k]] = owner[k] /\ line[k] \in Opened
        BY <1>3, <3>2 DEF IInv, TInv, Owned
      <4>2. line'[k] = line[k] /\ owner'[k] = owner[k] /\ owner'[line[k]] = owner[line[k]]
        BY <1>1, <3>2, <4>1
      <4> QED  BY <4>1, <4>2
    <3> QED  BY <1>1, <3>1, <3>2
  <2>2. closed' \subseteq Opened'
    BY <1>1 DEF IInv, TInv, Owned
  <2> QED  BY <1>1, <2>1, <2>2 DEF IInv, TInv, Owned
<1>6. GoodTokensKnown'
  BY <1>1, <1>2 DEF IInv, GoodTokensKnown
<1>7. OneLive'
  <2>1. SUFFICES ASSUME NEW j \in Opened', row'[j] = "live", owner'[j] \notin raced
                 PROVE  /\ line'[j] \notin closed
                        /\ \A k \in Opened' : line'[k] = line'[j] /\ row'[k] = "live" => k = j
    BY DEF OneLive
  <2>2. CASE j = n
    BY <1>1, <2>1, <2>2
  <2>3. CASE j # n
    <3>1. j \in Opened /\ row[j] = "live" /\ line'[j] = line[j] /\ owner'[j] = owner[j]
      BY <1>1, <2>1, <2>3
    <3>2. line[j] # l
      BY <1>1, <1>3, <2>1, <3>1 DEF IInv, TInv, Owned
    <3>3. /\ line[j] \notin closed
          /\ \A k \in Opened : line[k] = line[j] /\ row[k] = "live" => k = j
      BY <2>1, <3>1 DEF IInv, OneLive
    <3> QED  BY <1>1, <3>1, <3>2, <3>3
  <2> QED  BY <2>2, <2>3
<1>8. Alone'
  BY DEF IInv, Alone
<1>9. Pending'
  <2>1. SUFFICES ASSUME NEW x \in Txns, Running(x)', Running(x), request'[x] = request[x],
                        pc'[x] = pc[x], request[x].user \notin raced
                 PROVE  /\ pc[x] \in {"rotating", "ending"} =>
                             \A k \in Opened' : line'[k] = line'[request[x].session] /\ row'[k] = "live"
                                                 => k = request[x].session
                        /\ pc[x] = "opening" =>
                             \A k \in Opened' : line'[k] = line'[request[x].session] => row'[k] # "live"
                        /\ pc[x] \in {"rotating", "opening"} =>
                             line'[request[x].session] \notin closed
    BY DEF Pending
  <2>2. CASE pc[x] = "revokingAll"
    BY <2>2
  <2>3. CASE pc[x] # "revokingAll"
    <3>1. /\ request[x].session \in Opened /\ owner[request[x].session] = request[x].user
          /\ line'[request[x].session] = line[request[x].session]
      BY <1>1, <2>1, <2>3 DEF IInv, TInv, Owned
    <3>2. line[request[x].session] # l
      BY <1>3, <2>1, <2>3, <3>1 DEF IInv, TInv, Owned
    <3>3. \A k \in Opened' : line'[k] = line'[request[x].session] =>
             k \in Opened /\ line[k] = line[request[x].session] /\ row'[k] = row[k]
      BY <1>1, <3>1, <3>2
    <3> QED  BY <2>1, <3>1, <3>3 DEF IInv, Pending
  <2> QED  BY <2>2, <2>3
<1> QED  BY <1>4, <1>5, <1>6, <1>7, <1>8, <1>9 DEF IInv, TInv

LEMMA LoginStep == ASSUME IInv, NEW u \in Users, Login(u) PROVE IInv'
<1>1. Open(u, opened + 1, opened + 1) /\ UNCHANGED <<now, closed, raced, pc, request>>
  BY DEF Login
<1>2. opened \in Nat /\ opened + 1 \notin Opened /\ opened + 1 \in 1..(opened + 1)
  BY DEF IInv, TInv, TypeOK, Opened
<1>3. \A k \in Opened : line[k] # opened + 1
  BY <1>2 DEF IInv, TInv, TypeOK
<1>4. \A x \in Txns : Running(x) /\ pc[x] # "revokingAll" => line[request[x].session] # opened + 1
  BY <1>3 DEF IInv, TInv, Owned
<1>5. opened + 1 \notin closed
  BY <1>2 DEF IInv, TInv, Owned
<1>6. /\ pc' \in [Txns -> {"new", "reading", "rotating", "ending",
                           "revokingAll", "opening", "done"}]
      /\ request' \in [Txns -> Requests \union {NoRequest}]
      /\ \A x \in Txns : Running(x)' <=> Running(x)
  BY <1>1 DEF IInv, TInv, TypeOK, Running
<1> QED  BY <1>1, <1>2, <1>3, <1>4, <1>5, <1>6, OpenStep

LEMMA OpenNextStep == ASSUME IInv, NEW t \in Txns, OpenNext(t) PROVE IInv'
<1> DEFINE j == request[t].session
<1>1. /\ pc[t] = "opening" /\ Running(t) /\ Open(request[t].user, j, line[j]) /\ Go(t, "done")
      /\ UNCHANGED <<now, closed, raced>>
  BY DEF OpenNext, Running
<1>2. /\ j \in Opened /\ owner[j] = request[t].user /\ request[t].kind = "refresh"
      /\ request[t].user \in Users /\ line[j] \in Opened /\ owner[line[j]] = owner[j]
      /\ line[j] \in 1..(opened + 1)
  <2>1. /\ j \in Opened /\ owner[j] = request[t].user /\ request[t].kind = "refresh"
        /\ request[t] \in Requests
    BY <1>1 DEF IInv, TInv, Owned
  <2>2. line[j] \in Opened /\ owner[line[j]] = owner[j] /\ opened \in Nat
    BY <2>1 DEF IInv, TInv, TypeOK, Owned
  <2>3. line[j] \in 1..(opened + 1)
    BY <2>2 DEF Opened
  <2> QED  BY <2>1, <2>2, <2>3 DEF Requests
<1>3. /\ pc' \in [Txns -> {"new", "reading", "rotating", "ending",
                           "revokingAll", "opening", "done"}]
      /\ request' \in [Txns -> Requests \union {NoRequest}]
      /\ \A x \in Txns : Running(x)' => x # t /\ Running(x) /\ request'[x] = request[x] /\ pc'[x] = pc[x]
  BY <1>1, GoType DEF IInv, TInv, Running
<1>4. request[t].user \notin raced =>
        /\ line[j] \notin closed
        /\ \A k \in Opened : line[k] = line[j] => row[k] # "live"
  BY <1>1 DEF IInv, Pending
<1>5. ASSUME request[t].user \notin raced, NEW x \in Txns, Running(x)', pc[x] # "revokingAll"
      PROVE  line[request[x].session] # line[j]
  <2>1. request[x].user # request[t].user
    BY <1>1, <1>2, <1>3, <1>5 DEF IInv, Alone
  <2>2. request[x].session \in Opened /\ owner[request[x].session] = request[x].user
    BY <1>3, <1>5 DEF IInv, TInv, Owned
  <2> QED  BY <1>2, <2>1, <2>2 DEF IInv, TInv, Owned
<1> QED  BY <1>1, <1>2, <1>3, <1>4, <1>5, OpenStep

LEMMA InvStep == IInv /\ [Next]_vars => IInv'
<1> SUFFICES ASSUME IInv, [Next]_vars PROVE IInv'
  OBVIOUS
<1>1. ASSUME NEW t \in Txns, StartRefresh(t) PROVE IInv'
  <2>1. PICK j \in Opened : Start(t, [kind |-> "refresh", user |-> owner[j], session |-> j], "reading")
    BY <1>1 DEF StartRefresh
  <2>2. [kind |-> "refresh", user |-> owner[j], session |-> j] \in Requests
    BY SessionsAssumption DEF IInv, TInv, TypeOK, Requests, Opened, Ids
  <2> QED  BY <2>1, <2>2, StartStep
<1>2. ASSUME NEW t \in Txns, StartLogout(t) PROVE IInv'
  <2>1. PICK j \in Opened, k \in Opened \union {NoSession} :
          /\ k # NoSession => owner[k] = owner[j]
          /\ Start(t, [kind |-> "logout", user |-> owner[j], session |-> k],
                   IF k = NoSession THEN "revokingAll" ELSE "reading")
    BY <1>2 DEF StartLogout
  <2>2. [kind |-> "logout", user |-> owner[j], session |-> k] \in Requests
    BY SessionsAssumption DEF IInv, TInv, TypeOK, Requests, Opened, Ids
  <2> QED  BY <2>1, <2>2, StartStep
<1>3. CASE UNCHANGED vars
  <2>1. UNCHANGED <<now, opened, owner, expires, line, row, pc, request, closed, raced>>
    BY <1>3 DEF vars, sessions
  <2>2. TypeOK'
    BY <2>1 DEF IInv, TInv, TypeOK, Opened
  <2>3. Owned' /\ GoodTokensKnown' /\ OneLive'
    BY <2>1 DEF IInv, TInv, Owned, GoodTokensKnown, OneLive, Opened, Running
  <2>4. Alone' /\ Pending'
    BY <2>1 DEF IInv, Alone, Pending, Opened, Running
  <2> QED  BY <2>2, <2>3, <2>4 DEF IInv, TInv
<1> QED  BY <1>1, <1>2, <1>3, ReadStep, RevokeStep, RevokeAllStep, LoseStep, CleanupStep, TickStep,
            LoginStep, OpenNextStep DEF Next

LEMMA Invariance == Spec => []IInv
  BY InvInit, InvStep, PTL DEF Spec

(* Every variable of the sessions keeps its type. *)
THEOREM SessionsTypeCorrect == Spec => []TypeOK
  BY Invariance, PTL DEF IInv, TInv

(* A refresh token that has not expired is never forgotten. *)
THEOREM GoodTokensStayKnown == Spec => []GoodTokensKnown
  BY Invariance, PTL DEF IInv

LEMMA LiveCounted == IInv => OneLivePerLogin
<1> SUFFICES ASSUME IInv, NEW l \in Opened, owner[l] \notin raced
             PROVE  Cardinality(Live(l)) <= IF l \in closed THEN 0 ELSE 1
  BY DEF OneLivePerLogin
<1>1. \A j, k \in Live(l) : j = k /\ l \notin closed
  BY DEF IInv, TInv, Owned, OneLive, Live
<1>2. CASE Live(l) = {}
  BY <1>2, FS_EmptySet
<1>3. CASE Live(l) # {}
  <2>1. PICK j : Live(l) = {j}
    BY <1>1, <1>3
  <2>2. Cardinality(Live(l)) = 1
    BY <2>1, FS_Singleton
  <2> QED  BY <1>1, <1>3, <2>2
<1> QED  BY <1>2, <1>3

(* However often a login is refreshed, lost between the two commits of a   *)
(* refresh or retried, it has one live session, and none once it is logged *)
(* out, unless a refresh of its user overlapped another request.           *)
THEOREM OneSessionLives == Spec => []OneLivePerLogin
  BY Invariance, LiveCounted, PTL

=============================================================================
