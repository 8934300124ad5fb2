-------------------------------- MODULE SignIn --------------------------------
(***************************************************************************)
(* The user row of one email address: logins with Microsoft that create or *)
(* rename it (app/services/auth_service.py), requests of an administrator  *)
(* that set its role (user_service.py), and the script that makes sure     *)
(* there is an administrator (scripts/seed_minimal_db.py).                 *)
(*                                                                         *)
(* A login is a coroutine.  Once it has Microsoft's keys it does not await *)
(* anything any more: no other login runs between its read of the user and *)
(* its commit.  But set_user_role runs on a thread, and the script in a    *)
(* process of its own.                                                     *)
(***************************************************************************)
EXTENDS JwksCache

CONSTANTS
    LoginNames,   \* names that Microsoft may give for the address
    AdminName,    \* admin_name of the script's settings
    Default,      \* auth_default_role_code
    Txns,         \* set_user_role requests
    Seeds,        \* runs of the script
    Nobody,       \* no login holds the event loop
    Absent        \* no such user

Roles == {"student", "lecturer", "admin"}
Row == [name : LoginNames \union {AdminName}, role : Roles]

ASSUME SignInAssumption == /\ Default \in Roles /\ Nobody \notin Logins
                           /\ Absent \notin Row /\ Txns \intersect Seeds = {}

VARIABLES
    user,      \* the committed row of the address
    loop,      \* the login that is between its read and its commit
    found,     \* the row as that login read it
    step,      \* step[x]: "new", "loaded" or "done", of requests and scripts
    copy,      \* copy[x]: the row as x read it
    ensured,   \* a script has made sure of the administrator
    raced      \* it did while a request of the API was at work on the user

people == <<user, loop, found, step, copy, ensured, raced>>
vars == <<jwks, people>>

Actors == Txns \union Seeds

SignInTypeOK ==
    /\ JwksTypeOK
    /\ user \in Row \union {Absent}
    /\ loop \in Logins \union {Nobody} /\ found \in Row \union {Absent}
    /\ loop = Nobody => found = Absent
    /\ step \in [Actors -> {"new", "loaded", "done"}]
    /\ copy \in [Actors -> Row \union {Absent}]
    /\ \A x \in Actors : step[x] # "loaded" => copy[x] = Absent
    /\ \A t \in Txns : step[t] = "loaded" => copy[t] # Absent
    /\ ensured \in BOOLEAN /\ raced \in BOOLEAN

Init == /\ JwksInit
        /\ user = Absent /\ loop = Nobody /\ found = Absent
        /\ step = [x \in Actors |-> "new"] /\ copy = [x \in Actors |-> Absent]
        /\ ensured = FALSE /\ raced = FALSE

(* What a session writes on a row: the columns it changed since it read.   *)
Changed(row, read, wanted) ==
    [name |-> IF wanted.name # read.name THEN wanted.name ELSE row.name,
     role |-> IF wanted.role # read.role THEN wanted.role ELSE row.role]

-----------------------------------------------------------------------------
(* exchange_code and the read of _get_or_create_user.  Claims without an   *)
(* address, or a token that the keys do not verify, end the login.         *)
ReadUser(c) == /\ loop' = c /\ found' = user
               /\ UNCHANGED <<user, step, copy, ensured, raced>>

Verify(c) == /\ loop = Nobody
             /\ Hit(c) \/ Store(c)
             /\ ReadUser(c) \/ UNCHANGED people

Await(c) == /\ loop = Nobody /\ (Miss(c) \/ FetchFails(c))
            /\ UNCHANGED people

MicrosoftAnswers(c) == Answer(c) /\ UNCHANGED people

(* Variant: an UPDATE of every column. *)
RenamedWhole(name) == [found EXCEPT !.name = name]

Renamed(name) == Changed(user, found, [found EXCEPT !.name = name])

(* The rest of _get_or_create_user.  The address is unique: an INSERT      *)
(* fails if a script has committed one meanwhile.  A default role that is  *)
(* missing, or a lost connection, ends the login, too.                     *)
CommitUser(c) ==
    /\ loop = c
    /\ \/ \E name \in LoginNames :
            \/ found # Absent /\ user' = Renamed(name)
            \/ found = Absent /\ user = Absent /\ user' = [name |-> name, role |-> Default]
       \/ UNCHANGED user
    /\ loop' = Nobody /\ found' = Absent
    /\ UNCHANGED <<jwks, step, copy, ensured, raced>>

-----------------------------------------------------------------------------
(* Variant: any role may be changed. *)
MutableAlways(row) == row \in Row

(* set_user_role reads the user and refuses for an administrator. *)
Mutable(row) == row.role # "admin"

LoadUser(t) == /\ step[t] = "new" /\ user # Absent
               /\ Mutable(user)
               /\ step' = [step EXCEPT ![t] = "loaded"]
               /\ copy' = [copy EXCEPT ![t] = user]
               /\ UNCHANGED <<jwks, user, loop, found, ensured, raced>>

(* Variant: the session outlives the request, with the row it loaded. *)
EndKeepingCopy(x) == /\ step' = [step EXCEPT ![x] = "done"]
                     /\ UNCHANGED <<jwks, loop, found, copy>>

End(x) == /\ step' = [step EXCEPT ![x] = "done"]
          /\ copy' = [copy EXCEPT ![x] = Absent]
          /\ UNCHANGED <<jwks, loop, found>>

(* The role asked for is one that may be assigned; with the role the user  *)
(* had there is nothing to write.  UPDATE and commit are one step: between *)
(* them only other writers of the row wait.                                *)
SetRole(t) == \E role \in {"student", "lecturer"} :
    /\ step[t] = "loaded"
    /\ user' = Changed(user, copy[t], [copy[t] EXCEPT !.role = role])
    /\ End(t)
    /\ UNCHANGED <<ensured, raced>>

(* _ensure_admin_user, up to the commit of the script's transaction. *)
ReadAdmin(s) == /\ step[s] = "new"
                /\ step' = [step EXCEPT ![s] = "loaded"]
                /\ copy' = [copy EXCEPT ![s] = user]
                /\ UNCHANGED <<jwks, user, loop, found, ensured, raced>>

Admin == [name |-> AdminName, role |-> "admin"]
AtWork == \E t \in Txns : step[t] = "loaded"

(* A login that created the address meanwhile makes the script fail. *)
EnsureAdmin(s) ==
    /\ step[s] = "loaded"
    /\ IF copy[s] = Absent /\ user # Absent THEN UNCHANGED <<user, ensured, raced>>
       ELSE /\ user' = IF copy[s] = Absent THEN Admin ELSE Changed(user, copy[s], Admin)
            /\ ensured' = TRUE
            /\ raced' = (AtWork \/ (raced /\ copy[s] # Absent /\ copy[s].role = "admin"))
    /\ End(s)

TimePasses == Tick /\ UNCHANGED people

Next == \/ TimePasses
        \/ \E c \in Logins : Verify(c) \/ Await(c) \/ MicrosoftAnswers(c) \/ CommitUser(c)
        \/ \E t \in Txns : LoadUser(t) \/ SetRole(t)
        \/ \E s \in Seeds : ReadAdmin(s) \/ EnsureAdmin(s)

Spec == Init /\ [][Next]_vars

-----------------------------------------------------------------------------
(* A login works on a copy of the user that a request or a script may have *)
(* overtaken; still it never takes back the role that was set meanwhile,   *)
(* nor does one that lost the race for the address replace the winner.     *)
RoleSurvivesLogin ==
    [][\A c \in Logins : CommitUser(c) /\ user # Absent => user'.role = user.role]_vars

(* seed_minimal_db.py:67, "Guarantee at least one admin user exists", and  *)
(* user_service.py:27, "Admin role cannot be changed via API": once the    *)
(* script is done the user is an administrator for good, unless a request  *)
(* for another role had read the user before.                              *)
AdminUnlessRaced == ensured /\ ~raced => user # Absent /\ user.role = "admin"

=============================================================================
