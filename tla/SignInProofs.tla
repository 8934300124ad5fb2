----------------------------- MODULE SignInProofs -----------------------------
(* Proofs about the two models of the API's event loop: SignIn and the key *)
(* cache it is made of, for any logins, requests, runs of the script,      *)
(* names and default role, any time to live; and ApiProcess, for any       *)
(* clients and any numbers of slots and connections.                       *)
EXTENDS SignIn, ApiProcess, FiniteSetTheorems, TLAPS

(* A key set in the cache expires no later than its time to live after     *)
(* Microsoft served it: a login calls before Microsoft answers.            *)
Stamped == /\ cache # NoKeys => expiresAt <= cache + Ttl
           /\ \A c \in Logins :
                /\ pc[c] = "fetching" => called[c] <= now
                /\ pc[c] = "storing" => answer[c] # NoKeys /\ called[c] <= answer[c]

(* Nothing deletes the user: who has read it can still write it. *)
StillThere == (found # Absent \/ \E x \in Actors : copy[x] # Absent) => user # Absent

(* No request is at work on an administrator, except one that raced; and   *)
(* a script that has read an administrator has no role to write.           *)
AdminsAlone ==
    ~raced => /\ user # Absent /\ user.role = "admin" => ~AtWork
              /\ \A s \in Seeds : copy[s] # Absent /\ copy[s].role = "admin" => user.role = "admin"

(* What SignInTypeOK says of the variables of SignIn itself. *)
PeopleOK ==
    /\ user \in Row \union {Absent}
    /\ loop \in Logins \union {Nobody} /\ found \in Row \union {Absent}
    /\ loop = Nobody => found = Absent
    /\ step \in [Actors -> {"new", "loaded", "done"}]
    /\ copy \in [Actors -> Row \union {Absent}]
    /\ \A x \in Actors : step[x] # "loaded" => copy[x] = Absent
    /\ \A t \in Txns : step[t] = "loaded" => copy[t] # Absent
    /\ ensured \in BOOLEAN /\ raced \in BOOLEAN

JInv == JwksTypeOK /\ Stamped
PInv == PeopleOK /\ StillThere /\ AdminsAlone /\ AdminUnlessRaced
IInv == JInv /\ PInv

-----------------------------------------------------------------------------
LEMMA ChangedType == ASSUME NEW r \in Row, NEW read \in Row, NEW wanted \in Row
                     PROVE  /\ Changed(r, read, wanted) \in Row
                            /\ Changed(r, read, wanted).role =
                                 IF wanted.role # read.role THEN wanted.role ELSE r.role
  BY DEF Changed, Row

LEMMA RenamedRole == ASSUME PInv, found # Absent, user # Absent, NEW name \in LoginNames
                     PROVE  Renamed(name) \in Row /\ Renamed(name).role = user.role
<1>1. /\ user \in Row /\ found \in Row
      /\ [found EXCEPT !.name = name] \in Row
      /\ [found EXCEPT !.name = name].role = found.role
  BY DEF PInv, PeopleOK, Row
<1> QED  BY <1>1, ChangedType DEF Renamed

LEMMA Present == ASSUME NEW r \in Row PROVE r # Absent
  BY SignInAssumption

-----------------------------------------------------------------------------
(* The key cache. *)

LEMMA KeysInit == JwksInit => JInv
  BY JwksAssumption DEF JwksInit, JInv, JwksTypeOK, Stamped, Keys

LEMMA KeysStep ==
    ASSUME JInv,
           \/ Tick \/ UNCHANGED jwks
           \/ \E c \in Logins : Hit(c) \/ Miss(c) \/ Answer(c) \/ FetchFails(c) \/ Store(c)
    PROVE  JInv'
<1> USE JwksAssumption DEF JInv, JwksTypeOK, Stamped, Keys
<1>1. CASE Tick
  BY <1>1 DEF Tick
<1>2. CASE UNCHANGED jwks
  BY <1>2 DEF jwks
<1>3. ASSUME NEW c \in Logins, Hit(c) PROVE JInv'
  BY <1>3 DEF Hit, jwks
<1>4. ASSUME NEW c \in Logins, Miss(c) PROVE JInv'
  BY <1>4 DEF Miss
<1>5. ASSUME NEW c \in Logins, Answer(c) PROVE JInv'
  BY <1>5 DEF Answer
<1>6. ASSUME NEW c \in Logins, FetchFails(c) PROVE JInv'
  BY <1>6 DEF FetchFails
<1>7. ASSUME NEW c \in Logins, Store(c) PROVE JInv'
  BY <1>7 DEF Store, Expiry
<1> QED  BY <1>1, <1>2, <1>3, <1>4, <1>5, <1>6, <1>7

LEMMA KeysRecent == JInv => CachedKeysAreRecent
  BY JwksAssumption DEF JInv, JwksTypeOK, Stamped, Keys, CachedKeysAreRecent, Fresh

-----------------------------------------------------------------------------
(* The user. *)

LEMMA PeopleInit == Init => PInv
  BY SignInAssumption DEF Init, PInv, PeopleOK, StillThere, AdminsAlone, AdminUnlessRaced,
     AtWork, Actors

LEMMA ReadStep == ASSUME PInv, NEW c \in Logins, ReadUser(c) PROVE PInv'
  BY SignInAssumption DEF ReadUser, PInv, PeopleOK, StillThere, AdminsAlone,
     AdminUnlessRaced, AtWork

LEMMA CommitStep == ASSUME PInv, NEW c \in Logins, CommitUser(c) PROVE PInv'
<1>1. CASE UNCHANGED user
  BY <1>1 DEF CommitUser, PInv, PeopleOK, StillThere, AdminsAlone,
     AdminUnlessRaced, AtWork
<1>2. ASSUME NEW name \in LoginNames, found # Absent, user' = Renamed(name) PROVE PInv'
  <2>1. user # Absent
    BY <1>2 DEF PInv, StillThere
  <2>2. user' \in Row /\ user'.role = user.role
    BY <1>2, <2>1, RenamedRole
  <2> QED  BY <2>1, <2>2, Present DEF CommitUser, PInv, PeopleOK,
           StillThere, AdminsAlone, AdminUnlessRaced, AtWork
<1>3. ASSUME NEW name \in LoginNames, user = Absent,
             user' = [name |-> name, role |-> Default]
      PROVE  PInv'
  <2>1. user' \in Row
    BY <1>3, SignInAssumption DEF Row
  <2>2. \A x \in Actors : copy[x] = Absent
    BY <1>3 DEF PInv, StillThere
  <2>3. ~AtWork
    BY <2>2 DEF AtWork, Actors, PInv, PeopleOK
  <2> QED  BY <1>3, <2>1, <2>2, <2>3, Present DEF CommitUser, PInv, PeopleOK,
           StillThere, AdminsAlone, AdminUnlessRaced, AtWork, Actors
<1> QED  BY <1>1, <1>2, <1>3 DEF CommitUser

LEMMA LoadStep == ASSUME PInv, NEW t \in Txns, LoadUser(t) PROVE PInv'
<1>1. user \in Row /\ user.role # "admin" /\ t \in Actors /\ t \notin Seeds
  BY SignInAssumption DEF LoadUser, Mutable, PInv, PeopleOK, Actors
<1> QED  BY <1>1, Present DEF LoadUser, PInv, PeopleOK, StillThere, AdminsAlone,
         AdminUnlessRaced, AtWork, Actors

LEMMA SetStep == ASSUME PInv, NEW t \in Txns, SetRole(t) PROVE PInv'
<1>1. PICK role \in {"student", "lecturer"} :
        /\ step[t] = "loaded"
        /\ user' = Changed(user, copy[t], [copy[t] EXCEPT !.role = role])
        /\ End(t) /\ UNCHANGED <<ensured, raced>>
  BY DEF SetRole
<1>2. t \in Actors /\ t \notin Seeds /\ copy[t] \in Row /\ user \in Row /\ AtWork
  BY <1>1, SignInAssumption DEF PInv, PeopleOK, StillThere, Actors, AtWork
<1>3. /\ [copy[t] EXCEPT !.role = role] \in Row
      /\ [copy[t] EXCEPT !.role = role].role = role
  <2>1. role \in Roles
    BY DEF Roles
  <2> QED  BY <1>2, <2>1 DEF Row
<1>4. user' \in Row /\ user'.role \in {role, user.role}
  <2> DEFINE wanted == [copy[t] EXCEPT !.role = role]
  <2>1. wanted \in Row /\ wanted.role = role /\ user' = Changed(user, copy[t], wanted)
    BY <1>1, <1>3
  <2> HIDE DEF wanted
  <2> QED  BY <1>2, <2>1, ChangedType
<1>5. ~raced => user.role # "admin" /\ user'.role # "admin"
  BY <1>2, <1>4, Present DEF PInv, AdminsAlone
<1>6. PeopleOK' /\ StillThere'
  BY <1>1, <1>2, <1>4, Present DEF End, PInv, PeopleOK, StillThere, Actors
<1>7. ~raced => ~ensured /\ \A s \in Seeds : ~(copy[s] # Absent /\ copy[s].role = "admin")
  BY <1>2, <1>5 DEF PInv, AdminsAlone, AdminUnlessRaced
<1>8. \A s \in Seeds : copy'[s] = copy[s]
  BY <1>1, <1>2 DEF End, PInv, PeopleOK, Actors
<1> QED  BY <1>1, <1>5, <1>6, <1>7, <1>8 DEF PInv, AdminsAlone, AdminUnlessRaced

LEMMA ReadAdminStep == ASSUME PInv, NEW s \in Seeds, ReadAdmin(s) PROVE PInv'
<1>1. s \in Actors /\ s \notin Txns
  BY SignInAssumption DEF Actors
<1> QED  BY <1>1 DEF ReadAdmin, PInv, PeopleOK, StillThere, AdminsAlone, AdminUnlessRaced,
         AtWork, Actors

LEMMA EnsureStep == ASSUME PInv, NEW s \in Seeds, EnsureAdmin(s) PROVE PInv'
<1>1. s \in Actors /\ s \notin Txns /\ step[s] = "loaded" /\ End(s)
  BY SignInAssumption DEF Actors, EnsureAdmin
<1>2. CASE copy[s] = Absent /\ user # Absent
  BY <1>1, <1>2, SignInAssumption DEF EnsureAdmin, End, PInv, PeopleOK, StillThere,
     AdminsAlone, AdminUnlessRaced, AtWork, Actors
<1>3. CASE ~(copy[s] = Absent /\ user # Absent)
  <2>1. /\ user' = IF copy[s] = Absent THEN Admin ELSE Changed(user, copy[s], Admin)
        /\ ensured' = TRUE
        /\ raced' = (AtWork \/ (raced /\ copy[s] # Absent /\ copy[s].role = "admin"))
    BY <1>3 DEF EnsureAdmin
  <2>2. Admin \in Row /\ Admin.role = "admin"
    BY DEF Admin, Row, Roles
  <2>4. user' \in Row /\ (~raced' => user'.role = "admin")
    <3>1. CASE copy[s] = Absent
      BY <2>1, <2>2, <3>1
    <3>2. CASE copy[s] # Absent
      <4>1. user \in Row /\ copy[s] \in Row
        BY <1>1, <3>2 DEF PInv, PeopleOK, StillThere
      <4>2. /\ user' \in Row
            /\ user'.role = IF "admin" # copy[s].role THEN "admin" ELSE user.role
        BY <2>1, <2>2, <3>2, <4>1, ChangedType
      <4>3. copy[s].role = "admin" /\ ~raced => user.role = "admin"
        BY <3>2 DEF PInv, AdminsAlone
      <4> QED  BY <2>1, <3>2, <4>2, <4>3
    <3> QED  BY <3>1, <3>2
  <2>5. PeopleOK' /\ StillThere'
    BY <1>1, <2>1, <2>4, Present DEF End, PInv, PeopleOK, StillThere, Actors
  <2>6. AtWork' = AtWork
    BY <1>1 DEF End, AtWork, PInv, PeopleOK, Actors
  <2>7. ~raced' => ~AtWork
    BY <2>1
  <2> QED  BY <2>1, <2>4, <2>5, <2>6, <2>7, Present DEF PInv, AdminsAlone, AdminUnlessRaced
<1> QED  BY <1>2, <1>3

-----------------------------------------------------------------------------
LEMMA InvInit == Init => IInv
  BY KeysInit, PeopleInit DEF IInv, Init

LEMMA PeopleUnchanged == PInv /\ UNCHANGED people => PInv'
  BY DEF people, PInv, PeopleOK, StillThere, AdminsAlone, AdminUnlessRaced, AtWork

LEMMA InvStep == IInv /\ [Next]_vars => IInv'
<1> SUFFICES ASSUME IInv, [Next]_vars PROVE IInv'
  OBVIOUS
<1>0. JInv /\ PInv
  BY DEF IInv
<1>1. CASE TimePasses
  BY <1>0, <1>1, KeysStep, PeopleUnchanged DEF IInv, TimePasses
<1>2. ASSUME NEW c \in Logins, Verify(c) PROVE IInv'
  BY <1>0, <1>2, KeysStep, PeopleUnchanged, ReadStep DEF IInv, Verify
<1>3. ASSUME NEW c \in Logins, Await(c) PROVE IInv'
  BY <1>0, <1>3, KeysStep, PeopleUnchanged DEF IInv, Await
<1>4. ASSUME NEW c \in Logins, MicrosoftAnswers(c) PROVE IInv'
  BY <1>0, <1>4, KeysStep, PeopleUnchanged DEF IInv, MicrosoftAnswers
<1>5. ASSUME NEW c \in Logins, CommitUser(c) PROVE IInv'
  BY <1>0, <1>5, KeysStep, CommitStep DEF IInv, CommitUser
<1>6. ASSUME NEW t \in Txns, LoadUser(t) PROVE IInv'
  BY <1>0, <1>6, KeysStep, LoadStep DEF IInv, LoadUser
<1>7. ASSUME NEW t \in Txns, SetRole(t) PROVE IInv'
  <2>1. UNCHANGED jwks
    BY <1>7 DEF SetRole, End
  <2> QED  BY <1>0, <1>7, <2>1, KeysStep, SetStep DEF IInv
<1>8. ASSUME NEW s \in Seeds, ReadAdmin(s) PROVE IInv'
  BY <1>0, <1>8, KeysStep, ReadAdminStep DEF IInv, ReadAdmin
<1>9. ASSUME NEW s \in Seeds, EnsureAdmin(s) PROVE IInv'
  <2>1. UNCHANGED jwks
    BY <1>9 DEF EnsureAdmin, End
  <2> QED  BY <1>0, <1>9, <2>1, KeysStep, EnsureStep DEF IInv
<1>10. CASE UNCHANGED vars
  BY <1>0, <1>10, KeysStep, PeopleUnchanged DEF IInv, vars
<1> QED  BY <1>1, <1>2, <1>3, <1>4, <1>5, <1>6, <1>7, <1>8, <1>9, <1>10 DEF Next

LEMMA Invariance == Spec => []IInv
  BY InvInit, InvStep, PTL DEF Spec

(* Every variable of a sign-in keeps its type. *)
THEOREM SignInTypeCorrect == Spec => []SignInTypeOK
<1>1. IInv => SignInTypeOK
  BY DEF IInv, JInv, PInv, PeopleOK, SignInTypeOK
<1> QED  BY <1>1, Invariance, PTL

(* _get_jwks serves no keys older than the time to live, however many      *)
(* logins fetch and store them in whatever order.                          *)
THEOREM KeysStayRecent == Spec => []CachedKeysAreRecent
<1>1. IInv => CachedKeysAreRecent
  BY KeysRecent DEF IInv
<1> QED  BY <1>1, Invariance, PTL

(* The administrator whom seed_minimal_db.py ensures stays one, whoever    *)
(* signs in and whatever roles are asked for, unless a request had read    *)
(* the user before.                                                        *)
THEOREM AdminStays == Spec => []AdminUnlessRaced
  BY Invariance, PTL DEF IInv, PInv

LEMMA RoleStep ==
    IInv /\ [Next]_vars =>
      [\A c \in Logins : CommitUser(c) /\ user # Absent => user'.role = user.role]_vars
  BY RenamedRole DEF IInv, PInv, StillThere, CommitUser

(* A login never takes back a role that a request or the script gave the   *)
(* user after the login had read it.                                       *)
THEOREM LoginKeepsRole == Spec => RoleSurvivesLogin
  BY Invariance, RoleStep, PTL DEF Spec, RoleSurvivesLogin

-----------------------------------------------------------------------------
(* The process. *)

InSlots == {r \in Requests : stage[r] \in InSlot}

(* The pool and the slots are never overdrawn. *)
Accounts == /\ IsFiniteSet(out) /\ IsFiniteSet(InSlots)

(* The stop event is set when the last request has ended. *)
Quiet == phase = "stopping" => \A c \in Clients : stage[c] = "away"

ProcessInv == ProcessTypeOK /\ Accounts /\ Quiet /\ NothingLeaks

LEMMA ProcessStart == ProcessInit => ProcessInv
<1> SUFFICES ASSUME ProcessInit PROVE ProcessInv
  OBVIOUS
<1>1. InSlots = {}
  BY DEF ProcessInit, InSlots, InSlot, Waiting, Clients
<1>2. ProcessTypeOK /\ Accounts
  BY <1>1, FS_EmptySet, ProcessAssumption
  DEF ProcessInit, ProcessTypeOK, Accounts, InSlots, States, Clients, TaskStates
<1>3. Quiet /\ NothingLeaks
  BY DEF ProcessInit, Quiet, NothingLeaks, InSession
<1> QED  BY <1>2, <1>3 DEF ProcessInv

(* A client that goes on takes a slot only while one is free. *)
LEMMA ClientGoes ==
    ASSUME ProcessInv, NEW c \in Clients, NEW from \in States, NEW to \in States,
           Goes(c, from, to),
           from \in InSlot \/ to \notin InSlot \/ SlotFree \/ c \in LoginClients
    PROVE  /\ stage' \in [Clients -> States] /\ stage'[c] = to
           /\ \A d \in Clients \ {c} : stage'[d] = stage[d]
           /\ IsFiniteSet(InSlots') /\ Cardinality(InSlots') <= Slots
<1>1. stage[c] = from /\ stage' = [stage EXCEPT ![c] = to] /\ stage \in [Clients -> States]
  BY DEF Goes, ProcessInv, ProcessTypeOK
<1>2. IsFiniteSet(InSlots) /\ Cardinality(InSlots) <= Slots /\ Cardinality(InSlots) \in Nat
  BY FS_CardinalityType DEF ProcessInv, Accounts, ProcessTypeOK, InSlots
<1>3. Requests \subseteq Clients
  BY DEF Clients
<1>4. CASE SlotFree
  <2>1. InSlots' \subseteq InSlots \union {c}
    BY <1>1, <1>3 DEF InSlots
  <2>2. /\ IsFiniteSet(InSlots \union {c})
        /\ Cardinality(InSlots \union {c}) <= Cardinality(InSlots) + 1
    <3> HIDE DEF InSlots
    <3>1. IsFiniteSet(InSlots) /\ Cardinality(InSlots) \in Nat
      BY <1>2
    <3>2. /\ IsFiniteSet(InSlots \union {c})
          /\ Cardinality(InSlots \union {c}) =
               IF c \in InSlots THEN Cardinality(InSlots) ELSE Cardinality(InSlots) + 1
      BY <3>1, FS_AddElement
    <3> QED  BY <3>1, <3>2
  <2>3. IsFiniteSet(InSlots') /\ Cardinality(InSlots') <= Cardinality(InSlots \union {c})
    BY <2>1, <2>2, FS_Subset
  <2>4. /\ Cardinality(InSlots') \in Nat /\ Cardinality(InSlots \union {c}) \in Nat
        /\ Cardinality(InSlots) < Slots
    BY <1>4, <2>2, <2>3, FS_CardinalityType DEF SlotFree, InSlots
  <2> QED  BY <1>1, <1>2, <2>2, <2>3, <2>4, ProcessAssumption
<1>5. CASE from \in InSlot \/ to \notin InSlot \/ c \in LoginClients
  <2>1. InSlots' \subseteq InSlots
    BY <1>1, <1>3, <1>5, ProcessAssumption DEF InSlots
  <2>2. IsFiniteSet(InSlots') /\ Cardinality(InSlots') <= Cardinality(InSlots)
    BY <1>2, <2>1, FS_Subset
  <2>3. Cardinality(InSlots') \in Nat
    BY <2>2, FS_CardinalityType
  <2> QED  BY <1>1, <1>2, <2>2, <2>3, ProcessAssumption
<1> QED  BY <1>4, <1>5

(* Who takes a connection finds one left; who gives it back makes room. *)
LEMMA Takes ==
    ASSUME ProcessInv, CanTake, NEW x \in Clients \union {Sender, Cleanup}, out' = out \union {x}
    PROVE  /\ IsFiniteSet(out') /\ Cardinality(out') <= Connections
           /\ out' \subseteq Clients \union {Sender, Cleanup}
<1>1. IsFiniteSet(out) /\ Cardinality(out) \in Nat /\ Cardinality(out) < Connections
  BY FS_CardinalityType DEF ProcessInv, Accounts, CanTake
<1>2. IsFiniteSet(out \union {x}) /\ Cardinality(out \union {x}) <= Cardinality(out) + 1
  BY <1>1, FS_AddElement
<1>3. Cardinality(out \union {x}) \in Nat
  BY <1>2, FS_CardinalityType
<1> QED  BY <1>1, <1>2, <1>3, ProcessAssumption DEF ProcessInv, ProcessTypeOK

LEMMA GivesBack ==
    ASSUME ProcessInv, out' \subseteq out
    PROVE  /\ IsFiniteSet(out') /\ Cardinality(out') <= Connections
           /\ out' \subseteq Clients \union {Sender, Cleanup}
<1>1. IsFiniteSet(out) /\ Cardinality(out) \in Nat /\ Cardinality(out) <= Connections
  BY FS_CardinalityType DEF ProcessInv, Accounts, ProcessTypeOK
<1>2. IsFiniteSet(out') /\ Cardinality(out') <= Cardinality(out)
  BY <1>1, FS_Subset
<1>3. Cardinality(out') \in Nat
  BY <1>2, FS_CardinalityType
<1> QED  BY <1>1, <1>2, <1>3, ProcessAssumption DEF ProcessInv, ProcessTypeOK

(* A step of a client that is not away, or that arrives while the process  *)
(* serves.                                                                 *)
LEMMA ClientStep ==
    ASSUME ProcessInv, NEW c \in Clients, NEW from \in States, NEW to \in States,
           Goes(c, from, to),
           from \in InSlot \/ to \notin InSlot \/ SlotFree \/ c \in LoginClients,
           from # "away" \/ phase = "serving",
           turn' \in LoginClients \union {Cleanup, Free}, UNCHANGED <<phase, task>>,
           \/ out' \subseteq out
           \/ CanTake /\ out' = out \union {c} /\ to \notin {"away", "arrived", "exchanging"},
           to \in {"away", "arrived", "exchanging"} => c \notin out'
    PROVE  ProcessInv'
<1>1. /\ stage' \in [Clients -> States] /\ stage'[c] = to /\ stage[c] = from
      /\ \A d \in Clients \ {c} : stage'[d] = stage[d]
      /\ IsFiniteSet(InSlots') /\ Cardinality(InSlots') <= Slots
  BY ClientGoes DEF Goes
<1>2. /\ IsFiniteSet(out') /\ Cardinality(out') <= Connections
      /\ out' \subseteq Clients \union {Sender, Cleanup}
  BY Takes, GivesBack
<1>3. ProcessTypeOK' /\ Accounts'
  BY <1>1, <1>2 DEF ProcessInv, ProcessTypeOK, Accounts, InSlots
<1>4. phase \in {"serving", "draining"}
  BY <1>1 DEF ProcessInv, ProcessTypeOK, Quiet, NothingLeaks
<1>5. \A d \in Clients : stage'[d] \in {"away", "arrived", "exchanging"} => d \notin out'
  BY <1>1 DEF ProcessInv, NothingLeaks
<1>6. \A k \in {Sender, Cleanup} : task'[k] \notin InSession => k \notin out'
  BY ProcessAssumption DEF ProcessInv, NothingLeaks
<1> QED  BY <1>3, <1>4, <1>5, <1>6 DEF ProcessInv, Quiet, NothingLeaks

(* A step of a task that has not ended. *)
LEMMA OneTaskStep ==
    ASSUME ProcessInv, NEW k \in {Sender, Cleanup}, NEW from, NEW to, Steps(k, from, to),
           from # "ended", to \in TaskStates,
           turn' \in LoginClients \union {Cleanup, Free}, UNCHANGED <<phase, stage>>,
           \/ out' \subseteq out /\ to \notin InSession /\ k \notin out'
           \/ CanTake /\ out' = out \union {k} /\ to \in InSession
    PROVE  ProcessInv'
<1>1. /\ task[k] = from /\ task'[k] = to
      /\ \A j \in {Sender, Cleanup} \ {k} : task'[j] = task[j]
      /\ task' \in [{Sender, Cleanup} -> TaskStates]
  BY DEF Steps, ProcessInv, ProcessTypeOK
<1>2. /\ IsFiniteSet(out') /\ Cardinality(out') <= Connections
      /\ out' \subseteq Clients \union {Sender, Cleanup}
  BY Takes, GivesBack
<1>3. InSlots' = InSlots
  BY DEF InSlots
<1>4. ProcessTypeOK' /\ Accounts'
  BY <1>1, <1>2, <1>3 DEF ProcessInv, ProcessTypeOK, Accounts, InSlots
<1>5. phase # "down"
  BY <1>1 DEF ProcessInv, NothingLeaks
<1>6. \A c \in Clients : stage'[c] \in {"away", "arrived", "exchanging"} => c \notin out'
  BY ProcessAssumption DEF ProcessInv, NothingLeaks
<1>7. \A j \in {Sender, Cleanup} : task'[j] \notin InSession => j \notin out'
  BY <1>1 DEF ProcessInv, NothingLeaks
<1> QED  BY <1>4, <1>5, <1>6, <1>7 DEF ProcessInv, Quiet, NothingLeaks

(* The process starts, is told to stop, stops or crashes. *)
LEMMA PhaseStep ==
    ASSUME ProcessInv, Startup \/ Signal \/ SetStopEvent \/ Exit \/ Crash
    PROVE  ProcessInv'
<1>1. CASE Startup
  <2>1. /\ phase' = "serving" /\ UNCHANGED <<turn, stage, out>> /\ phase = "down"
        /\ task' \in [{Sender, Cleanup} -> TaskStates]
    BY <1>1 DEF Startup, TaskStates
  <2>2. \A k \in {Sender, Cleanup} : k \notin out
    BY <2>1 DEF ProcessInv, NothingLeaks, InSession
  <2>3. ProcessTypeOK' /\ Accounts'
    BY <2>1 DEF ProcessInv, ProcessTypeOK, Accounts, InSlots
  <2> QED  BY <2>1, <2>2, <2>3 DEF ProcessInv, Quiet, NothingLeaks
<1>2. CASE Signal
  BY <1>2 DEF Signal, ProcessInv, ProcessTypeOK, Accounts, InSlots, Quiet, NothingLeaks
<1>3. CASE SetStopEvent
  BY <1>3 DEF SetStopEvent, ProcessInv, ProcessTypeOK, Accounts, InSlots, Quiet, NothingLeaks
<1>4. CASE Exit
  BY <1>4 DEF Exit, Stopped, ProcessInv, ProcessTypeOK, Accounts, InSlots, Quiet, NothingLeaks
<1>5. CASE Crash
  <2>1. /\ phase' = "down" /\ turn' = Free /\ out' = {}
        /\ stage' = [c \in Clients |-> "away"]
        /\ task' = [k \in {Sender, Cleanup} |-> "ended"]
    BY <1>5 DEF Crash
  <2>2. InSlots' = {}
    BY <2>1 DEF InSlots, InSlot, Waiting, Clients
  <2>3. ProcessTypeOK' /\ Accounts'
    BY <2>1, <2>2, FS_EmptySet, ProcessAssumption
    DEF ProcessTypeOK, Accounts, InSlots, States, Clients, TaskStates
  <2>4. Quiet' /\ NothingLeaks'
    BY <2>1 DEF Quiet, NothingLeaks, InSession
  <2> QED  BY <2>3, <2>4 DEF ProcessInv
<1> QED  BY <1>1, <1>2, <1>3, <1>4, <1>5

LEMMA LoopActions ==
    ASSUME ProcessInv, NEW c \in Clients, Arrive(c) \/ LoopStep(c)
    PROVE  ProcessInv'
<1>1. turn \in LoginClients \union {Cleanup, Free}
  BY DEF ProcessInv, ProcessTypeOK
<1>2. CASE Arrive(c)
  <2>1. stage[c] = "away" => c \notin out
    BY DEF ProcessInv, NothingLeaks
  <2>2. CASE c \in LoginClients
    <3>1. Goes(c, "away", "exchanging")
      BY <1>2, <2>2 DEF Arrive
    <3>2. "away" \in States /\ "exchanging" \in States /\ "exchanging" \notin InSlot
      BY DEF States, InSlot, Waiting
    <3>3. c \notin out
      BY <2>1, <3>1 DEF Goes
    <3> QED  BY <1>1, <1>2, <3>1, <3>2, <3>3, ClientStep DEF Arrive
  <2>3. CASE c \notin LoginClients
    <3>1. Goes(c, "away", "arrived")
      BY <1>2, <2>3 DEF Arrive
    <3>2. "away" \in States /\ "arrived" \in States /\ "arrived" \notin InSlot
      BY DEF States, InSlot, Waiting
    <3>3. c \notin out
      BY <2>1, <3>1 DEF Goes
    <3> QED  BY <1>1, <1>2, <3>1, <3>2, <3>3, ClientStep DEF Arrive
  <2> QED  BY <2>2, <2>3
<1>3. CASE Authenticate(c)
  BY <1>1, <1>3, ClientStep DEF Authenticate, States, InSlot, Waiting
<1>4. CASE Handle(c)
  BY <1>1, <1>4, ClientStep DEF Handle, States, InSlot, Waiting
<1>5. CASE Authenticated(c)
  <2>1. PICK to \in {"authorized", "closing"} : Goes(c, "connected", to)
    BY <1>5 DEF Authenticated
  <2>2. to \in States /\ "connected" \in States /\ to \notin {"away", "arrived", "exchanging"}
    BY DEF States, InSlot, Waiting
  <2> QED  BY <1>1, <1>5, <2>1, <2>2, ClientStep DEF Authenticated, InSlot
<1>6. CASE Return(c)
  BY <1>1, <1>6, ClientStep DEF Return, States, InSlot, Waiting
<1>7. CASE Close(c)
  BY <1>1, <1>7, ClientStep DEF Close, States, InSlot, Waiting
<1>8. CASE SignIn(c)
  <2>1. CASE Goes(c, "exchanging", "connecting") /\ turn' = c
    BY <1>1, <1>8, <2>1, ClientStep DEF SignIn, States, InSlot, Waiting
  <2>2. CASE Goes(c, "exchanging", "closing") /\ turn' = turn
    BY <1>1, <1>8, <2>2, ClientStep DEF SignIn, States, InSlot, Waiting
  <2> QED  BY <1>8, <2>1, <2>2 DEF SignIn
<1> QED  BY <1>2, <1>3, <1>4, <1>5, <1>6, <1>7, <1>8 DEF LoopStep

LEMMA OwnActions == ASSUME ProcessInv, NEW c \in Clients, OwnStep(c) PROVE ProcessInv'
<1>1. turn \in LoginClients \union {Cleanup, Free}
  BY DEF ProcessInv, ProcessTypeOK
<1>2. CASE TakeConnection(c)
  <2>1. PICK from \in Waiting, to \in {"handling", "connected", "ran"} : Goes(c, from, to)
    BY <1>2 DEF TakeConnection, Waiting
  <2>2. /\ from \in States /\ from \in InSlot /\ from # "away" /\ to \in States
        /\ to \notin {"away", "arrived", "exchanging"}
    BY DEF States, InSlot, Waiting
  <2> QED  BY <1>1, <1>2, <2>1, <2>2, ClientStep DEF TakeConnection
<1>3. CASE Deny(c)
  BY <1>1, <1>3, ClientStep DEF Deny, States, InSlot, Waiting
<1>4. CASE PoolTimeout(c)
  <2>1. PICK from \in Waiting : Goes(c, from, "ran")
    BY <1>4 DEF PoolTimeout
  <2>2. from \in States /\ from \in InSlot /\ from # "away" /\ "ran" \in States
    BY DEF States, InSlot, Waiting
  <2> QED  BY <1>1, <1>4, <2>1, <2>2, ClientStep DEF PoolTimeout
<1>5. CASE RunHandler(c)
  <2>1. PICK to \in {"ran", "refreshing"} : Goes(c, "handling", to)
    BY <1>5 DEF RunHandler
  <2>2. /\ "handling" \in States /\ "handling" \in InSlot /\ to \in States
        /\ to \notin {"away", "arrived", "exchanging"}
    BY DEF States, InSlot, Waiting
  <2>3. out' \subseteq out
    BY <1>5 DEF RunHandler
  <2> QED  BY <1>1, <1>5, <2>1, <2>2, <2>3, ClientStep DEF RunHandler
<1>6. CASE SignedIn(c)
  BY <1>1, <1>6, ClientStep DEF SignedIn, States, InSlot, Waiting
<1> QED  BY <1>2, <1>3, <1>4, <1>5, <1>6 DEF OwnStep

LEMMA TaskActions ==
    ASSUME ProcessInv, NEW k \in {Sender, Cleanup}, Wake(k) \/ TaskStep(k) \/ Sleep(k)
    PROVE  ProcessInv'
<1>1. turn \in LoginClients \union {Cleanup, Free}
  BY DEF ProcessInv, ProcessTypeOK
<1>2. task[k] \notin InSession => k \notin out
  BY DEF ProcessInv, NothingLeaks
<1>3. CASE Wake(k)
  <2>1. PICK to \in {"ended", "connecting"} : Steps(k, "waiting", to)
    BY <1>3 DEF Wake
  <2>2. turn' \in LoginClients \union {Cleanup, Free} /\ UNCHANGED <<phase, stage, out>>
    BY <1>1, <1>3 DEF Wake
  <2> QED  BY <1>2, <2>1, <2>2, OneTaskStep DEF Steps, TaskStates, InSession
<1>4. CASE TaskConnects(k)
  <2>1. PICK from \in {"connecting", "reconnecting"}, to \in InSession : Steps(k, from, to)
    BY <1>4 DEF TaskConnects, InSession
  <2> QED  BY <1>1, <1>4, <2>1, OneTaskStep DEF TaskConnects, TaskStates
<1>5. CASE TaskTimesOut(k)
  <2>1. PICK from \in {"connecting", "reconnecting"}, to \in {"reconnecting", "ran"} :
          Steps(k, from, to)
    BY <1>5 DEF TaskTimesOut, AfterFirst
  <2> QED  BY <1>1, <1>2, <1>5, <2>1, OneTaskStep DEF TaskTimesOut, Steps, TaskStates, InSession
<1>6. CASE Work(k)
  <2>1. PICK from \in InSession, to \in {"reconnecting", "ran"} : Steps(k, from, to)
    BY <1>6 DEF Work, AfterFirst, InSession
  <2> QED  BY <1>1, <1>6, <2>1, OneTaskStep DEF Work, TaskStates, InSession
<1>7. CASE Sleep(k)
  BY <1>2, <1>7, OneTaskStep DEF Sleep, Steps, TaskStates, InSession
<1> QED  BY <1>3, <1>4, <1>5, <1>6, <1>7 DEF TaskStep

LEMMA ProcessStep == ProcessInv /\ [ProcessNext]_processVars => ProcessInv'
<1> SUFFICES ASSUME ProcessInv, [ProcessNext]_processVars PROVE ProcessInv'
  OBVIOUS
<1>1. CASE UNCHANGED processVars
  BY <1>1
  DEF processVars, ProcessInv, ProcessTypeOK, Accounts, InSlots, Quiet, NothingLeaks
<1> QED  BY <1>1, PhaseStep, LoopActions, OwnActions, TaskActions DEF ProcessNext

THEOREM ProcessInvariance == ProcessSpec => []ProcessInv
  BY ProcessStart, ProcessStep, PTL DEF ProcessSpec

(* The process keeps its types; no more handlers run than there are slots, *)
(* and no more connections are out than the pool has.                      *)
THEOREM ProcessTypeCorrect == ProcessSpec => []ProcessTypeOK
<1>1. ProcessInv => ProcessTypeOK
  BY DEF ProcessInv
<1> QED  BY <1>1, ProcessInvariance, PTL

(* Requests and tasks that are done hold no connection, on whatever path   *)
(* they ended (get_db, the sessions of the tasks), and a process that is   *)
(* down has none.                                                          *)
THEOREM NothingIsLeaked == ProcessSpec => []NothingLeaks
<1>1. ProcessInv => NothingLeaks
  BY DEF ProcessInv
<1> QED  BY <1>1, ProcessInvariance, PTL

===============================================================================
