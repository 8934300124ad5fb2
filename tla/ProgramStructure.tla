--------------------------- MODULE ProgramStructure ---------------------------
(***************************************************************************)
(* Programs, their years and specializations, and the groups that refer to *)
(* one of each (app/services/program_service.py), under concurrent         *)
(* requests of administrators.                                             *)
(*                                                                         *)
(* A group's program is stored beside its year and its specialization,     *)
(* which have a program of their own; only the service checks that the     *)
(* three agree, by reading before it writes, and the rows it read are not  *)
(* locked.  PostgreSQL checks the foreign keys of what a transaction       *)
(* writes, against the rows as they are at the write.  A transaction       *)
(* writes (flush) and commits in one step here: the row locks in between   *)
(* only make other writers wait until the commit.                          *)
(*                                                                         *)
(* Lessons and selections refer to groups, come and go, and keep a group   *)
(* from being deleted.  Names, codes, year numbers and group types refer   *)
(* to nothing that a request could change here: a request that sets only   *)
(* these, or fails on them, changes nothing.                               *)
(***************************************************************************)
EXTENDS Naturals, FiniteSets

CONSTANTS
    Programs, Years, Specs, Groups,   \* ids
    Absent,          \* no such row
    Keep,            \* a field the request leaves out
    Txns,            \* requests, one transaction each
    InitialParent,   \* program of each year and specialization at first
    InitialGroup     \* row of each group at first

Parts == Years \union Specs
Columns == {"program", "year", "spec"}
GroupRow == [program : Programs, year : Years, spec : Specs]

ASSUME StructureAssumption ==
    /\ Years \intersect Specs = {} /\ Programs \intersect Parts = {}
    /\ Groups \intersect (Programs \union Parts) = {}
    /\ {Absent, Keep} \intersect (Programs \union Parts \union Groups) = {}
    /\ Absent \notin GroupRow
    /\ InitialParent \in [Parts -> Programs \union {Absent}]
    /\ InitialGroup \in [Groups -> GroupRow \union {Absent}]
    /\ \A g \in Groups : InitialGroup[g] # Absent =>
          /\ InitialParent[InitialGroup[g].year] = InitialGroup[g].program
          /\ InitialParent[InitialGroup[g].spec] = InitialGroup[g].program

VARIABLES
    programs,   \* rows of programs
    parent,     \* parent[x]: program_id of year or specialization x
    group,      \* group[g]: the foreign keys of group g
    used,       \* ids inserted so far; a sequence gives none of them again
    inUse,      \* groups that a lesson or a selection refers to
    pc,         \* a member of Stages
    request,    \* request[t]: what t was asked to do
    copy,       \* copy[t]: the group row t loaded to update it
    doomed,     \* doomed[t]: the rows t deletes
    raced       \* groups written while that write raced another request

tables == <<programs, parent, group, used, inUse>>
vars == <<tables, pc, request, copy, doomed, raced>>

Stages == {"new", "year", "spec", "use", "years", "specs", "write", "done"}
NoRequest == [kind |-> "none"]
Moves == [kind : {"move"}, part : Parts, to : Programs]
Creates == [kind : {"create"}, group : Groups, program : Programs, year : Years, spec : Specs]
Updates == [kind : {"update"}, group : Groups, program : Programs \union {Keep},
            year : Years \union {Keep}, spec : Specs \union {Keep}]
Deletes == [kind : {"delete"}, id : Programs \union Parts \union Groups]
Requests == Moves \union Creates \union Updates \union Deletes

Children(p) == {x \in Parts : parent[x] = p}
Present == {g \in Groups : group[g] # Absent}
Rows == programs \union {x \in Parts : parent[x] # Absent} \union Present

TypeOK == /\ programs \subseteq Programs
          /\ parent \in [Parts -> Programs \union {Absent}]
          /\ group \in [Groups -> GroupRow \union {Absent}]
          /\ Rows \subseteq used /\ inUse \subseteq Groups
          /\ pc \in [Txns -> Stages]
          /\ request \in [Txns -> Requests \union {NoRequest}]
          /\ copy \in [Txns -> GroupRow \union {Absent}]
          /\ \A t \in Txns : copy[t] # Absent => request[t].kind = "update"
          /\ doomed \in [Txns -> SUBSET (Programs \union Parts \union Groups)]
          /\ raced \subseteq Groups

Init == /\ parent = InitialParent /\ group = InitialGroup
        /\ programs = {p \in Programs : \E x \in Parts : InitialParent[x] = p}
        /\ used = Rows /\ inUse = {}
        /\ pc = [t \in Txns |-> "new"]
        /\ request = [t \in Txns |-> NoRequest]
        /\ copy = [t \in Txns |-> Absent]
        /\ doomed = [t \in Txns |-> {}]
        /\ raced = {}

-----------------------------------------------------------------------------
(* create_program and create_program_year or create_specialization: what   *)
(* they read is what the foreign key checks again.                         *)
CreateProgram(p) == /\ p \notin used
                    /\ programs' = programs \union {p}
                    /\ used' = used \union {p}
                    /\ UNCHANGED <<parent, group, inUse, pc, request, copy, doomed, raced>>

CreatePart(x, p) == /\ x \notin used /\ p \in programs
                    /\ parent' = [parent EXCEPT ![x] = p]
                    /\ used' = used \union {x}
                    /\ UNCHANGED <<programs, group, inUse, pc, request, copy, doomed, raced>>

CreateProgramYear(p) == \E y \in Years : CreatePart(y, p)
CreateSpecialization(p) == \E x \in Specs : CreatePart(x, p)

(* A lesson or a selection of the group, and the end of the last one. *)
UseGroup(g) == /\ g \in Present \ inUse
               /\ inUse' = inUse \union {g}
               /\ UNCHANGED <<programs, parent, group, used, pc, request, copy, doomed, raced>>

FreeGroup(g) == /\ g \in inUse
                /\ inUse' = inUse \ {g}
                /\ UNCHANGED <<programs, parent, group, used, pc, request, copy, doomed, raced>>

-----------------------------------------------------------------------------
(* The row a create or update asks for. *)
Wanted(t) == [c \in Columns |->
                IF request[t][c] = Keep THEN copy[t][c] ELSE request[t][c]]

Writes(t, g) == request[t].kind \in {"create", "update"} /\ request[t].group = g
Running(t) == pc[t] \notin {"new", "done"}

(* Groups whose write now races another one of the same group, or a change *)
(* of program of the year or specialization it wants.                      *)
Racing == {g \in Groups : \E t, x \in Txns :
             /\ t # x /\ Running(t) /\ Running(x) /\ Writes(t, g)
             /\ \/ Writes(x, g)
                \/ /\ request[x].kind = "move"
                   /\ request[x].part \in {Wanted(t).year, Wanted(t).spec}}

Start(t, r, row, rows, next) ==
    /\ pc[t] = "new"
    /\ request' = [request EXCEPT ![t] = r]
    /\ copy' = [copy EXCEPT ![t] = row]
    /\ doomed' = [doomed EXCEPT ![t] = rows]
    /\ pc' = [pc EXCEPT ![t] = next]
    /\ raced' = raced \union Racing'
    /\ UNCHANGED tables

(* Variant: the session outlives the request, with the row it loaded. *)
FinishKeepingCopy(t) == /\ pc' = [pc EXCEPT ![t] = "done"]
                        /\ request' = [request EXCEPT ![t] = NoRequest]
                        /\ UNCHANGED <<copy, doomed, raced>>

(* The end of the transaction: the session's state is dropped. *)
Finish(t) == /\ pc' = [pc EXCEPT ![t] = "done"]
             /\ request' = [request EXCEPT ![t] = NoRequest]
             /\ copy' = [copy EXCEPT ![t] = Absent]
             /\ doomed' = [doomed EXCEPT ![t] = {}]
             /\ UNCHANGED raced

Refuse(t) == Finish(t) /\ UNCHANGED tables

GoIf(ok, t, next) ==
    IF ok THEN /\ pc' = [pc EXCEPT ![t] = next]
               /\ UNCHANGED <<tables, request, copy, doomed, raced>>
    ELSE Refuse(t)

(* The first read of each request; a missing row is a 404. *)
StartMove(t) == \E r \in Moves :
    /\ parent[r.part] \notin {Absent, r.to}
    /\ Start(t, r, Absent, {}, "use")

StartCreate(t) == \E r \in Creates :
    /\ r.group \notin used /\ r.program \in programs
    /\ Start(t, r, Absent, {}, "year")

StartUpdate(t) == \E r \in Updates :
    /\ r.group \in Present
    /\ Start(t, r, group[r.group], {}, "year")

(* Deleting a program loads its years and then its specializations to      *)
(* delete them with it; everything else is one row.                        *)
StartDeleteProgram(t) == \E p \in programs :
    Start(t, [kind |-> "delete", id |-> p], Absent, {p}, "years")

LoadChildren(t, S, next) ==
    /\ doomed' = [doomed EXCEPT ![t] = @ \union (Children(request[t].id) \intersect S)]
    /\ pc' = [pc EXCEPT ![t] = next]
    /\ UNCHANGED <<tables, request, copy, raced>>

CascadeToYears(t) == pc[t] = "years" /\ LoadChildren(t, Years, "specs")
CascadeToSpecs(t) == pc[t] = "specs" /\ LoadChildren(t, Specs, "write")

StartDeleteRow(t) == \E x \in Rows \ programs :
    Start(t, [kind |-> "delete", id |-> x], Absent, {x}, "write")

(* Variant: a year is not compared with the program. *)
LoadYearUnchecked(t) ==
    pc[t] = "year" /\ GoIf(parent[Wanted(t).year] # Absent, t, "spec")

(* _validate_group_relationships, on each row as it was when loaded. *)
LoadYear(t) ==
    /\ pc[t] = "year"
    /\ GoIf(parent[Wanted(t).year] = Wanted(t).program, t, "spec")

LoadSpec(t) ==
    /\ pc[t] = "spec"
    /\ GoIf(parent[Wanted(t).spec] = Wanted(t).program, t, "write")

LinkedTo(x) == {g \in Present : x \in {group[g].year, group[g].spec}}

(* in_use: the 409 of update_program_year and update_specialization. *)
CheckUse(t) ==
    /\ pc[t] = "use"
    /\ GoIf(LinkedTo(request[t].part) = {}, t, "write")

-----------------------------------------------------------------------------
(* An UPDATE of a row that is gone raises StaleDataError; a program that   *)
(* is gone breaks the foreign key.                                         *)
WriteMove(t) ==
    LET r == request[t] IN
    /\ pc[t] = "write" /\ r.kind = "move"
    /\ IF parent[r.part] = Absent \/ r.to \notin programs THEN Refuse(t)
       ELSE /\ parent' = [parent EXCEPT ![r.part] = r.to]
            /\ UNCHANGED <<programs, group, used, inUse>>
            /\ Finish(t)

(* The row after t's INSERT, or after its UPDATE of the columns that       *)
(* differ from the row it loaded.                                          *)
Written(t) ==
    IF request[t].kind = "create" THEN Wanted(t)
    ELSE [c \in Columns |-> IF Wanted(t)[c] # copy[t][c] THEN Wanted(t)[c]
                            ELSE group[request[t].group][c]]

Referable(row) == /\ row.program \in programs
                  /\ parent[row.year] # Absent /\ parent[row.spec] # Absent

WriteGroup(t) ==
    LET g == request[t].group IN
    /\ pc[t] = "write" /\ request[t].kind \in {"create", "update"}
    /\ IF \/ request[t].kind = "create" /\ g \in used
          \/ request[t].kind = "update" /\ group[g] = Absent
          \/ ~Referable(Written(t))
       THEN Refuse(t)
       ELSE /\ group' = [group EXCEPT ![g] = Written(t)]
            /\ used' = used \union {g}
            /\ UNCHANGED <<programs, parent, inUse>>
            /\ Finish(t)

(* Variant: the service looks for groups itself, and for nothing else. *)
ReferencedByGroup(t) ==
    \E g \in Present \ doomed[t] : \E c \in Columns : group[g][c] \in doomed[t]

(* A row that stays refers to one that t deletes: _safe_delete's 409. *)
Referenced(t) ==
    \/ \E x \in Parts \ doomed[t] : parent[x] \in doomed[t]
    \/ \E g \in Present \ doomed[t] : \E c \in Columns : group[g][c] \in doomed[t]
    \/ doomed[t] \intersect inUse # {}

(* The rows are deleted by their ids, whatever has become of them since;   *)
(* one that is gone already is only warned about.                          *)
Delete(t) ==
    /\ pc[t] = "write" /\ request[t].kind = "delete"
    /\ IF Referenced(t) THEN Refuse(t)
       ELSE /\ programs' = programs \ doomed[t]
            /\ parent' = [x \in Parts |-> IF x \in doomed[t] THEN Absent ELSE parent[x]]
            /\ group' = [g \in Groups |-> IF g \in doomed[t] THEN Absent ELSE group[g]]
            /\ UNCHANGED <<used, inUse>>
            /\ Finish(t)

Next ==
    \/ \E p \in Programs : \/ CreateProgram(p)
                           \/ CreateProgramYear(p) \/ CreateSpecialization(p)
    \/ \E g \in Groups : UseGroup(g) \/ FreeGroup(g)
    \/ \E t \in Txns : \/ StartMove(t) \/ StartCreate(t) \/ StartUpdate(t)
                       \/ StartDeleteProgram(t) \/ StartDeleteRow(t)
                       \/ CascadeToYears(t) \/ CascadeToSpecs(t)
                       \/ LoadYear(t) \/ LoadSpec(t) \/ CheckUse(t)
                       \/ WriteMove(t) \/ WriteGroup(t) \/ Delete(t)

Spec == Init /\ [][Next]_vars

-----------------------------------------------------------------------------
(* Whatever is created, moved and deleted at once, every row refers to     *)
(* rows that exist: a deletion that was prepared before a row appeared     *)
(* must not leave it behind, nor a group's lessons and selections.         *)
ReferencesExist == /\ \A x \in Parts : parent[x] \in programs \union {Absent}
                   /\ \A g \in Present : Referable(group[g])
                   /\ inUse \subseteq Present

Agrees(row) == parent[row.year] = row.program /\ parent[row.spec] = row.program

(* A group's year and specialization are of its program, unless a write of *)
(* the group raced another one, or a change of program of either.          *)
ConsistentUnlessRaced == \A g \in Present \ raced : Agrees(group[g])

=============================================================================
