------------------------ MODULE ProgramStructureProofs ------------------------
(* Proofs about ProgramStructure, for any programs, years, specializations *)
(* and groups, and any number of requests.                                 *)
EXTENDS ProgramStructure, TLAPS

(* What a request is doing fits what it was asked. *)
Asked ==
    \A t \in Txns : Running(t) =>
        /\ request[t] \in Requests
        /\ request[t].kind = "update" => copy[t] # Absent /\ request[t].group \in used
        /\ pc[t] \in {"year", "spec"} => request[t].kind \in {"create", "update"}
        /\ pc[t] = "use" => request[t].kind = "move"
        /\ pc[t] \in {"years", "specs"} => request[t].kind = "delete"

TInv == TypeOK /\ Asked

(* A group that a request writes while another one writes it, or moves its *)
(* year or specialization, is known to be raced.                           *)
RacingKnown == Racing \subseteq raced

(* What a request found when it checked a year or a specialization is so   *)
(* until the row is gone, and so is what an update loaded.                 *)
Checked ==
    \A t \in Txns : Running(t) /\ request[t].kind \in {"create", "update"} =>
        /\ pc[t] \in {"spec", "write"} =>
              /\ Wanted(t).year \in used
              /\ request[t].group \notin raced =>
                    parent[Wanted(t).year] \in {Wanted(t).program, Absent}
        /\ pc[t] = "write" =>
              /\ Wanted(t).spec \in used
              /\ request[t].group \notin raced =>
                    parent[Wanted(t).spec] \in {Wanted(t).program, Absent}
        /\ request[t].kind = "update" /\ request[t].group \notin raced =>
              group[request[t].group] \in {copy[t], Absent}

(* What is about to change program has only raced groups. *)
Unlinked == \A t \in Txns : Running(t) /\ request[t].kind = "move" /\ pc[t] = "write" =>
                LinkedTo(request[t].part) \subseteq raced

CInv == RacingKnown /\ Checked /\ Unlinked /\ ConsistentUnlessRaced
IInv == TInv /\ ReferencesExist /\ CInv

-----------------------------------------------------------------------------
(* Rows of groups. *)

LEMMA RowIntro ==
    ASSUME NEW f, f = [c \in Columns |-> f[c]],
           f.program \in Programs, f.year \in Years, f.spec \in Specs
    PROVE  f \in GroupRow
  BY DEF GroupRow, Columns

LEMMA RowElim ==
    ASSUME NEW f \in GroupRow
    PROVE  /\ f = [c \in Columns |-> f[c]] /\ f # Absent
           /\ f.program \in Programs /\ f.year \in Years /\ f.spec \in Specs
  BY StructureAssumption DEF GroupRow, Columns

LEMMA WantedType ==
    ASSUME TInv, NEW t \in Txns, Running(t), request[t].kind \in {"create", "update"}
    PROVE  /\ Wanted(t) \in GroupRow /\ request[t].group \in Groups
           /\ request[t].kind = "update" => copy[t] \in GroupRow
<1>1. request[t] \in Creates \union Updates
  BY DEF TInv, Asked, Requests, Moves, Creates, Updates, Deletes
<1>2. request[t].kind = "update" => copy[t] \in GroupRow
  BY DEF TInv, TypeOK, Asked
<1>3. Wanted(t) = [c \in Columns |-> Wanted(t)[c]]
  BY DEF Wanted
<1>4. /\ Wanted(t).program = IF request[t].program = Keep THEN copy[t].program ELSE request[t].program
      /\ Wanted(t).year = IF request[t].year = Keep THEN copy[t].year ELSE request[t].year
      /\ Wanted(t).spec = IF request[t].spec = Keep THEN copy[t].spec ELSE request[t].spec
  BY DEF Wanted, Columns
<1>5. CASE request[t] \in Creates
  <2>1. /\ request[t].program \in Programs /\ request[t].year \in Years
        /\ request[t].spec \in Specs /\ request[t].group \in Groups
    BY <1>5 DEF Creates
  <2>2. Wanted(t) \in GroupRow
    BY <1>3, <1>4, <2>1, RowIntro, StructureAssumption DEF Parts
  <2> QED  BY <1>2, <2>1, <2>2
<1>6. CASE request[t] \in Updates
  <2>1. /\ request[t].program \in Programs \union {Keep} /\ request[t].year \in Years \union {Keep}
        /\ request[t].spec \in Specs \union {Keep} /\ request[t].group \in Groups
        /\ request[t].kind = "update"
    BY <1>6 DEF Updates
  <2>2. copy[t].program \in Programs /\ copy[t].year \in Years /\ copy[t].spec \in Specs
    BY <1>2, <2>1, RowElim
  <2>3. Wanted(t) \in GroupRow
    BY <1>3, <1>4, <2>1, <2>2, RowIntro
  <2> QED  BY <1>2, <2>1, <2>3
<1> QED  BY <1>1, <1>5, <1>6

LEMMA WrittenType ==
    ASSUME TInv, NEW t \in Txns, Running(t), request[t].kind \in {"create", "update"},
           request[t].kind = "update" => group[request[t].group] # Absent
    PROVE  Written(t) \in GroupRow
<1>1. CASE request[t].kind = "create"
  BY <1>1, WantedType DEF Written
<1>2. CASE request[t].kind = "update"
  <2>1. group[request[t].group] \in GroupRow /\ Wanted(t) \in GroupRow
    BY <1>2, WantedType DEF TInv, TypeOK
  <2>2. Written(t) = [c \in Columns |-> Written(t)[c]]
    BY <1>2 DEF Written
  <2>3. \A c \in Columns : Written(t)[c] \in {Wanted(t)[c], group[request[t].group][c]}
    BY <1>2 DEF Written
  <2>4. /\ Written(t).program \in Programs /\ Written(t).year \in Years
        /\ Written(t).spec \in Specs
    BY <2>1, <2>3, RowElim DEF Columns
  <2> QED  BY <2>2, <2>4, RowIntro
<1> QED  BY <1>1, <1>2

LEMMA PresentRow ==
    ASSUME TypeOK, NEW g \in Present
    PROVE  /\ g \in Groups /\ g \in used /\ group[g] \in GroupRow
           /\ group[g].program \in Programs /\ group[g].year \in Years /\ group[g].spec \in Specs
  BY RowElim DEF TypeOK, Present, Rows

-----------------------------------------------------------------------------
(* Requests that end, or go on to their next read. *)

LEMMA FinishType ==
    ASSUME TInv, NEW t \in Txns, Finish(t)
    PROVE  /\ pc' \in [Txns -> Stages]
           /\ request' \in [Txns -> Requests \union {NoRequest}]
           /\ copy' \in [Txns -> GroupRow \union {Absent}]
           /\ \A x \in Txns : copy'[x] # Absent => request'[x].kind = "update"
           /\ doomed' \in [Txns -> SUBSET (Programs \union Parts \union Groups)]
           /\ \A x \in Txns : Running(x)' => /\ x # t /\ Running(x) /\ pc'[x] = pc[x]
                                           /\ request'[x] = request[x] /\ copy'[x] = copy[x]
           /\ raced' = raced
  BY DEF Finish, TInv, TypeOK, Running, Stages

LEMMA FinishAsked ==
    ASSUME TInv, NEW t \in Txns, Finish(t), used \subseteq used' PROVE Asked'
  BY FinishType DEF TInv, Asked

LEMMA RefuseType == ASSUME TInv, NEW t \in Txns, Refuse(t) PROVE TInv' /\ UNCHANGED tables
<1>1. UNCHANGED <<programs, parent, group, used, inUse>> /\ Finish(t)
  BY DEF Refuse, tables
<1>2. Asked'
  BY <1>1, FinishAsked
<1>3. TypeOK'
  BY <1>1, FinishType DEF TInv, TypeOK, Rows, Present
<1> QED  BY <1>1, <1>2, <1>3 DEF TInv, tables

(* A request passes a check, or is refused. *)
LEMMA GoType ==
    ASSUME TInv, NEW t \in Txns, Running(t), NEW ok, NEW next \in {"spec", "write"},
           GoIf(ok, t, next),
           next = "spec" => request[t].kind \in {"create", "update"}
    PROVE  TInv' /\ UNCHANGED tables
<1>1. CASE ~ok
  BY <1>1, RefuseType DEF GoIf
<1>2. CASE ok
  <2>1. /\ pc' = [pc EXCEPT ![t] = next]
        /\ UNCHANGED <<programs, parent, group, used, inUse, request, copy, doomed, raced>>
    BY <1>2 DEF GoIf, tables
  <2>2. TypeOK'
    BY <2>1 DEF TInv, TypeOK, Rows, Present, Stages
  <2>3. Asked'
    BY <2>1 DEF TInv, TypeOK, Asked, Running
  <2> QED  BY <2>1, <2>2, <2>3 DEF TInv, tables
<1> QED  BY <1>1, <1>2

LEMMA StartType ==
    ASSUME TInv, NEW t \in Txns, NEW r \in Requests, NEW old \in GroupRow \union {Absent},
           NEW S \in SUBSET (Programs \union Parts \union Groups),
           NEW next \in {"year", "use", "years", "write"}, Start(t, r, old, S, next),
           r.kind = "update" <=> old # Absent,
           r.kind = "update" => r.group \in used,
           next = "year" => r.kind \in {"create", "update"},
           next = "use" => r.kind = "move",
           next = "years" => r.kind = "delete"
    PROVE  /\ TInv' /\ UNCHANGED tables
           /\ Running(t)' /\ pc'[t] = next /\ request'[t] = r /\ copy'[t] = old
           /\ \A x \in Txns \ {t} : /\ Running(x)' <=> Running(x)
                                   /\ pc'[x] = pc[x] /\ request'[x] = request[x]
                                   /\ copy'[x] = copy[x]
           /\ raced' = raced \union Racing'
<1>1. /\ pc' = [pc EXCEPT ![t] = next] /\ request' = [request EXCEPT ![t] = r]
      /\ copy' = [copy EXCEPT ![t] = old] /\ doomed' = [doomed EXCEPT ![t] = S]
      /\ raced' = raced \union Racing' /\ UNCHANGED <<programs, parent, group, used, inUse>>
  BY DEF Start, tables
<1>2. /\ pc'[t] = next /\ request'[t] = r /\ copy'[t] = old /\ Running(t)'
      /\ \A x \in Txns \ {t} : /\ Running(x)' <=> Running(x)
                              /\ pc'[x] = pc[x] /\ request'[x] = request[x]
                              /\ copy'[x] = copy[x]
  BY <1>1 DEF TInv, TypeOK, Running
<1>3. Racing' \subseteq Groups
  BY DEF Racing
<1>4. /\ pc' \in [Txns -> Stages]
      /\ request' \in [Txns -> Requests \union {NoRequest}]
      /\ copy' \in [Txns -> GroupRow \union {Absent}]
      /\ doomed' \in [Txns -> SUBSET (Programs \union Parts \union Groups)]
  BY <1>1 DEF TInv, TypeOK, Stages
<1>5. \A x \in Txns : copy'[x] # Absent => request'[x].kind = "update"
  BY <1>2 DEF TInv, TypeOK
<1>6. TypeOK'
  BY <1>1, <1>3, <1>4, <1>5 DEF TInv, TypeOK, Rows, Present
<1>7. Asked'
  BY <1>1, <1>2 DEF TInv, Asked
<1> QED  BY <1>1, <1>2, <1>6, <1>7 DEF TInv, tables

-----------------------------------------------------------------------------
LEMMA RacingShrinks ==
    ASSUME \A x \in Txns : Running(x)' => /\ Running(x) /\ request'[x] = request[x]
                                         /\ copy'[x] = copy[x]
    PROVE  Racing' \subseteq Racing
<1> SUFFICES ASSUME NEW g \in Racing' PROVE g \in Racing
  OBVIOUS
<1>1. PICK t \in Txns, x \in Txns :
        /\ t # x /\ Running(t)' /\ Running(x)' /\ Writes(t, g)'
        /\ \/ Writes(x, g)'
           \/ /\ request'[x].kind = "move"
              /\ request'[x].part \in {Wanted(t)'.year, Wanted(t)'.spec}
  BY DEF Racing
<1>2. Running(t) /\ Running(x) /\ Writes(t, g) /\ Wanted(t)' = Wanted(t) /\ request'[x] = request[x]
  BY <1>1 DEF Writes, Wanted
<1>3. Writes(x, g)' => Writes(x, g)
  BY <1>2 DEF Writes
<1> QED  BY <1>1, <1>2, <1>3 DEF Racing

(* A step that starts no request and checks nothing. *)
LEMMA ChecksKept ==
    ASSUME RacingKnown, Checked, used \subseteq used', raced' = raced,
           \A x \in Txns : Running(x)' =>
              Running(x) /\ pc'[x] = pc[x] /\ request'[x] = request[x] /\ copy'[x] = copy[x],
           \A x \in Txns : Running(x)' /\ request[x].kind \in {"create", "update"}
                            /\ request[x].group \notin raced =>
              /\ Wanted(x).year \in used => parent'[Wanted(x).year] \in {parent[Wanted(x).year], Absent}
              /\ Wanted(x).spec \in used => parent'[Wanted(x).spec] \in {parent[Wanted(x).spec], Absent}
              /\ request[x].kind = "update" =>
                    group'[request[x].group] \in {group[request[x].group], Absent}
    PROVE  RacingKnown' /\ Checked'
<1>1. RacingKnown'
  BY RacingShrinks DEF RacingKnown
<1>2. SUFFICES ASSUME NEW x \in Txns, Running(x)', request'[x].kind \in {"create", "update"}
               PROVE  /\ pc'[x] \in {"spec", "write"} =>
                            /\ Wanted(x)'.year \in used'
                            /\ request'[x].group \notin raced' =>
                                  parent'[Wanted(x)'.year] \in {Wanted(x)'.program, Absent}
                      /\ pc'[x] = "write" =>
                            /\ Wanted(x)'.spec \in used'
                            /\ request'[x].group \notin raced' =>
                                  parent'[Wanted(x)'.spec] \in {Wanted(x)'.program, Absent}
                      /\ request'[x].kind = "update" /\ request'[x].group \notin raced' =>
                            group'[request'[x].group] \in {copy'[x], Absent}
  BY <1>1 DEF Checked
<1>3. /\ Running(x) /\ pc'[x] = pc[x] /\ request'[x] = request[x] /\ copy'[x] = copy[x]
      /\ Wanted(x)' = Wanted(x)
  BY <1>2 DEF Wanted
<1> QED  BY <1>2, <1>3 DEF Checked

LEMMA LinksKept ==
    ASSUME TypeOK, UNCHANGED group PROVE Present' = Present /\ \A x : LinkedTo(x)' = LinkedTo(x)
  BY DEF Present, LinkedTo

(* Steps that leave the tables alone. *)
LEMMA RefuseStep == ASSUME IInv, NEW t \in Txns, Refuse(t) PROVE IInv'
<1>1. TInv' /\ UNCHANGED <<programs, parent, group, used, inUse>> /\ Finish(t)
  BY RefuseType DEF Refuse, tables, IInv
<1>2. /\ \A x \in Txns : Running(x)' => /\ x # t /\ Running(x) /\ pc'[x] = pc[x]
                                       /\ request'[x] = request[x] /\ copy'[x] = copy[x]
      /\ raced' = raced
  BY <1>1, FinishType DEF IInv
<1>3. RacingKnown' /\ Checked'
  BY <1>1, <1>2, ChecksKept DEF IInv, CInv
<1>4. Unlinked'
  BY <1>1, <1>2, LinksKept DEF IInv, TInv, CInv, Unlinked
<1>5. ReferencesExist' /\ ConsistentUnlessRaced'
  BY <1>1, <1>2 DEF IInv, CInv, ReferencesExist, ConsistentUnlessRaced, Agrees, Referable, Present
<1> QED  BY <1>1, <1>3, <1>4, <1>5 DEF IInv, CInv

LEMMA StartStep ==
    ASSUME IInv, NEW t \in Txns, pc[t] = "new", TInv', UNCHANGED tables,
           Running(t)', pc'[t] \in {"year", "use", "years", "write"}, raced' = raced \union Racing',
           \A x \in Txns \ {t} : /\ Running(x)' <=> Running(x)
                              /\ pc'[x] = pc[x] /\ request'[x] = request[x]
                              /\ copy'[x] = copy[x],
           request'[t].kind \in {"create", "update"} => pc'[t] = "year",
           request'[t].kind = "move" => pc'[t] = "use",
           request'[t].kind = "update" => copy'[t] = group[request'[t].group]
    PROVE  IInv'
<1>1. UNCHANGED <<programs, parent, group, used, inUse>>
  BY DEF tables
<1>2. ReferencesExist'
  BY <1>1 DEF IInv, ReferencesExist, Referable, Present
<1>3. RacingKnown'
  BY DEF RacingKnown
<1>4. Checked'
  <2>1. \A x \in Txns \ {t} : Wanted(x)' = Wanted(x)
    BY DEF Wanted
  <2> QED  BY <1>1, <2>1 DEF IInv, CInv, Checked
<1>5. Unlinked'
  BY <1>1, LinksKept DEF IInv, TInv, CInv, Unlinked
<1>6. ConsistentUnlessRaced'
  BY <1>1 DEF IInv, CInv, ConsistentUnlessRaced, Agrees, Present
<1> QED  BY <1>2, <1>3, <1>4, <1>5, <1>6 DEF IInv, CInv

LEMMA GoStep ==
    ASSUME IInv, NEW t \in Txns, Running(t), NEW ok, NEW next \in {"spec", "write"},
           GoIf(ok, t, next),
           next = "spec" => /\ request[t].kind \in {"create", "update"}
                            /\ ok => parent[Wanted(t).year] = Wanted(t).program,
           next = "write" /\ request[t].kind \in {"create", "update"} =>
                /\ pc[t] = "spec"
                /\ ok => parent[Wanted(t).spec] = Wanted(t).program,
           next = "write" /\ request[t].kind = "move" => (ok => LinkedTo(request[t].part) = {})
    PROVE  IInv'
<1>1. CASE ~ok
  BY <1>1, RefuseStep DEF GoIf
<1>2. CASE ok
  <2>1. /\ pc' = [pc EXCEPT ![t] = next]
        /\ UNCHANGED <<programs, parent, group, used, inUse, request, copy, doomed, raced>>
    BY <1>2 DEF GoIf, tables
  <2>2. /\ pc'[t] = next /\ \A x \in Txns \ {t} : pc'[x] = pc[x]
        /\ \A x \in Txns : Running(x)' <=> Running(x)
        /\ \A x \in Txns : Wanted(x)' = Wanted(x)
    BY <2>1 DEF IInv, TInv, TypeOK, Running, Wanted
  <2>3. TInv'
    BY GoType DEF IInv
  <2>4. ReferencesExist' /\ ConsistentUnlessRaced'
    BY <2>1 DEF IInv, CInv, ReferencesExist, ConsistentUnlessRaced, Agrees, Referable, Present
  <2>5. RacingKnown'
    BY <2>1, <2>2, RacingShrinks DEF IInv, CInv, RacingKnown
  <2>6. Unlinked'
    BY <1>2, <2>1, <2>2, LinksKept DEF IInv, TInv, CInv, Unlinked
  <2>7. Checked'
    <3>1. ASSUME request[t].kind \in {"create", "update"}
          PROVE  /\ Wanted(t).program \in Programs
                 /\ Wanted(t).year \in Parts /\ Wanted(t).spec \in Parts
      BY <3>1, WantedType, RowElim DEF IInv, Parts
    <3>2. \A y \in Parts : parent[y] \in Programs => y \in used
      BY StructureAssumption DEF IInv, TInv, TypeOK, Rows
    <3>3. request[t].kind \in {"create", "update"} =>
            /\ Wanted(t).year \in used
            /\ next = "write" => Wanted(t).spec \in used
      BY <1>2, <3>1, <3>2 DEF IInv, CInv, Checked
    <3> QED  BY <1>2, <2>1, <2>2, <3>3 DEF IInv, CInv, Checked
  <2> QED  BY <2>3, <2>4, <2>5, <2>6, <2>7 DEF IInv, CInv
<1> QED  BY <1>1, <1>2

-----------------------------------------------------------------------------
(* The reads of the requests. *)

LEMMA StartSteps ==
    ASSUME IInv, NEW t \in Txns,
           \/ StartMove(t) \/ StartCreate(t) \/ StartUpdate(t)
           \/ StartDeleteProgram(t) \/ StartDeleteRow(t)
    PROVE  IInv'
<1>1. ASSUME NEW r \in Requests, NEW old \in GroupRow \union {Absent},
             NEW S \in SUBSET (Programs \union Parts \union Groups),
             NEW next \in {"year", "use", "years", "write"}, Start(t, r, old, S, next),
             r.kind = "update" <=> old # Absent,
             r.kind = "update" => r.group \in used /\ old = group[r.group],
             r.kind \in {"create", "update"} <=> next = "year",
             r.kind = "move" <=> next = "use",
             next = "years" => r.kind = "delete"
      PROVE  IInv'
  <2>1. /\ TInv' /\ UNCHANGED tables
        /\ Running(t)' /\ pc'[t] = next /\ request'[t] = r /\ copy'[t] = old
        /\ \A x \in Txns \ {t} : /\ Running(x)' <=> Running(x)
                                /\ pc'[x] = pc[x] /\ request'[x] = request[x]
                                /\ copy'[x] = copy[x]
        /\ raced' = raced \union Racing'
    BY <1>1, StartType DEF IInv
  <2>2. pc[t] = "new" /\ group' = group
    BY <1>1, <2>1 DEF Start, tables
  <2> QED  BY <1>1, <2>1, <2>2, StartStep
<1>2. CASE StartMove(t)
  <2>1. PICK r \in Moves : Start(t, r, Absent, {}, "use")
    BY <1>2 DEF StartMove
  <2>2. r \in Requests /\ r.kind = "move"
    BY DEF Moves, Requests
  <2> QED  BY <1>1, <2>1, <2>2
<1>3. CASE StartCreate(t)
  <2>1. PICK r \in Creates : Start(t, r, Absent, {}, "year")
    BY <1>3 DEF StartCreate
  <2>2. r \in Requests /\ r.kind = "create"
    BY DEF Creates, Requests
  <2> QED  BY <1>1, <2>1, <2>2
<1>4. CASE StartUpdate(t)
  <2>1. PICK r \in Updates : r.group \in Present /\ Start(t, r, group[r.group], {}, "year")
    BY <1>4 DEF StartUpdate
  <2>2. r \in Requests /\ r.kind = "update"
    BY DEF Updates, Requests
  <2>3. r.group \in used /\ group[r.group] \in GroupRow /\ group[r.group] # Absent
    BY <2>1, PresentRow, RowElim DEF IInv, TInv
  <2> QED  BY <1>1, <2>1, <2>2, <2>3
<1>5. CASE StartDeleteProgram(t)
  <2>1. PICK p \in programs :
          Start(t, [kind |-> "delete", id |-> p], Absent, {p}, "years")
    BY <1>5 DEF StartDeleteProgram
  <2>2. p \in Programs
    BY DEF IInv, TInv, TypeOK
  <2>3. [kind |-> "delete", id |-> p] \in Requests
    BY <2>2 DEF Deletes, Requests
  <2> QED  BY <1>1, <2>1, <2>2, <2>3
<1>6. CASE StartDeleteRow(t)
  <2>1. PICK x \in Rows : Start(t, [kind |-> "delete", id |-> x], Absent, {x}, "write")
    BY <1>6 DEF StartDeleteRow
  <2>2. x \in Programs \union Parts \union Groups
    BY DEF IInv, TInv, TypeOK, Rows, Present
  <2>3. [kind |-> "delete", id |-> x] \in Requests
    BY <2>2 DEF Deletes, Requests
  <2> QED  BY <1>1, <2>1, <2>2, <2>3
<1> QED  BY <1>2, <1>3, <1>4, <1>5, <1>6

LEMMA CheckSteps ==
    ASSUME IInv, NEW t \in Txns, LoadYear(t) \/ LoadSpec(t) \/ CheckUse(t) PROVE IInv'
<1>1. CASE LoadYear(t)
  <2>1. Running(t) /\ request[t].kind \in {"create", "update"}
    BY <1>1 DEF LoadYear, Running, IInv, TInv, Asked
  <2> QED  BY <1>1, <2>1, GoStep DEF LoadYear
<1>2. CASE LoadSpec(t)
  <2>1. Running(t) /\ request[t].kind \in {"create", "update"} /\ pc[t] = "spec"
    BY <1>2 DEF LoadSpec, Running, IInv, TInv, Asked
  <2> QED  BY <1>2, <2>1, GoStep DEF LoadSpec
<1>3. CASE CheckUse(t)
  <2>1. Running(t) /\ request[t].kind = "move"
    BY <1>3 DEF CheckUse, Running, IInv, TInv, Asked
  <2> QED  BY <1>3, <2>1, GoStep DEF CheckUse
<1> QED  BY <1>1, <1>2, <1>3

(* The cascade of a deletion reads what it is to take along. *)
LEMMA CascadeStep ==
    ASSUME IInv, NEW t \in Txns, CascadeToYears(t) \/ CascadeToSpecs(t) PROVE IInv'
<1>1. PICK S \in SUBSET Parts, next \in {"specs", "write"} : LoadChildren(t, S, next)
  BY DEF CascadeToYears, CascadeToSpecs, Parts
<1>2. /\ pc[t] \in {"years", "specs"} /\ Running(t) /\ request[t].kind = "delete"
  BY DEF CascadeToYears, CascadeToSpecs, Running, IInv, TInv, Asked
<1> DEFINE C == Children(request[t].id) \intersect S
<1>3. C \subseteq Parts
  OBVIOUS
<1>4. /\ doomed' = [doomed EXCEPT ![t] = @ \union C] /\ pc' = [pc EXCEPT ![t] = next]
      /\ UNCHANGED <<programs, parent, group, used, inUse, request, copy, raced>>
  BY <1>1 DEF LoadChildren, tables
<1> HIDE DEF C
<1>5. /\ pc'[t] = next /\ \A x \in Txns \ {t} : pc'[x] = pc[x]
      /\ \A x \in Txns : Running(x)' <=> Running(x)
      /\ \A x \in Txns : Wanted(x)' = Wanted(x)
  BY <1>2, <1>4 DEF IInv, TInv, TypeOK, Running, Wanted
<1>6. TInv'
  <2>1. pc' \in [Txns -> Stages] /\ doomed' \in [Txns -> SUBSET (Programs \union Parts \union Groups)]
    BY <1>3, <1>4 DEF IInv, TInv, TypeOK, Stages
  <2>2. TypeOK'
    BY <1>4, <2>1 DEF IInv, TInv, TypeOK, Rows, Present
  <2>3. Asked'
    BY <1>2, <1>4, <1>5 DEF IInv, TInv, Asked
  <2> QED  BY <2>2, <2>3 DEF TInv
<1>7. ReferencesExist' /\ ConsistentUnlessRaced'
  BY <1>4 DEF IInv, CInv, ReferencesExist, ConsistentUnlessRaced, Agrees, Referable, Present
<1>8. RacingKnown'
  BY <1>4, <1>5, RacingShrinks DEF IInv, CInv, RacingKnown
<1>9. Unlinked'
  BY <1>2, <1>4, <1>5, LinksKept DEF IInv, TInv, CInv, Unlinked
<1>10. Checked'
  BY <1>2, <1>4, <1>5 DEF IInv, CInv, Checked
<1> QED  BY <1>6, <1>7, <1>8, <1>9, <1>10 DEF IInv, CInv

-----------------------------------------------------------------------------
(* Rows that requests of one step insert, and what refers to groups. *)

LEMMA Idle ==
    ASSUME TInv, UNCHANGED <<pc, request, copy, doomed, raced>>, used \subseteq used'
    PROVE  /\ Asked'
           /\ \A x \in Txns : /\ Running(x)' <=> Running(x)
                             /\ pc'[x] = pc[x] /\ request'[x] = request[x] /\ copy'[x] = copy[x]
  BY DEF TInv, Asked, Running

LEMMA UseStep == ASSUME IInv, NEW g \in Groups, UseGroup(g) \/ FreeGroup(g) PROVE IInv'
<1>1. /\ UNCHANGED <<programs, parent, group, used, pc, request, copy, doomed, raced>>
      /\ inUse' \subseteq inUse \union Present
  BY DEF UseGroup, FreeGroup
<1>2. Asked' /\ RacingKnown' /\ Checked'
  BY <1>1, Idle, ChecksKept DEF IInv, CInv
<1>3. TypeOK'
  BY <1>1 DEF IInv, TInv, TypeOK, Rows, Present
<1>4. ReferencesExist' /\ ConsistentUnlessRaced'
  BY <1>1 DEF IInv, CInv, ReferencesExist, ConsistentUnlessRaced, Agrees, Referable, Present
<1>5. Unlinked'
  BY <1>1, LinksKept DEF IInv, TInv, CInv, Unlinked, Running
<1> QED  BY <1>2, <1>3, <1>4, <1>5 DEF IInv, TInv, CInv

LEMMA CreateProgramStep == ASSUME IInv, NEW p \in Programs, CreateProgram(p) PROVE IInv'
<1>1. /\ programs' = programs \union {p} /\ used' = used \union {p}
      /\ UNCHANGED <<parent, group, inUse, pc, request, copy, doomed, raced>>
  BY DEF CreateProgram
<1>2. Asked' /\ RacingKnown' /\ Checked'
  BY <1>1, Idle, ChecksKept DEF IInv, CInv
<1>3. TypeOK'
  BY <1>1 DEF IInv, TInv, TypeOK, Rows, Present
<1>4. ReferencesExist' /\ ConsistentUnlessRaced'
  BY <1>1 DEF IInv, CInv, ReferencesExist, ConsistentUnlessRaced, Agrees, Referable, Present
<1>5. Unlinked'
  BY <1>1, LinksKept DEF IInv, TInv, CInv, Unlinked, Running
<1> QED  BY <1>2, <1>3, <1>4, <1>5 DEF IInv, TInv, CInv

LEMMA CreatePartStep ==
    ASSUME IInv, NEW x \in Parts, NEW p \in Programs, CreatePart(x, p) PROVE IInv'
<1>1. /\ x \notin used /\ p \in programs
      /\ parent' = [parent EXCEPT ![x] = p] /\ used' = used \union {x}
      /\ UNCHANGED <<programs, group, inUse, pc, request, copy, doomed, raced>>
  BY DEF CreatePart
<1>2. parent[x] = Absent /\ parent'[x] = p /\ \A y \in Parts \ {x} : parent'[y] = parent[y]
  BY <1>1 DEF IInv, TInv, TypeOK, Rows
<1>3. Asked'
  BY <1>1, Idle DEF IInv
<1>4. TypeOK'
  <2>1. parent' \in [Parts -> Programs \union {Absent}]
    BY <1>1 DEF IInv, TInv, TypeOK
  <2>2. Rows' \subseteq used'
    BY <1>1, <1>2 DEF IInv, TInv, TypeOK, Rows, Present
  <2> QED  BY <1>1, <2>1, <2>2 DEF IInv, TInv, TypeOK
<1>5. ASSUME NEW g \in Present
      PROVE  /\ parent'[group[g].year] = parent[group[g].year]
             /\ parent'[group[g].spec] = parent[group[g].spec]
  <2>1. group[g].year \in Parts /\ group[g].spec \in Parts
    BY PresentRow DEF IInv, TInv, Parts
  <2>2. parent[group[g].year] # Absent /\ parent[group[g].spec] # Absent
    BY DEF IInv, ReferencesExist, Referable
  <2> QED  BY <1>2, <2>1, <2>2
<1>6. ReferencesExist' /\ ConsistentUnlessRaced'
  <2>1. Present' = Present
    BY <1>1 DEF Present
  <2>2. \A y \in Parts : parent'[y] \in programs \union {Absent}
    BY <1>1, <1>2 DEF IInv, ReferencesExist
  <2> QED  BY <1>1, <1>5, <2>1, <2>2 DEF IInv, CInv, ReferencesExist, ConsistentUnlessRaced, Agrees, Referable
<1>7. RacingKnown' /\ Checked'
  <2>1. ASSUME NEW t \in Txns, Running(t), request[t].kind \in {"create", "update"}
        PROVE  Wanted(t).year \in Parts /\ Wanted(t).spec \in Parts
    BY <2>1, WantedType, RowElim DEF IInv, Parts
  <2>2. \A y \in Parts : y \in used => parent'[y] = parent[y]
    BY <1>1, <1>2
  <2> QED  BY <1>1, <2>1, <2>2, Idle, ChecksKept DEF IInv, CInv
<1>8. Unlinked'
  BY <1>1, LinksKept DEF IInv, TInv, CInv, Unlinked, Running
<1> QED  BY <1>3, <1>4, <1>6, <1>7, <1>8 DEF IInv, TInv, CInv

-----------------------------------------------------------------------------
(* The writes of the requests. *)

LEMMA WriteMoveStep == ASSUME IInv, NEW t \in Txns, WriteMove(t) PROVE IInv'
<1> DEFINE r == request[t]
<1>1. CASE parent[r.part] = Absent \/ r.to \notin programs
  BY <1>1, RefuseStep DEF WriteMove
<1>2. CASE ~(parent[r.part] = Absent \/ r.to \notin programs)
  <2>1. /\ pc[t] = "write" /\ r.kind = "move" /\ Running(t) /\ r.to \in programs
        /\ parent[r.part] # Absent
        /\ parent' = [parent EXCEPT ![r.part] = r.to]
        /\ UNCHANGED <<programs, group, used, inUse>> /\ Finish(t)
    BY <1>2 DEF WriteMove, Running
  <2>2. r \in Moves /\ r.part \in Parts
    BY <2>1 DEF IInv, TInv, Asked, Requests, Moves, Creates, Updates, Deletes
  <2>3. /\ parent'[r.part] = r.to /\ r.to \in Programs /\ r.to # Absent
        /\ \A y \in Parts \ {r.part} : parent'[y] = parent[y]
        /\ Present' = Present
    BY <2>1, <2>2, StructureAssumption DEF IInv, TInv, TypeOK, Present
  <2>4. /\ \A x \in Txns : Running(x)' => /\ x # t /\ Running(x) /\ pc'[x] = pc[x]
                                         /\ request'[x] = request[x] /\ copy'[x] = copy[x]
        /\ raced' = raced
    BY <2>1, FinishType DEF IInv
  <2>5. TInv'
    <3>1. parent' \in [Parts -> Programs \union {Absent}]
      BY <2>1, <2>3 DEF IInv, TInv, TypeOK
    <3>2. Rows' \subseteq used'
      BY <2>1, <2>3 DEF IInv, TInv, TypeOK, Rows
    <3> QED  BY <2>1, <3>1, <3>2, FinishType, FinishAsked DEF IInv, TInv, TypeOK
  <2>6. ReferencesExist'
    <3>1. \A y \in Parts : parent'[y] \in programs \union {Absent}
      BY <2>1, <2>3 DEF IInv, ReferencesExist
    <3>2. \A y \in Parts : parent[y] # Absent => parent'[y] # Absent
      BY <2>3
    <3>3. \A g \in Present : group[g].year \in Parts /\ group[g].spec \in Parts
      BY PresentRow DEF IInv, TInv, Parts
    <3> QED  BY <2>1, <2>3, <3>1, <3>2, <3>3 DEF IInv, ReferencesExist, Referable
  <2>7. ConsistentUnlessRaced'
    <3>1. SUFFICES ASSUME NEW g \in Present \ raced
                   PROVE  /\ parent'[group[g].year] = parent[group[g].year]
                          /\ parent'[group[g].spec] = parent[group[g].spec]
      BY <2>1, <2>3, <2>4 DEF IInv, CInv, ConsistentUnlessRaced, Agrees
    <3>2. group[g].year # r.part /\ group[g].spec # r.part
      BY <2>1, <3>1 DEF IInv, CInv, Unlinked, LinkedTo
    <3>3. group[g].year \in Parts /\ group[g].spec \in Parts
      BY PresentRow DEF IInv, TInv, Parts
    <3> QED  BY <2>3, <3>2, <3>3
  <2>8. RacingKnown' /\ Checked'
    <3>1. ASSUME NEW x \in Txns, Running(x)', request[x].kind \in {"create", "update"},
                 request[x].group \notin raced
          PROVE  /\ parent'[Wanted(x).year] = parent[Wanted(x).year]
                 /\ parent'[Wanted(x).spec] = parent[Wanted(x).spec]
      <4>1. x # t /\ Running(x)
        BY <2>4, <3>1
      <4>2. /\ Wanted(x).year \in Parts /\ Wanted(x).spec \in Parts
            /\ request[x].group \in Groups
        BY <3>1, <4>1, WantedType, RowElim DEF IInv, Parts
      <4>3. request[x].group \notin Racing
        BY <3>1 DEF IInv, CInv, RacingKnown
      <4>4. r.part \notin {Wanted(x).year, Wanted(x).spec}
        BY <2>1, <3>1, <4>1, <4>2, <4>3 DEF Racing, Writes
      <4> QED  BY <2>3, <4>2, <4>4
    <3> QED  BY <2>1, <2>4, <3>1, ChecksKept DEF IInv, CInv
  <2>9. Unlinked'
    BY <2>1, <2>4, LinksKept DEF IInv, TInv, CInv, Unlinked
  <2> QED  BY <2>5, <2>6, <2>7, <2>8, <2>9 DEF IInv, CInv
<1> QED  BY <1>1, <1>2

LEMMA WriteGroupStep == ASSUME IInv, NEW t \in Txns, WriteGroup(t) PROVE IInv'
<1> DEFINE g == request[t].group
           new == Written(t)
           refused == \/ request[t].kind = "create" /\ g \in used
                      \/ request[t].kind = "update" /\ group[g] = Absent
                      \/ ~Referable(new)
<1>1. CASE refused
  BY <1>1, RefuseStep DEF WriteGroup
<1>2. CASE ~refused
  <2>1. /\ pc[t] = "write" /\ request[t].kind \in {"create", "update"} /\ Running(t)
        /\ Referable(new)
        /\ request[t].kind = "update" => group[g] # Absent
        /\ request[t].kind = "create" => g \notin used
        /\ group' = [group EXCEPT ![g] = new] /\ used' = used \union {g}
        /\ UNCHANGED <<programs, parent, inUse>> /\ Finish(t)
    BY <1>2 DEF WriteGroup, Running
  <2>2. g \in Groups /\ new \in GroupRow /\ new # Absent /\ Wanted(t) \in GroupRow
    BY <2>1, WantedType, WrittenType, RowElim DEF IInv
  <2>3. /\ group'[g] = new /\ \A h \in Groups \ {g} : group'[h] = group[h]
        /\ Present' = Present \union {g} /\ group' \in [Groups -> GroupRow \union {Absent}]
    BY <2>1, <2>2 DEF IInv, TInv, TypeOK, Present
  <2>4. /\ \A x \in Txns : Running(x)' => /\ x # t /\ Running(x) /\ pc'[x] = pc[x]
                                         /\ request'[x] = request[x] /\ copy'[x] = copy[x]
        /\ raced' = raced
    BY <2>1, FinishType DEF IInv
  <2> HIDE DEF g, new
  <2>5. TInv'
    <3>1. Rows' \subseteq used'
      BY <2>1, <2>3 DEF IInv, TInv, TypeOK, Rows
    <3> QED  BY <2>1, <2>3, <3>1, FinishType, FinishAsked DEF IInv, TInv, TypeOK
  <2>6. ReferencesExist'
    <3>1. \A h \in Present' : Referable(group'[h])
      BY <2>1, <2>3 DEF IInv, ReferencesExist, Present
    <3> QED  BY <2>1, <2>3, <3>1 DEF IInv, ReferencesExist, Referable
  <2>7. g \notin raced => new = Wanted(t)
    <3>1. CASE request[t].kind = "create"
      BY <3>1 DEF new, Written
    <3>2. CASE request[t].kind = "update" /\ g \notin raced
      <4>1. group[g] = copy[t]
        BY <2>1, <3>2 DEF IInv, CInv, Checked, g
      <4>2. new = [c \in Columns |-> IF Wanted(t)[c] # copy[t][c] THEN Wanted(t)[c] ELSE copy[t][c]]
        BY <3>2, <4>1 DEF new, Written, g
      <4>3. Wanted(t) = [c \in Columns |-> Wanted(t)[c]]
        BY DEF Wanted
      <4> QED  BY <4>2, <4>3
    <3> QED  BY <2>1, <3>1, <3>2
  <2>8. ConsistentUnlessRaced'
    <3>1. g \notin raced => Agrees(new)
      <4>1. SUFFICES ASSUME g \notin raced PROVE Agrees(new)
        OBVIOUS
      <4>2. /\ parent[new.year] \in {new.program, Absent}
            /\ parent[new.spec] \in {new.program, Absent}
        BY <2>1, <2>7, <4>1 DEF IInv, CInv, Checked, g
      <4> QED  BY <2>1, <4>2 DEF Referable, Agrees
    <3>2. \A h \in Present' \ raced : Agrees(group'[h])
      BY <2>3, <3>1 DEF IInv, CInv, ConsistentUnlessRaced, Present
    <3> QED  BY <2>1, <2>4, <3>2 DEF ConsistentUnlessRaced, Agrees
  <2>9. \A x \in Txns : Running(x)' /\ Writes(x, g) => g \in raced
    BY <2>1, <2>2, <2>4 DEF IInv, CInv, RacingKnown, Racing, Writes, g
  <2>10. RacingKnown' /\ Checked'
    <3>1. ASSUME NEW x \in Txns, Running(x)', request[x].kind = "update",
                 request[x].group \notin raced
          PROVE  group'[request[x].group] = group[request[x].group]
      <4>1. request[x].group \in Groups
        BY <2>4, <3>1, WantedType DEF IInv
      <4>2. request[x].group # g
        BY <2>9, <3>1 DEF Writes
      <4> QED  BY <2>3, <4>1, <4>2
    <3> QED  BY <2>1, <2>4, <3>1, ChecksKept DEF IInv, CInv
  <2>11. Unlinked'
    <3>1. SUFFICES ASSUME NEW x \in Txns, Running(x)', Running(x), x # t, request'[x] = request[x],
                          request[x].kind = "move", pc[x] = "write",
                          NEW h \in LinkedTo(request[x].part)'
                   PROVE  h \in raced
      BY <2>4 DEF Unlinked
    <3>2. CASE h # g
      <4>1. h \in LinkedTo(request[x].part)
        BY <2>3, <3>1, <3>2 DEF LinkedTo, Present
      <4> QED  BY <3>1, <4>1 DEF IInv, CInv, Unlinked
    <3>3. CASE h = g /\ g \notin raced
      <4>1. request[x].part \in {Wanted(t).year, Wanted(t).spec}
        BY <2>3, <2>7, <3>1, <3>3 DEF LinkedTo
      <4>2. g \in Racing
        BY <2>1, <2>2, <3>1, <4>1 DEF Racing, Writes, g
      <4> QED  BY <3>3, <4>2 DEF IInv, CInv, RacingKnown
    <3> QED  BY <3>2, <3>3
  <2> QED  BY <2>5, <2>6, <2>8, <2>10, <2>11 DEF IInv, CInv
<1> QED  BY <1>1, <1>2

LEMMA DeleteStep == ASSUME IInv, NEW t \in Txns, Delete(t) PROVE IInv'
<1> DEFINE D == doomed[t]
<1>1. CASE Referenced(t)
  BY <1>1, RefuseStep DEF Delete
<1>2. CASE ~Referenced(t)
  <2>1. /\ programs' = programs \ D
        /\ parent' = [x \in Parts |-> IF x \in D THEN Absent ELSE parent[x]]
        /\ group' = [g \in Groups |-> IF g \in D THEN Absent ELSE group[g]]
        /\ UNCHANGED <<used, inUse>> /\ Finish(t)
    BY <1>2 DEF Delete
  <2>2. /\ \A x \in Parts \ D : parent[x] \notin D
        /\ \A g \in Present \ D : \A c \in Columns : group[g][c] \notin D
        /\ D \intersect inUse = {}
    BY <1>2 DEF Referenced
  <2>3. /\ parent' \in [Parts -> Programs \union {Absent}]
        /\ group' \in [Groups -> GroupRow \union {Absent}]
        /\ \A x \in Parts : parent'[x] = IF x \in D THEN Absent ELSE parent[x]
        /\ \A g \in Groups : group'[g] = IF g \in D THEN Absent ELSE group[g]
        /\ Present' = Present \ D
    BY <2>1 DEF IInv, TInv, TypeOK, Present
  <2>4. /\ \A x \in Txns : Running(x)' => /\ x # t /\ Running(x) /\ pc'[x] = pc[x]
                                         /\ request'[x] = request[x] /\ copy'[x] = copy[x]
        /\ raced' = raced
    BY <2>1, FinishType DEF IInv
  <2> HIDE DEF D
  <2>5. TInv'
    <3>1. Rows' \subseteq used'
      BY <2>1, <2>3 DEF IInv, TInv, TypeOK, Rows
    <3>2. programs' \subseteq Programs
      BY <2>1 DEF IInv, TInv, TypeOK
    <3>3. Asked'
      BY <2>1, FinishAsked DEF IInv
    <3> QED  BY <2>1, <2>3, <3>1, <3>2, <3>3, FinishType DEF IInv, TInv, TypeOK
  <2>6. ASSUME NEW g \in Present'
        PROVE  /\ g \in Present \ D /\ group'[g] = group[g]
               /\ group[g].program \notin D
               /\ parent'[group[g].year] = parent[group[g].year]
               /\ parent'[group[g].spec] = parent[group[g].spec]
    <3>1. g \in Present \ D /\ group'[g] = group[g]
      BY <2>3, PresentRow DEF IInv, TInv
    <3>2. group[g].year \in Parts \ D /\ group[g].spec \in Parts \ D /\ group[g].program \notin D
      BY <2>2, <3>1, PresentRow DEF IInv, TInv, Parts, Columns
    <3> QED  BY <2>3, <3>1, <3>2
  <2>7. ReferencesExist'
    <3>1. \A x \in Parts : parent'[x] \in programs' \union {Absent}
      BY <2>1, <2>2, <2>3 DEF IInv, ReferencesExist
    <3>2. \A g \in Present' : Referable(group[g])
      BY <2>6 DEF IInv, ReferencesExist
    <3>3. \A g \in Present' : Referable(group[g])'
      BY <2>1, <2>6, <3>2 DEF Referable
    <3>4. inUse' \subseteq Present'
      BY <2>1, <2>2, <2>3 DEF IInv, ReferencesExist
    <3> QED  BY <3>1, <3>3, <3>4 DEF ReferencesExist
  <2>8. ConsistentUnlessRaced'
    BY <2>4, <2>6 DEF IInv, CInv, ConsistentUnlessRaced, Agrees
  <2>9. RacingKnown' /\ Checked'
    <3>1. ASSUME NEW x \in Txns, Running(x)', request[x].kind \in {"create", "update"}
          PROVE  /\ parent'[Wanted(x).year] \in {parent[Wanted(x).year], Absent}
                 /\ parent'[Wanted(x).spec] \in {parent[Wanted(x).spec], Absent}
                 /\ group'[request[x].group] \in {group[request[x].group], Absent}
      <4>1. /\ Wanted(x).year \in Parts /\ Wanted(x).spec \in Parts
            /\ request[x].group \in Groups
        BY <2>4, <3>1, WantedType, RowElim DEF IInv, Parts
      <4> QED  BY <2>3, <4>1
    <3> QED  BY <2>1, <2>4, <3>1, ChecksKept DEF IInv, CInv
  <2>10. Unlinked'
    <3>1. \A y : LinkedTo(y)' \subseteq LinkedTo(y)
      BY <2>6 DEF LinkedTo
    <3> QED  BY <2>4, <3>1 DEF IInv, CInv, Unlinked
  <2> QED  BY <2>5, <2>7, <2>8, <2>9, <2>10 DEF IInv, CInv
<1> QED  BY <1>1, <1>2

-----------------------------------------------------------------------------
LEMMA InvInit == Init => IInv
<1> SUFFICES ASSUME Init PROVE IInv
  OBVIOUS
<1>1. /\ parent = InitialParent /\ group = InitialGroup
      /\ programs = {p \in Programs : \E x \in Parts : InitialParent[x] = p}
      /\ used = Rows /\ inUse = {} /\ raced = {}
      /\ pc = [t \in Txns |-> "new"] /\ request = [t \in Txns |-> NoRequest]
      /\ copy = [t \in Txns |-> Absent] /\ doomed = [t \in Txns |-> {}]
  BY DEF Init
<1>2. \A t \in Txns : ~Running(t)
  BY <1>1 DEF Running
<1>3. TInv
  BY <1>1, <1>2, StructureAssumption DEF TInv, TypeOK, Asked, Stages
<1>4. \A g \in Present : /\ group[g].year \in Parts /\ group[g].spec \in Parts
                          /\ group[g].program \in Programs /\ Agrees(group[g])
  <2>1. \A g \in Present : Agrees(group[g])
    BY <1>1, StructureAssumption DEF Present, Agrees
  <2> QED  BY <1>3, <2>1, PresentRow DEF TInv, Parts
<1>5. ReferencesExist
  BY <1>1, <1>4, StructureAssumption DEF ReferencesExist, Referable, Agrees
<1>6. CInv
  BY <1>2, <1>4 DEF CInv, RacingKnown, Racing, Checked, Unlinked, ConsistentUnlessRaced
<1> QED  BY <1>3, <1>5, <1>6 DEF IInv

LEMMA InvStep == IInv /\ [Next]_vars => IInv'
<1> SUFFICES ASSUME IInv, [Next]_vars PROVE IInv'
  OBVIOUS
<1>1. CASE UNCHANGED vars
  <2>1. UNCHANGED <<programs, parent, group, used, inUse, pc, request, copy, doomed, raced>>
    BY <1>1 DEF vars, tables
  <2>2. TInv' /\ ReferencesExist'
    BY <2>1 DEF IInv, TInv, TypeOK, Asked, Rows, Present, Running, ReferencesExist, Referable
  <2>3. RacingKnown' /\ Checked' /\ Unlinked'
    BY <2>1, Idle, ChecksKept, LinksKept DEF IInv, TInv, CInv, Unlinked
  <2>4. ConsistentUnlessRaced'
    BY <2>1 DEF IInv, CInv, ConsistentUnlessRaced, Agrees, Present
  <2> QED  BY <2>2, <2>3, <2>4 DEF IInv, CInv
<1>2. ASSUME NEW p \in Programs, CreateProgramYear(p) \/ CreateSpecialization(p) PROVE IInv'
  BY <1>2, CreatePartStep DEF CreateProgramYear, CreateSpecialization, Parts
<1> QED  BY <1>1, <1>2, CreateProgramStep, UseStep, StartSteps, CheckSteps, CascadeStep,
            WriteMoveStep, WriteGroupStep, DeleteStep DEF Next

LEMMA Invariance == Spec => []IInv
  BY InvInit, InvStep, PTL DEF Spec

(* Every variable of the structure keeps its type. *)
THEOREM StructureTypeCorrect == Spec => []TypeOK
  BY Invariance, PTL DEF IInv, TInv

(* Whatever is created, moved and deleted at once, the rows that a row     *)
(* refers to exist.                                                        *)
THEOREM ReferencesKept == Spec => []ReferencesExist
  BY Invariance, PTL DEF IInv

(* A group's year and specialization are of its program, unless a write of *)
(* it raced another one, or a change of program of either.                 *)
THEOREM GroupsConsistent == Spec => []ConsistentUnlessRaced
  BY Invariance, PTL DEF IInv, CInv

=============================================================================
