------------------------------ MODULE MCCatalog ------------------------------
(* Subjects: one that exists and one that may be created, with a name and  *)
(* a code that no two of them share.                                       *)
EXTENDS Catalog, TLC

CONSTANTS x1, x2

SubjectColumns == {"name", "code"}
SubjectValues == "name" :> {"algebra", "logic"} @@ "code" :> {"A1", "L1"}
OneSubject == x1 :> [name |-> "algebra", code |-> "A1"] @@ x2 :> Absent

AnyTxn == Permutations(Txns)

=============================================================================
