-------------------------- MODULE MCProgramStructure --------------------------
(* One program with a year and a specialization; another of each and a     *)
(* group may be created.                                                   *)
EXTENDS ProgramStructure, TLC

CONSTANTS p1, p2, y1, y2, s1, s2, g1

OneProgram == y1 :> p1 @@ s1 :> p1 @@ y2 :> Absent @@ s2 :> Absent
NoGroup == g1 :> Absent

AnyTxn == Permutations(Txns)

=============================================================================
