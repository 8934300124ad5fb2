------------------------------- MODULE MCLessons -------------------------------
(* Two groups, a student and a lecturer, three requests of any kind.        *)
EXTENDS Lessons, TLC

AnyTxn == Permutations(Txns)

=============================================================================
