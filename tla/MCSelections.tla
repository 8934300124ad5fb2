---------------------------- MODULE MCSelections ----------------------------
(* Two students, one of whom has a selection already. *)
EXTENDS Selections, TLC

CONSTANTS u1, u2, g1, g2

OneSelected == u1 :> g1 @@ u2 :> NoRow

=============================================================================
