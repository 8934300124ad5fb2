----------------------------- MODULE MCFcmTokens -----------------------------
(* Two users of a device, registered to the first. *)
EXTENDS FcmTokens, TLC

CONSTANTS u1, u2, d1, d2

FirstHolds == {<<u1, d1>>}

(* Requests differ in what they ask for only. *)
Alike == Permutations(Txns)

=============================================================================
