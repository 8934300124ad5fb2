----------------------------- MODULE MCAuthSessions -----------------------------
(* One user, who logs in and refreshes up to three sessions. *)
EXTENDS AuthSessions, TLC

AnyTxn == Permutations(Txns)

=============================================================================
