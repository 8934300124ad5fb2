-------------------------------- MODULE MCSignIn --------------------------------
(* One address, signed in to under one name, beside two requests for a     *)
(* role and two runs of the script.                                        *)
EXTENDS SignIn, TLC

Alike == Permutations(Txns) \union Permutations(Seeds)

=============================================================================
