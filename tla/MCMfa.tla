-------------------------------- MODULE MCMfa --------------------------------
(* Small instances of Mfa: request slots are alike.                          *)
EXTENDS Mfa, TLC

Symmetric == Permutations(MfaRequests)
==============================================================================
