--------------------------- MODULE MCAuthSessions ---------------------------
(* Small instances of AuthSessions: request slots and token ids are alike.  *)
EXTENDS AuthSessions, TLC

Symmetric == Permutations(Requests) \cup Permutations(Jtis)
=============================================================================
