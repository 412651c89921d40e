--------------------------- MODULE MCAccountTokens ---------------------------
(* Small instances of AccountTokens: request slots and token rows are alike. *)
EXTENDS AccountTokens, TLC

Symmetric == Permutations(Requests) \cup Permutations(Tokens)
=============================================================================
