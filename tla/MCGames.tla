------------------------------- MODULE MCGames -------------------------------
(* Instances of Games, and with it of Teams, for TLC.                        *)
EXTENDS Games, TLC

\* Two invites, or one and what may end, or a game and what may end.
MCBudgets == {[invites |-> 2, joins |-> 3, games |-> 0, ends |-> 0],
              [invites |-> 1, joins |-> 2, games |-> 0, ends |-> 1],
              [invites |-> 0, joins |-> 0, games |-> 1, ends |-> 1]}
MCInviteRoles == {"head_coach", "assistant_coach", "player"}
MCGameStatuses == {"scheduled", "completed"}

Symmetry == Permutations(Players) \cup Permutations(Invites) \cup Permutations(Reqs)
              \cup Permutations(Jerseys)
=============================================================================
