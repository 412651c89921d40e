-------------------------------- MODULE Games --------------------------------
(***************************************************************************)
(* A game of the team: its status and its shot clock, changed by PATCH      *)
(* requests that load the row without a lock, check what they loaded, and   *)
(* at the commit write only the attributes whose value differs from the one *)
(* they loaded. Composed with Teams: who may patch is decided by the roster *)
(* and by the team's deletion.                                              *)
(***************************************************************************)
EXTENDS Teams

CONSTANT
  Seconds,      \* values of shot_clock_seconds
  GameStatuses  \* values of GameStatus in use

TERMINAL_GAME_STATUSES == {"completed", "failed"}

ASSUME GamesAssumption ==
  "scheduled" \in GameStatuses /\ None \notin Seconds /\ None \notin GameStatuses

VARIABLES
  game,   \* the row of the game, None before it is created
  patch,  \* PATCH requests under way
  stale   \* history: a patch was committed over a row it had not loaded

gvars == <<game, patch, stale>>
Game == [status : GameStatuses, on : BOOLEAN, secs : Seconds \cup {None}]

GameInit == game = None /\ patch = [r \in Reqs |-> None] /\ stale = FALSE

\* CreateGameRequest: seconds exactly when the clock is on.
create_game(u, secs) ==
  /\ get_team_or_404 /\ u \in Coaches \cup Admins /\ MayAct(u) /\ require_team_coach(u)
  /\ game = None /\ left.games > 0
  /\ game' = [status |-> "scheduled", on |-> secs # None, secs |-> secs]
  /\ left' = [left EXCEPT !.games = @ - 1]
  /\ UNCHANGED <<team, seats, invite, account, leaving, join, overtaken, patch, stale>>

\* UpdateGameRequest: the fields a patch sets, None for one it does not.
Updates ==
  {upd \in [status : GameStatuses \cup {None}, on : BOOLEAN \cup {None}, secs : Seconds \cup {None}] :
     /\ upd.on = TRUE => upd.secs # None
     /\ upd.on = FALSE => upd.secs = None}

\* GAME_TERMINAL_STATUS
status_allowed(u, upd) ==
  \/ upd.status \in {None, game.status}
  \/ game.status \notin TERMINAL_GAME_STATUSES
  \/ u \in Admins

\* model_dump(exclude_unset=True)
Given(x, old) == IF x = None THEN old ELSE x

\* Mutant: the seconds survive when the clock is turned off.
patched_keeps_seconds(g, upd) ==
  [status |-> Given(upd.status, g.status), on |-> Given(upd.on, g.on), secs |-> Given(upd.secs, g.secs)]

\* What update_game makes of the row it loaded: no seconds without a clock.
patched(g, upd) ==
  LET on == Given(upd.on, g.on) IN
  [status |-> Given(upd.status, g.status), on |-> on,
   secs |-> IF on THEN Given(upd.secs, g.secs) ELSE None]

\* The load and the checks; a patch that would leave a clock without seconds
\* is refused.
update_game_load(r, u, upd) ==
  /\ patch[r] = None /\ game # None
  /\ get_team_or_404 /\ MayAct(u) /\ require_team_coach(u)
  /\ status_allowed(u, upd)
  /\ LET to == patched(game, upd) IN
       /\ to.on => to.secs # None
       /\ patch' = [patch EXCEPT ![r] = [user |-> u, from |-> game, to |-> to]]
  /\ UNCHANGED <<vars, game, stale>>

\* The flush: an attribute is written when it differs from what was loaded.
update_game_commit(r) ==
  LET q == patch[r] IN
  /\ q # None
  /\ game' = [a \in DOMAIN game |-> IF q.to[a] # q.from[a] THEN q.to[a] ELSE game[a]]
  /\ stale' = (stale \/ game # q.from)
  /\ patch' = [patch EXCEPT ![r] = None]
  /\ UNCHANGED vars

GameNext ==
  \/ \E u \in Users, secs \in Seconds \cup {None} : create_game(u, secs)
  \/ \E r \in Reqs, u \in Users, upd \in Updates : update_game_load(r, u, upd)
  \/ \E r \in Reqs : update_game_commit(r)

allVars == <<vars, gvars>>
AllInit == Init /\ GameInit
AllNext == (Next /\ UNCHANGED gvars) \/ GameNext
AllSpec == AllInit /\ [][AllNext]_allVars

-----------------------------------------------------------------------------
(* Properties.                                                             *)

\* Type invariant.
AllTypeOK ==
  /\ TypeOK
  /\ game \in Game \cup {None}
  /\ patch \in [Reqs -> [user : Users, from : Game, to : Game] \cup {None}]
  /\ stale \in BOOLEAN

\* A clock that is on has its seconds and one that is off has none, through
\* any sequence of partial updates, as long as no patch is committed over a
\* row it had not loaded (update_game).
ShotClockAgrees == game = None \/ stale \/ (game.on <=> game.secs # None)

\* The roster: every invite's count is the seats taken with it, and every seat
\* and number has one holder (join_team).
RosterExact == AllTypeOK /\ InviteUsesExact /\ OneSeatEach
=============================================================================
