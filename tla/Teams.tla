-------------------------------- MODULE Teams --------------------------------
(***************************************************************************)
(* One team: its founding, its invite codes, the seats people take with     *)
(* them, its deletion, and the deletion of accounts that sit on it. Every   *)
(* request is a READ COMMITTED transaction; a join is three steps of one    *)
(* (look the code up, look the roster up, insert and commit) and a deletion *)
(* of an account is two. A refused request leaves only an audit row and is  *)
(* a step that is not taken.                                                *)
(***************************************************************************)
EXTENDS Integers, FiniteSets

CONSTANTS
  Coaches, Players, Admins,  \* accounts by users.role
  Verified,     \* accounts that pass require_verified_account
  Invites,      \* rows of team_invites that may be created
  Reqs,         \* join requests that may be under way at once
  Jerseys,      \* jersey numbers
  InviteRoles,  \* seat roles that invites are issued for
  MaxUses,      \* values of max_uses that invites are issued with
  Budgets,      \* bounds on the invites, joins and games of a behaviour, and
                \* on how many invites expire and accounts are deleted (ends)
  None

Users == Coaches \cup Players \cup Admins
SeatRoles == {"head_coach", "assistant_coach", "manager", "player", "captain"}
PLAYER_SEAT_ROLES == {"player", "captain"}
COACH_TEAM_ROLES == {"head_coach", "assistant_coach"}

Seat == [user : Users, role : SeatRoles, jersey : Jerseys \cup {None},
         active : BOOLEAN, via : Invites \cup {None, "founder"}]
Invite == [role : SeatRoles, max : Nat, uses : Nat, by : Users,
           st : {"live", "expired"}]
Join == [pc : {"looked", "insert"}, user : Users, code : Invites \cup {None},
         role : SeatRoles, jersey : Jerseys \cup {None}, uses : Nat]
NoJoin == [pc |-> "idle"]

ASSUME TeamsAssumption ==
  /\ Verified \subseteq Users /\ InviteRoles \subseteq SeatRoles
  /\ MaxUses \subseteq Nat \ {0}
  /\ None \notin Users \cup Invites \cup Jerseys \cup Invite /\ "founder" \notin Invites
  /\ Budgets \subseteq [invites : Nat, joins : Nat, games : Nat, ends : Nat]
  /\ Coaches \cap Players = {} /\ Coaches \cap Admins = {} /\ Players \cap Admins = {}

VARIABLES
  team,      \* "none", "open", or "deleted" once deleted_at is set
  seats,     \* rows of team_memberships, with the invite each came through
  invite,    \* rows of team_invites
  account,   \* whether a user's account is active, being deleted, or deleted
  leaving,   \* seats that the deletion of an account has read
  join,      \* joins under way
  left,      \* what may still come and end
  overtaken  \* history: users who took a seat after their deletion read

vars == <<team, seats, invite, account, leaving, join, left, overtaken>>

Init ==
  /\ team = "none" /\ seats = {}
  /\ invite = [i \in Invites |-> None]
  /\ account = [u \in Users |-> "active"]
  /\ leaving = [u \in Users |-> {}]
  /\ join = [r \in Reqs |-> NoJoin]
  /\ left \in Budgets
  /\ overtaken = {}

-----------------------------------------------------------------------------
(* permissions.py                                                          *)

\* get_current_user and require_verified_account.
MayAct(u) == account[u] # "deleted" /\ (u \in Admins \/ u \in Verified)

get_team_or_404 == team = "open"

\* get_team_membership: active rows only.
membership(u) == {s \in seats : s.user = u /\ s.active}

require_team_coach(u) ==
  u \in Admins \/ \E s \in membership(u) : s.role \in COACH_TEAM_ROLES

\* _team_role_allowed_for_user
role_allowed(u, role) ==
  \/ u \in Admins
  \/ IF role \in PLAYER_SEAT_ROLES THEN u \in Players ELSE u \in Coaches

-----------------------------------------------------------------------------
(* POST /teams, /teams/{id}/invite, DELETE /teams/{id}                     *)

\* u takes a seat after the deletion of the account has read his seats.
Overtakes(u) == IF account[u] = "active" THEN overtaken ELSE overtaken \cup {u}

create_team(u) ==
  /\ team = "none" /\ u \in Coaches \cup Admins /\ MayAct(u)
  /\ team' = "open"
  /\ seats' = {[user |-> u, role |-> "head_coach", jersey |-> None,
                active |-> TRUE, via |-> "founder"]}
  /\ overtaken' = Overtakes(u)
  /\ UNCHANGED <<invite, account, leaving, join, left>>

\* Mutant: any coach of the team may issue any invite.
may_issue_any(u, role) == require_team_coach(u)

\* Only a head coach or an admin may invite a head coach.
may_issue(u, role) ==
  /\ require_team_coach(u)
  /\ role = "head_coach" =>
       u \in Admins \/ \E s \in membership(u) : s.role = "head_coach"

\* _generate_unique_invite_code: a code, here the row, that is not in use.
create_invite(u, i, role, max) ==
  /\ get_team_or_404 /\ MayAct(u) /\ may_issue(u, role)
  /\ invite[i] = None /\ left.invites > 0
  /\ invite' = [invite EXCEPT ![i] = [role |-> role, max |-> max, uses |-> 0, by |-> u, st |-> "live"]]
  /\ left' = [left EXCEPT !.invites = @ - 1]
  /\ UNCHANGED <<team, seats, account, leaving, join, overtaken>>

Ends == left.ends > 0 /\ left' = [left EXCEPT !.ends = @ - 1]

\* expires_at passes.
invite_expires(i) ==
  /\ invite[i] # None /\ invite[i].st = "live" /\ Ends
  /\ invite' = [invite EXCEPT ![i].st = "expired"]
  /\ UNCHANGED <<team, seats, account, leaving, join, overtaken>>

\* A second deletion is answered the same way and changes nothing.
delete_team(u) ==
  /\ team = "open" /\ MayAct(u) /\ require_team_coach(u)
  /\ team' = "deleted"
  /\ UNCHANGED <<seats, invite, account, leaving, join, left, overtaken>>

-----------------------------------------------------------------------------
(* POST /teams/join                                                        *)

\* Mutant: the invite is read without FOR UPDATE.
unlocked_always(i) == TRUE

\* SELECT ... FOR UPDATE waits for the join that has the row of the invite.
unlocked(i) == \A r \in Reqs : join[r].pc # "idle" => join[r].code # i

\* INVITE_INACTIVE (no code clears is_active), INVITE_EXPIRED, INVITE_EXHAUSTED.
invite_usable(i) ==
  invite[i] # None /\ invite[i].st = "live" /\ invite[i].uses < invite[i].max

\* The team's own code seats players, without a limit.
target_role(c) == IF c = None THEN "player" ELSE invite[c].role

\* The code c (an invite, or None for the team's own) is looked up, the team
\* is loaded, and what was loaded is checked.
join_lookup(r, u, c, j) ==
  /\ join[r].pc = "idle" /\ MayAct(u) /\ left.joins > 0
  /\ c # None => unlocked(c) /\ invite_usable(c)
  /\ get_team_or_404
  /\ role_allowed(u, target_role(c))
  /\ join' = [join EXCEPT ![r] =
       [pc |-> "looked", user |-> u, code |-> c, role |-> target_role(c),
        jersey |-> j, uses |-> IF c = None THEN 0 ELSE invite[c].uses]]
  /\ left' = [left EXCEPT !.joins = @ - 1]
  /\ UNCHANGED <<team, seats, invite, account, leaving, overtaken>>

is_player_seat(q) == q.role \in PLAYER_SEAT_ROLES

\* The seat q would take: staff have no number.
seat_of(q) ==
  [user |-> q.user, role |-> q.role, jersey |-> IF is_player_seat(q) THEN q.jersey ELSE None,
   active |-> TRUE, via |-> q.code]

\* ALREADY_MEMBER (also for a seat that is no longer active),
\* JERSEY_NUMBER_REQUIRED (not for an admin), JERSEY_NUMBER_TAKEN.
join_refused(q) ==
  \/ \E s \in seats : s.user = q.user
  \/ is_player_seat(q) /\ q.user \in Players /\ q.jersey = None
  \/ is_player_seat(q) /\ q.jersey # None /\ \E s \in seats : s.jersey = q.jersey

\* The queries on the roster; a refusal commits and releases the invite.
join_check(r) ==
  /\ join[r].pc = "looked"
  /\ join' = [join EXCEPT ![r] = IF join_refused(@) THEN NoJoin ELSE [@ EXCEPT !.pc = "insert"]]
  /\ UNCHANGED <<team, seats, invite, account, leaving, left, overtaken>>

\* uq_team_memberships_team_user and uq_team_memberships_team_jersey.
unique_violation(s) ==
  \E o \in seats : o.user = s.user \/ (s.jersey # None /\ o.jersey = s.jersey)

\* IntegrityError at the flush: the transaction is rolled back.
join_integrity_error(r) ==
  /\ join[r].pc = "insert" /\ unique_violation(seat_of(join[r]))
  /\ join' = [join EXCEPT ![r] = NoJoin]
  /\ UNCHANGED <<team, seats, invite, account, leaving, left, overtaken>>

\* The seat is inserted, uses is written as the value that was read plus one.
join_commit(r) ==
  LET q == join[r] IN
  /\ q.pc = "insert" /\ ~unique_violation(seat_of(q))
  /\ seats' = seats \cup {seat_of(q)}
  /\ invite' = IF q.code = None THEN invite ELSE [invite EXCEPT ![q.code].uses = q.uses + 1]
  /\ join' = [join EXCEPT ![r] = NoJoin]
  /\ overtaken' = Overtakes(q.user)
  /\ UNCHANGED <<team, account, leaving, left>>

-----------------------------------------------------------------------------
(* DELETE /auth/me, as far as the roster sees it                           *)

delete_account_read(u) ==
  /\ account[u] = "active" /\ Ends
  /\ account' = [account EXCEPT ![u] = "deleting"]
  /\ leaving' = [leaving EXCEPT ![u] = {s \in seats : s.user = u}]
  /\ UNCHANGED <<team, seats, invite, join, overtaken>>

\* Mutant: the seat loses its role and keeps its place.
vacated_active(s) == [s EXCEPT !.role = "player"]

vacated(s) == [s EXCEPT !.active = FALSE, !.role = "player"]

delete_account_commit(u) ==
  /\ account[u] = "deleting"
  /\ account' = [account EXCEPT ![u] = "deleted"]
  /\ seats' = (seats \ leaving[u]) \cup {vacated(s) : s \in leaving[u]}
  /\ leaving' = [leaving EXCEPT ![u] = {}]
  /\ UNCHANGED <<team, invite, join, left, overtaken>>

-----------------------------------------------------------------------------
Next ==
  \/ \E u \in Users : create_team(u) \/ delete_team(u)
  \/ \E u \in Users, i \in Invites, role \in InviteRoles, max \in MaxUses :
       create_invite(u, i, role, max)
  \/ \E i \in Invites : invite_expires(i)
  \/ \E r \in Reqs, u \in Users, c \in Invites \cup {None}, j \in Jerseys \cup {None} :
       join_lookup(r, u, c, j)
  \/ \E r \in Reqs : join_check(r) \/ join_integrity_error(r) \/ join_commit(r)
  \/ \E u \in Users : delete_account_read(u) \/ delete_account_commit(u)

Spec == Init /\ [][Next]_vars

-----------------------------------------------------------------------------
(* What list_team_members, get_team and list_my_teams show.                *)
Roster == IF team = "open" THEN {s \in seats : s.active} ELSE {}

(* Properties.                                                             *)

\* Type invariant.
TypeOK ==
  /\ team \in {"none", "open", "deleted"}
  /\ seats \subseteq Seat
  /\ invite \in [Invites -> Invite \cup {None}]
  /\ account \in [Users -> {"active", "deleting", "deleted"}]
  /\ leaving \in [Users -> SUBSET Seat]
  /\ join \in [Reqs -> Join \cup {NoJoin}]
  /\ left \in [invites : Nat, joins : Nat, games : Nat, ends : Nat]
  /\ overtaken \subseteq Users

\* An invite that may be used n times seats at most n people, and its counter
\* is exactly the number of seats taken with it: however joins with one code
\* race, fail at the unique constraint or are refused in between (join_team).
InviteUsesExact ==
  \A i \in Invites : invite[i] # None =>
    /\ invite[i].uses = Cardinality({s \in seats : s.via = i})
    /\ invite[i].uses <= invite[i].max

\* Two joins that both found a number free, or a user's two joins that both
\* found no seat of his, do not both get it: one seat per user and one user
\* per number, seats of deleted accounts included (join_team,
\* uq_team_memberships_team_user and uq_team_memberships_team_jersey).
OneSeatEach ==
  \A s, o \in seats : s # o => s.user # o.user /\ (s.jersey # None => s.jersey # o.jersey)

\* Authority does not grow on its own: a head coach who did not found the
\* team was invited by an admin or by a head coach, never through an
\* assistant. Accounts deleted since have left only a player's seat
\* (create_invite, join_team, delete_my_account).
HeadCoachChain ==
  \A s \in seats : s.role = "head_coach" /\ s.via # "founder" =>
    LET by == invite[s.via].by IN
    \/ by \in Admins
    \/ account[by] = "deleted"
    \/ \E o \in seats : o.user = by /\ o.role = "head_coach"

\* "All memberships are deactivated so the user disappears from team rosters":
\* true of every deleted account, but for one that took a seat
\* between the read of its memberships and the commit, or by a join that was
\* under way (delete_my_account, list_team_members).
DeletedLeavesRosters ==
  \A s \in Roster : account[s.user] = "deleted" => s.user \in overtaken
=============================================================================
