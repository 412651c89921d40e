---------------------------- MODULE AuthSessions ----------------------------
(***************************************************************************)
(* The credentials of one user: the access, refresh and playback tokens    *)
(* issued to them, the refresh_sessions rows, and the requests that issue, *)
(* rotate and revoke: login, /refresh, logout, password reset, disabling   *)
(* TOTP and account deletion.                                              *)
(*                                                                         *)
(* Transactions are READ COMMITTED. A request keeps the session_version of *)
(* its first read of the user (the identity map does not re-read), so what *)
(* it writes or signs later may be stale; an UPDATE of the live rows takes *)
(* a snapshot and then waits for the rows others hold. Row locks are held  *)
(* to the commit. What a request has not committed lives in its slot.      *)
(***************************************************************************)
EXTENDS Integers, FiniteSets

CONSTANTS
  Requests,    \* slots for requests in flight
  Jtis,        \* ids of refresh tokens, one row each
  NoJti,
  MaxVersion,  \* bound on users.session_version
  MaxResets    \* bound on password resets

ASSUME AuthAssumption ==
  /\ NoJti \notin Jtis
  /\ MaxVersion \in Nat
  /\ MaxResets \in Nat

VARIABLES
  registered,  \* the user row exists
  active,      \* users.is_active
  version,     \* users.session_version
  password,    \* how many resets the password_hash has seen; -1 is the sentinel
  row,         \* refresh_sessions by jti: "none", "live", "revoked"
  lapsed,      \* rows whose expires_at has passed
  claim,       \* the sv claim of the refresh token with this jti
  family,      \* history: the jti of the login a row descends from
  origin,      \* history: the password that login verified
  tokens,      \* access and playback tokens out there: [sv, pw]
  dead,        \* history: the tokens that existed at a revocation
  lostUpdate,  \* history: a session_version was written over a newer one
  kind,        \* request: what it does
  pc,          \* request: its next statement
  read,        \* request: the session_version it read
  proof,       \* request: the password behind what it presented
  jti,         \* request: the refresh token it presented
  snapshot,    \* request: the live rows its UPDATE saw
  held         \* request: rows it has locked (and revokes at its commit)

user     == <<registered, active, version, password>>
sessions == <<row, lapsed, claim, family, origin>>
history  == <<tokens, dead, lostUpdate>>
slots    == <<kind, pc, read, proof, jti, snapshot, held>>
vars     == <<user, sessions, history, slots>>

Token == [sv : 0..MaxVersion, pw : -1..MaxResets]
Kind  == {"none", "register", "login", "refresh", "replay", "logout", "reset", "delete", "disable"}
Pc    == {"idle", "read", "select", "revoke", "rotate", "commit"}

Init ==
  /\ registered = FALSE
  /\ active = FALSE
  /\ version = 0
  /\ password = 0
  /\ row = [j \in Jtis |-> "none"]
  /\ lapsed = [j \in Jtis |-> FALSE]
  /\ claim = [j \in Jtis |-> 0]
  /\ family = [j \in Jtis |-> j]
  /\ origin = [j \in Jtis |-> 0]
  /\ tokens = {}
  /\ dead = {}
  /\ lostUpdate = FALSE
  /\ kind = [r \in Requests |-> "none"]
  /\ pc = [r \in Requests |-> "idle"]
  /\ read = [r \in Requests |-> 0]
  /\ proof = [r \in Requests |-> 0]
  /\ jti = [r \in Requests |-> NoJti]
  /\ snapshot = [r \in Requests |-> {}]
  /\ held = [r \in Requests |-> {}]

-----------------------------------------------------------------------------
(* Locks.                                                                  *)

\* Holders of the user row FOR UPDATE: a reset from its first statement, a
\* deletion from the flush of the anonymised columns (email is a key).
UserLocked(r) ==
  \E q \in Requests \ {r} : kind[q] \in {"reset", "delete"} /\ pc[q] \in {"select", "revoke", "commit"}

\* Holders of a KEY SHARE lock of the user row: a logout whose audit entry,
\* which references the user, is flushed.
UserShared(r) ==
  \E q \in Requests \ {r} : kind[q] = "logout" /\ pc[q] \in {"revoke", "commit"}

\* Mutant: the refresh row is selected without FOR UPDATE.
RowLocked_never(r, j) == FALSE

RowLocked(r, j) == \E q \in Requests \ {r} : j \in held[q]

-----------------------------------------------------------------------------
(* Steps of a request.                                                     *)

\* A request takes its slot with the version it read.
Start(r, k, p, j, at) ==
  /\ pc[r] = "idle"
  /\ kind' = [kind EXCEPT ![r] = k]
  /\ pc' = [pc EXCEPT ![r] = at]
  /\ read' = [read EXCEPT ![r] = version]
  /\ proof' = [proof EXCEPT ![r] = p]
  /\ jti' = [jti EXCEPT ![r] = j]
  /\ UNCHANGED <<snapshot, held>>

Goto(r, at) == pc' = [pc EXCEPT ![r] = at]

\* The request ends: its transaction is committed or rolled back.
Done(r) ==
  /\ kind' = [kind EXCEPT ![r] = "none"]
  /\ pc' = [pc EXCEPT ![r] = "idle"]
  /\ read' = [read EXCEPT ![r] = 0]
  /\ proof' = [proof EXCEPT ![r] = 0]
  /\ jti' = [jti EXCEPT ![r] = NoJti]
  /\ snapshot' = [snapshot EXCEPT ![r] = {}]
  /\ held' = [held EXCEPT ![r] = {}]

\* decode_token and the checks of get_current_user, of the refresh and of
\* the playback verification on the user row.
Validates(t) == active /\ t.sv = version

\* get_current_user for the holder of token t.
get_current_user(t) == Validates(t)

\* Mutant: the version is read again when the tokens are signed.
SignedVersion_current(r) == version

\* The sv claim is the version of the request's first read.
SignedVersion(r) == read[r]

\* _create_refresh_session and _issue_tokens; the consumed row goes with it.
Issue(r, j, root, pw) ==
  /\ row[j] = "none"
  /\ row' = [i \in Jtis |-> CASE i = j -> "live"
                              [] i \in held[r] -> "revoked"
                              [] OTHER -> row[i]]
  /\ claim' = [claim EXCEPT ![j] = SignedVersion(r)]
  /\ family' = [family EXCEPT ![j] = root]
  /\ origin' = [origin EXCEPT ![j] = pw]
  /\ tokens' = tokens \cup {[sv |-> SignedVersion(r), pw |-> pw]}
  /\ UNCHANGED <<lapsed, dead, lostUpdate>>

\* register: the registration gate lets it pass and the email is free. (After
\* a deletion the email is free again, for a user this module does not follow.)
register_check(r) ==
  /\ ~registered
  /\ Start(r, "register", 0, NoJti, "read")
  /\ UNCHANGED <<user, sessions, history>>

\* The unique index on the email.
EmailFree == ~registered

\* register: the insert wins, with its tokens and refresh session, or another
\* registration of the same email has: EMAIL_TAKEN.
register_insert(r) ==
  /\ kind[r] = "register"
  /\ IF EmailFree
       THEN /\ registered' = TRUE /\ active' = TRUE
            /\ version' = 0 /\ password' = 0
            /\ \E j \in Jtis : Issue(r, j, j, 0)
       ELSE UNCHANGED <<user, sessions, history>>
  /\ Done(r)

\* login: the user is read without a lock, the password verified against it.
login_read(r) ==
  /\ active /\ password # -1
  /\ Start(r, "login", password, NoJti, "read")
  /\ UNCHANGED <<user, sessions, history>>

\* login: the tokens and the refresh session, after the MFA check. The insert
\* references the user and waits for whoever holds the row FOR UPDATE.
login_issue(r) ==
  /\ kind[r] = "login"
  /\ ~UserLocked(r)
  /\ \E j \in Jtis : Issue(r, j, j, proof[r])
  /\ Done(r)
  /\ UNCHANGED user

\* _user_from_refresh_token up to the row: claims against the user row.
refresh_read(r, j) ==
  /\ row[j] # "none"
  /\ Validates([sv |-> claim[j], pw |-> origin[j]])
  /\ Start(r, "refresh", origin[j], j, "read")
  /\ UNCHANGED <<user, sessions, history>>

\* The refresh row FOR UPDATE: a revoked row is a replay, an expired one is
\* revoked, a live one is consumed.
refresh_lock(r) ==
  /\ kind[r] = "refresh" /\ pc[r] = "read"
  /\ ~RowLocked(r, jti[r])
  /\ \/ /\ row[jti[r]] = "revoked"
        /\ kind' = [kind EXCEPT ![r] = "replay"]
        /\ held' = [held EXCEPT ![r] = {jti[r]}]
        /\ Goto(r, "select")
        /\ UNCHANGED <<read, proof, jti, snapshot, row>>
     \/ /\ row[jti[r]] = "live" /\ lapsed[jti[r]]
        /\ row' = [row EXCEPT ![jti[r]] = "revoked"]
        /\ Done(r)
     \/ /\ row[jti[r]] = "live" /\ ~lapsed[jti[r]]
        /\ held' = [held EXCEPT ![r] = {jti[r]}]
        /\ Goto(r, "rotate")
        /\ UNCHANGED <<kind, read, proof, jti, snapshot, row>>
  /\ UNCHANGED <<user, lapsed, claim, family, origin, history>>

\* refresh: the consumed row is "rotated", its replacement and the new tokens
\* carry the version read at the start.
refresh_rotate(r) ==
  /\ kind[r] = "refresh" /\ pc[r] = "rotate"
  /\ ~UserLocked(r)
  /\ \E j \in Jtis : Issue(r, j, family[jti[r]], proof[r])
  /\ Done(r)
  /\ UNCHANGED user

\* logout, DELETE /me and POST /totp/disable start with get_current_user;
\* the last also checks password and code against what it read.
authenticated_read(r) ==
  /\ \E t \in tokens, k \in {"logout", "delete", "disable"} :
       /\ get_current_user(t)
       /\ Start(r, k, t.pw, NoJti, IF k = "disable" THEN "commit" ELSE "read")
  /\ UNCHANGED <<user, sessions, history>>

\* logout: the audit entry (waits for a FOR UPDATE holder), then the UPDATE of
\* the live rows takes its snapshot.
logout_audit(r) ==
  /\ kind[r] = "logout" /\ pc[r] = "read"
  /\ ~UserLocked(r)
  /\ snapshot' = [snapshot EXCEPT ![r] = {j \in Jtis : row[j] = "live"}]
  /\ Goto(r, "revoke")
  /\ UNCHANGED <<user, sessions, history, kind, read, proof, jti, held>>

\* delete_my_account: the anonymised columns are flushed.
delete_flush(r) ==
  /\ kind[r] = "delete" /\ pc[r] = "read"
  /\ ~UserLocked(r) /\ ~UserShared(r)
  /\ Goto(r, "select")
  /\ UNCHANGED <<user, sessions, history, kind, read, proof, jti, snapshot, held>>

\* reset_password with a valid reset token: the user is read FOR UPDATE.
reset_lock(r) ==
  /\ active
  /\ password < MaxResets
  /\ ~UserLocked(r) /\ ~UserShared(r)
  /\ Start(r, "reset", password, NoJti, "select")
  /\ UNCHANGED <<user, sessions, history>>

\* _revoke_refresh_sessions: the snapshot of the UPDATE ...
revoke_select(r) ==
  /\ pc[r] = "select"
  /\ snapshot' = [snapshot EXCEPT ![r] = {j \in Jtis : row[j] = "live"}]
  /\ Goto(r, "revoke")
  /\ UNCHANGED <<user, sessions, history, kind, read, proof, jti, held>>

\* ... and the update of those still live once no one else holds them.
revoke_apply(r) ==
  /\ pc[r] = "revoke"
  /\ \A j \in snapshot[r] : ~RowLocked(r, j)
  /\ held' = [held EXCEPT ![r] = @ \cup {j \in snapshot[r] : row[j] = "live"}]
  /\ Goto(r, "commit")
  /\ UNCHANGED <<user, sessions, history, kind, read, proof, jti, snapshot>>

\* Mutant: the session version is left alone.
Bump_missing(r) ==
  /\ version' = version
  /\ dead' = dead \cup tokens
  /\ lostUpdate' = (lostUpdate \/ read[r] # version)

\* user.session_version += 1, on the value that was read.
Bump(r) ==
  /\ version' = read[r] + 1
  /\ dead' = dead \cup tokens
  /\ lostUpdate' = (lostUpdate \/ read[r] # version)

\* Commit of a logout, a replay, a reset, a deletion or a disabled TOTP.
revoke_commit(r) ==
  /\ pc[r] = "commit"
  /\ read[r] < MaxVersion
  /\ ~UserLocked(r)
  /\ Bump(r)
  /\ row' = [j \in Jtis |-> IF j \in held[r] THEN "revoked" ELSE row[j]]
  /\ active' = (active /\ kind[r] # "delete")
  /\ password' = CASE kind[r] = "delete" -> -1
                   [] kind[r] = "reset" -> password + 1
                   [] OTHER -> password
  /\ Done(r)
  /\ UNCHANGED <<registered, tokens, lapsed, claim, family, origin>>

\* A request fails and its transaction rolls back: the client is gone, the
\* process dies, or PostgreSQL breaks a cycle of waits by aborting it.
rollback(r) ==
  /\ pc[r] # "idle"
  /\ Done(r)
  /\ UNCHANGED <<user, sessions, history>>

\* expires_at of a refresh session passes.
session_expires(j) ==
  /\ row[j] = "live" /\ ~lapsed[j]
  /\ lapsed' = [lapsed EXCEPT ![j] = TRUE]
  /\ UNCHANGED <<user, row, claim, family, origin, history, slots>>

Next ==
  \/ \E r \in Requests :
       \/ register_check(r) \/ register_insert(r)
       \/ login_read(r) \/ login_issue(r)
       \/ \E j \in Jtis : refresh_read(r, j)
       \/ refresh_lock(r) \/ refresh_rotate(r)
       \/ authenticated_read(r) \/ logout_audit(r) \/ delete_flush(r)
       \/ reset_lock(r)
       \/ revoke_select(r) \/ revoke_apply(r) \/ revoke_commit(r)
       \/ rollback(r)
  \/ \E j \in Jtis : session_expires(j)

Spec == Init /\ [][Next]_vars

-----------------------------------------------------------------------------
(* Properties.                                                             *)

TypeOK ==
  /\ registered \in BOOLEAN /\ active \in BOOLEAN
  /\ version \in 0..MaxVersion /\ password \in -1..MaxResets
  /\ row \in [Jtis -> {"none", "live", "revoked"}]
  /\ lapsed \in [Jtis -> BOOLEAN]
  /\ claim \in [Jtis -> 0..MaxVersion]
  /\ family \in [Jtis -> Jtis]
  /\ origin \in [Jtis -> -1..MaxResets]
  /\ tokens \subseteq Token /\ dead \subseteq Token /\ lostUpdate \in BOOLEAN
  /\ kind \in [Requests -> Kind] /\ pc \in [Requests -> Pc]
  /\ read \in [Requests -> 0..MaxVersion]
  /\ proof \in [Requests -> -1..MaxResets]
  /\ jti \in [Requests -> Jtis \cup {NoJti}]
  /\ snapshot \in [Requests -> SUBSET Jtis]
  /\ held \in [Requests -> SUBSET Jtis]

\* Of the refresh tokens that descend from one login at most one is live,
\* however refreshes with the same cookie interleave.
OneLivePerFamily ==
  \A i, j \in Jtis :
    row[i] = "live" /\ row[j] = "live" /\ family[i] = family[j] => i = j

\* A token that existed when a logout, a replay, a reset, a disabled TOTP or a
\* deletion committed never validates again, as long as no two of these
\* requests overlapped so that one wrote its version over the other's.
RevokedStaysRevoked == ~lostUpdate => \A t \in dead : ~Validates(t)

\* What validates was obtained with the password in force: a login that
\* verified the old one before a reset and commits after it is worth nothing,
\* and neither is a refresh of what it obtained. Same proviso.
OldPasswordIsUseless ==
  ~lostUpdate =>
    /\ \A t \in tokens : Validates(t) => t.pw = password
    /\ \A j \in Jtis : row[j] # "none" /\ active /\ claim[j] = version => origin[j] = password

\* The state is well typed, and of the refresh tokens of one login one is live.
SessionsInv == TypeOK /\ OneLivePerFamily
=============================================================================
