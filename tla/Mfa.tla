--------------------------------- MODULE Mfa ---------------------------------
(***************************************************************************)
(* TOTP enrolment of one user: setup, confirm and disable, the recovery    *)
(* codes, and the second factor of a login.                                *)
(*                                                                         *)
(* Setup, confirm and disable read the secret's row without a lock and     *)
(* write it later; the ORM writes only the columns whose value differs     *)
(* from the one it loaded. A login holds the row FOR UPDATE from its check *)
(* to its commit. A code is modelled by the secret and the time step it    *)
(* was computed for, a batch of recovery codes by one of its codes.        *)
(***************************************************************************)
EXTENDS Integers, FiniteSets

CONSTANTS
  MfaRequests, \* slots for requests in flight
  MaxSecrets,  \* bound on secrets generated
  MaxBatches,  \* bound on batches of recovery codes
  MaxClock     \* bound on TOTP time steps

ASSUME MfaAssumption ==
  MaxSecrets \in Nat /\ MaxBatches \in Nat /\ MaxClock \in Nat \ {0}

Batches == 1..MaxBatches
NoRow == [secret |-> 0, confirmed |-> FALSE, disabled |-> FALSE, last |-> 0]
Rows  == [secret : 0..MaxSecrets, confirmed : BOOLEAN, disabled : BOOLEAN,
          last : 0..MaxClock + 1]

VARIABLES
  totp,     \* the user_totp_secrets row; secret 0: no row, last 0: never used
  secrets,  \* secrets generated so far
  batches,  \* batches of recovery codes generated so far
  code,     \* mfa_recovery_codes by batch: "none", "fresh", "used", "deleted"
  clock,    \* the current TOTP time step
  proven,   \* history: secrets whose possession a confirm has verified
  steps,    \* history: <<secret, step>> a login was accepted with
  again,    \* history: one of them was accepted by a second login
  logins,   \* history: by batch, logins accepted with its code
  stale,    \* history: a request wrote a row that changed since it read it
  op,       \* request: what it does
  seen,     \* request: the row as it was read
  factor    \* request: the code it presented, <<"totp", step>> or <<"code", batch>>

mfaState == <<totp, secrets, batches, code, clock>>
history  == <<proven, steps, again, logins, stale>>
mfaSlots == <<op, seen, factor>>
mfaVars  == <<mfaState, history, mfaSlots>>

Enabled(t) == t.secret # 0 /\ t.confirmed /\ ~t.disabled
NoFactor == <<"none", 0>>

MfaInit ==
  /\ totp = NoRow
  /\ secrets = 0
  /\ batches = 0
  /\ code = [b \in Batches |-> "none"]
  /\ clock = 1
  /\ proven = {} /\ steps = {} /\ again = FALSE /\ stale = FALSE
  /\ logins = [b \in Batches |-> 0]
  /\ op = [r \in MfaRequests |-> "idle"]
  /\ seen = [r \in MfaRequests |-> NoRow]
  /\ factor = [r \in MfaRequests |-> NoFactor]

-----------------------------------------------------------------------------
(* security/mfa.py.                                                        *)

\* verify_totp_code for the code of step c: one step of drift either way, and
\* a step not after the one used last is refused.
verify_totp_code(t, c) == c \in clock - 1..clock + 1 /\ c > t.last

-----------------------------------------------------------------------------
(* Requests.                                                               *)

\* Mutant: the login does not lock the row.
Locked_never(r) == FALSE

\* A login of another request holds the row.
Locked(r) == \E q \in MfaRequests \ {r} : op[q] = "login"

Begin(r, what, f) ==
  /\ op[r] = "idle"
  /\ op' = [op EXCEPT ![r] = what]
  /\ seen' = [seen EXCEPT ![r] = totp]
  /\ factor' = [factor EXCEPT ![r] = f]

MfaDone(r) ==
  /\ op' = [op EXCEPT ![r] = "idle"]
  /\ seen' = [seen EXCEPT ![r] = NoRow]
  /\ factor' = [factor EXCEPT ![r] = NoFactor]

\* What an UPDATE leaves in a column: the new value where it differs from the
\* loaded one, whatever is there now otherwise.
Written(now, loaded, new) == IF new = loaded THEN now ELSE new

\* setup_totp: a confirmed enrolment is refused.
setup_read(r) ==
  /\ ~Enabled(totp)
  /\ Begin(r, "setup", NoFactor)
  /\ UNCHANGED <<mfaState, history>>

\* Mutant: confirmed_at is not reset when a disabled row is enrolled again.
setup_row_confirmed(r) == [totp EXCEPT !.secret = secrets + 1, !.disabled = FALSE, !.last = 0]

\* The row a setup leaves: a new secret, nothing confirmed, disabled or used.
setup_row(r) ==
  [secret    |-> secrets + 1,
   confirmed |-> Written(totp.confirmed, seen[r].confirmed, FALSE),
   disabled  |-> Written(totp.disabled, seen[r].disabled, FALSE),
   last      |-> Written(totp.last, seen[r].last, 0)]

\* setup_totp: a new secret into the existing row, or a new row; a second
\* insert violates the unique user_id and the request fails.
setup_commit(r) ==
  /\ op[r] = "setup"
  /\ ~Locked(r)
  /\ seen[r].secret = 0 => totp.secret = 0
  /\ secrets < MaxSecrets
  /\ secrets' = secrets + 1
  /\ totp' = setup_row(r)
  /\ stale' = (stale \/ totp # seen[r])
  /\ MfaDone(r)
  /\ UNCHANGED <<batches, code, clock, proven, steps, again, logins>>

\* confirm_totp: a code for the secret that was read. (A confirmed enrolment
\* may be confirmed again.)
confirm_read(r) ==
  /\ totp.secret # 0 /\ ~totp.disabled
  /\ \E c \in 1..MaxClock + 1 :
       /\ verify_totp_code(totp, c)
       /\ Begin(r, "confirm", <<"totp", c>>)
  /\ proven' = proven \cup {totp.secret}
  /\ UNCHANGED <<mfaState, steps, again, logins, stale>>

\* The recovery codes of the user are deleted and a new batch inserted.
confirm_codes ==
  [b \in Batches |-> CASE b = batches + 1 -> "fresh"
                       [] code[b] \in {"fresh", "used"} -> "deleted"
                       [] OTHER -> code[b]]

\* confirm_totp: the row is flushed, which waits for its holder, before the
\* codes are deleted: of two confirms the later one sees the other's batch.
confirm_totp_commit(r) ==
  /\ op[r] = "confirm"
  /\ ~Locked(r)
  /\ batches < MaxBatches
  /\ totp' = [totp EXCEPT !.confirmed = TRUE,
                          !.last = Written(@, seen[r].last, factor[r][2])]
  /\ batches' = batches + 1
  /\ code' = confirm_codes
  /\ stale' = (stale \/ totp # seen[r])
  /\ MfaDone(r)
  /\ UNCHANGED <<secrets, clock, proven, steps, again, logins>>

\* disable_totp: the password and a TOTP or an unused recovery code, read
\* without locks.
disable_read(r) ==
  /\ Enabled(totp)
  /\ \/ \E c \in 1..MaxClock + 1 : verify_totp_code(totp, c) /\ Begin(r, "disable", <<"totp", c>>)
     \/ \E b \in Batches : code[b] = "fresh" /\ Begin(r, "disable", <<"code", b>>)
  /\ UNCHANGED <<mfaState, history>>

\* disable_totp: disabled_at is set; the TOTP step is not recorded. The update
\* of a recovery code that is gone fails the request.
disable_commit(r) ==
  /\ op[r] = "disable"
  /\ ~Locked(r)
  /\ totp' = [totp EXCEPT !.disabled = TRUE]
  /\ IF factor[r][1] = "code"
       THEN /\ code[factor[r][2]] # "deleted"
            /\ code' = [code EXCEPT ![factor[r][2]] = "used"]
       ELSE UNCHANGED code
  /\ stale' = (stale \/ totp # seen[r])
  /\ MfaDone(r)
  /\ UNCHANGED <<secrets, batches, clock, proven, steps, again, logins>>

\* _require_mfa_for_login_if_enabled: the row FOR UPDATE, then a TOTP or an
\* unused recovery code. (Without an enabled row the login needs no code.)
login_lock(r) ==
  /\ Enabled(totp)
  /\ ~Locked(r)
  /\ \/ \E c \in 1..MaxClock + 1 : verify_totp_code(totp, c) /\ Begin(r, "login", <<"totp", c>>)
     \/ \E b \in Batches : code[b] = "fresh" /\ Begin(r, "login", <<"code", b>>)
  /\ UNCHANGED <<mfaState, history>>

\* The login commits with the step recorded or the recovery code used.
login_commit(r) ==
  /\ op[r] = "login"
  /\ IF factor[r][1] = "totp"
       THEN /\ totp' = [totp EXCEPT !.last = factor[r][2]]
            /\ steps' = steps \cup {<<totp.secret, factor[r][2]>>}
            /\ again' = (again \/ <<totp.secret, factor[r][2]>> \in steps)
            /\ UNCHANGED <<code, logins>>
       ELSE /\ code' = [code EXCEPT ![factor[r][2]] = "used"]
            /\ logins' = [logins EXCEPT ![factor[r][2]] = @ + 1]
            /\ UNCHANGED <<totp, steps, again>>
  /\ MfaDone(r)
  /\ UNCHANGED <<secrets, batches, clock, proven, stale>>

\* A request fails and rolls back.
mfa_rollback(r) ==
  /\ op[r] # "idle"
  /\ MfaDone(r)
  /\ UNCHANGED <<mfaState, history>>

tick ==
  /\ clock < MaxClock
  /\ clock' = clock + 1
  /\ UNCHANGED <<totp, secrets, batches, code, history, mfaSlots>>

MfaNext ==
  \/ \E r \in MfaRequests :
       \/ setup_read(r) \/ setup_commit(r)
       \/ confirm_read(r) \/ confirm_totp_commit(r)
       \/ disable_read(r) \/ disable_commit(r)
       \/ login_lock(r) \/ login_commit(r)
       \/ mfa_rollback(r)
  \/ tick

MfaSpec == MfaInit /\ [][MfaNext]_mfaVars

-----------------------------------------------------------------------------
(* Properties.                                                             *)

MfaTypeOK ==
  /\ totp \in Rows
  /\ secrets \in 0..MaxSecrets /\ batches \in 0..MaxBatches /\ clock \in 1..MaxClock
  /\ code \in [Batches -> {"none", "fresh", "used", "deleted"}]
  /\ proven \subseteq 1..MaxSecrets
  /\ steps \subseteq (1..MaxSecrets) \X (1..MaxClock + 1)
  /\ again \in BOOLEAN /\ stale \in BOOLEAN
  /\ logins \in [Batches -> Nat]
  /\ op \in [MfaRequests -> {"idle", "setup", "confirm", "disable", "login"}]
  /\ seen \in [MfaRequests -> Rows]
  /\ factor \in [MfaRequests -> {"none", "totp", "code"} \X (0..MaxClock + MaxBatches + 1)]

\* However confirms, disables and logins overlap, the recovery codes that can
\* still be used belong to one batch: a confirm ends the codes of every earlier one.
OneBatch == Cardinality({b \in Batches : code[b] = "fresh"}) <= 1

\* A recovery code lets at most one login through, also when a disable that
\* presents the same code is under way.
CodeLogsInOnce == \A b \in Batches : logins[b] <= 1

\* A TOTP step lets at most one login through per secret, unless a setup, a
\* confirm or a disable wrote a row that had changed since it read it (a confirm
\* then may put an older step over a newer one).
StepLogsInOnce == ~stale => ~again

\* An enabled enrolment has a secret whose possession was verified, unless a
\* setup, a confirm or a disable wrote a row that had changed since it read it.
EnabledIsProven == ~stale => (Enabled(totp) => totp.secret \in proven)

\* The enrolment is sound: one batch of recovery codes in use, and an enabled
\* secret that was proven (confirm_totp, setup_totp).
EnrolmentSound == MfaTypeOK /\ OneBatch /\ EnabledIsProven

\* A second factor lets one login through, recovery code or TOTP step
\* (_require_mfa_for_login_if_enabled).
FactorLogsInOnce == CodeLogsInOnce /\ StepLogsInOnce
=============================================================================
