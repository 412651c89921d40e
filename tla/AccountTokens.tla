---------------------------- MODULE AccountTokens ----------------------------
(***************************************************************************)
(* The single-use links mailed to one user: password reset tokens and      *)
(* email verification tokens. They are issued (superseding the unused ones *)
(* of the same kind), delivered, redeemed, pruned, and ended by account    *)
(* deletion.                                                               *)
(*                                                                         *)
(* The two kinds differ in their locks: a reset is issued and redeemed     *)
(* under the user's row lock, a verification only locks the token it       *)
(* redeems. Issuing is two steps, the superseding UPDATE and the insert    *)
(* with its commit; delivery follows in a transaction of its own.          *)
(***************************************************************************)
EXTENDS Integers, FiniteSets

CONSTANTS
  Requests,  \* slots for requests in flight
  Tokens,    \* token rows, each used once
  NoToken

ASSUME TokensAssumption == NoToken \notin Tokens

VARIABLES
  active,    \* users.is_active
  verified,  \* users.is_verified
  state,     \* token rows: "none", "live" (used_at is null), "used", "pruned"
  purpose,   \* token rows: which table, "reset" or "verify"
  expired,   \* token rows: expires_at has passed
  redeemed,  \* history: how often a token was accepted
  failed,    \* history: tokens whose delivery was reported as failed
  older,     \* history: verification links that were live when a token's issuing began
  doing,     \* request: what it does
  tok,       \* request: the token it issues or redeems
  snapshot,  \* request: the unused tokens its issuing found
  held       \* request: token rows it has locked

rows  == <<state, purpose, expired>>
slots == <<doing, tok, snapshot, held>>
vars  == <<active, verified, rows, redeemed, failed, older, slots>>

Purpose == {"reset", "verify"}
Doing == {"idle", "read_reset", "insert_reset", "update_verify", "insert_verify",
          "deliver_reset", "deliver_verify", "redeem_reset", "redeem_verify"}

Init ==
  /\ active = TRUE
  /\ verified = FALSE
  /\ state = [t \in Tokens |-> "none"]
  /\ purpose = [t \in Tokens |-> "reset"]
  /\ expired = [t \in Tokens |-> FALSE]
  /\ redeemed = [t \in Tokens |-> 0]
  /\ failed = {}
  /\ older = [t \in Tokens |-> {}]
  /\ doing = [r \in Requests |-> "idle"]
  /\ tok = [r \in Requests |-> NoToken]
  /\ snapshot = [r \in Requests |-> {}]
  /\ held = [r \in Requests |-> {}]

-----------------------------------------------------------------------------
(* Locks.                                                                  *)

\* Mutant: the user row is selected without FOR UPDATE.
UserLocked_never(r) == FALSE

\* Another request holds the user row FOR UPDATE.
UserLocked(r) ==
  \E q \in Requests \ {r} : doing[q] \in {"insert_reset", "redeem_reset"}

\* Another request has locked token row t.
TokenLocked(r, t) == \E q \in Requests \ {r} : t \in held[q]

Live(p) == {t \in Tokens : state[t] = "live" /\ purpose[t] = p}

\* The request moves on with token t and the rows it has locked.
Proceed(r, step, t, locked) ==
  /\ doing' = [doing EXCEPT ![r] = step]
  /\ tok' = [tok EXCEPT ![r] = t]
  /\ held' = [held EXCEPT ![r] = locked]

Done(r) ==
  /\ Proceed(r, "idle", NoToken, {})
  /\ snapshot' = [snapshot EXCEPT ![r] = {}]

-----------------------------------------------------------------------------
(* Issuing and delivering.                                                 *)

\* request_password_reset reads the user by email; an unknown or inactive
\* account is answered like any other and nothing happens.
request_password_reset(r) ==
  /\ doing[r] = "idle"
  /\ active
  /\ Proceed(r, "read_reset", NoToken, {})
  /\ UNCHANGED <<active, verified, rows, redeemed, failed, older, snapshot>>

\* issue_password_reset_token locks the user, which keeps every other writer
\* of its tokens away, and marks the unused ones used. (Its is_active test sees
\* the row as request_password_reset has read it.)
issue_password_reset_token(r) ==
  /\ doing[r] = "read_reset"
  /\ ~UserLocked(r)
  /\ Proceed(r, "insert_reset", NoToken, Live("reset"))
  /\ UNCHANGED <<active, verified, rows, redeemed, failed, older, snapshot>>

\* request_email_verification, nothing to do for a verified account, and the
\* UPDATE of issue_verification_token: its snapshot of the unused tokens ...
issue_verification_token(r) ==
  /\ doing[r] = "idle"
  /\ active /\ ~verified
  /\ Proceed(r, "update_verify", NoToken, {})
  /\ snapshot' = [snapshot EXCEPT ![r] = Live("verify")]
  /\ UNCHANGED <<active, verified, rows, redeemed, failed, older>>

\* Mutant: links that another request has locked are skipped.
supersede_skip_locked(r) ==
  /\ doing[r] = "update_verify"
  /\ Proceed(r, "insert_verify", NoToken,
             {t \in snapshot[r] \cap Live("verify") : ~TokenLocked(r, t)})
  /\ UNCHANGED <<active, verified, rows, redeemed, failed, older, snapshot>>

\* ... of which it marks those still unused once their holders are done.
supersede(r) ==
  /\ doing[r] = "update_verify"
  /\ \A t \in snapshot[r] : ~TokenLocked(r, t)
  /\ Proceed(r, "insert_verify", NoToken, snapshot[r] \cap Live("verify"))
  /\ UNCHANGED <<active, verified, rows, redeemed, failed, older, snapshot>>

\* The insert of the new token and the commit. The insert references the user,
\* so a verification waits for whoever holds the user row.
commit_issue(r) ==
  \E p \in Purpose, t \in Tokens :
    /\ doing[r] = (IF p = "reset" THEN "insert_reset" ELSE "insert_verify")
    /\ ~UserLocked(r)
    /\ state[t] = "none"
    /\ state' = [u \in Tokens |-> CASE u = t -> "live"
                                    [] u \in held[r] -> "used"
                                    [] OTHER -> state[u]]
    /\ purpose' = [purpose EXCEPT ![t] = p]
    /\ Proceed(r, IF p = "reset" THEN "deliver_reset" ELSE "deliver_verify", t, {})
    /\ older' = [older EXCEPT ![t] = snapshot[r]]
    /\ snapshot' = [snapshot EXCEPT ![r] = {}]
    /\ UNCHANGED <<active, verified, expired, redeemed, failed>>

\* The provider accepted the message.
deliver(r) ==
  /\ doing[r] \in {"deliver_reset", "deliver_verify"}
  /\ Done(r)
  /\ UNCHANGED <<active, verified, rows, redeemed, failed, older>>

\* The provider raised: the token is marked used unless it already is. (A link
\* may have gone out all the same.)
delivery_fails(r) ==
  /\ doing[r] \in {"deliver_reset", "deliver_verify"}
  /\ ~TokenLocked(r, tok[r])
  /\ state' = [state EXCEPT ![tok[r]] = IF @ = "live" THEN "used" ELSE @]
  /\ failed' = failed \cup {tok[r]}
  /\ Done(r)
  /\ UNCHANGED <<active, verified, purpose, expired, redeemed, older>>

-----------------------------------------------------------------------------
(* Redeeming.                                                              *)

\* Mutant: used_at is not tested.
Usable_unexpired(t) == state[t] \in {"live", "used"} /\ ~expired[t]

\* Neither used nor expired.
Usable(t) == state[t] = "live" /\ ~expired[t]

\* consume_password_reset_token finds the token's user and locks the user row.
consume_lock(r, t) ==
  /\ doing[r] = "idle"
  /\ state[t] \in {"live", "used"} /\ purpose[t] = "reset"
  /\ ~UserLocked(r)
  /\ Proceed(r, "redeem_reset", t, {})
  /\ UNCHANGED <<active, verified, rows, redeemed, failed, older, snapshot>>

\* Then the token row; reset_password uses up this token and any other unused
\* one. A token of an inactive user is used up without effect.
consume_password_reset_token(r) ==
  /\ doing[r] = "redeem_reset"
  /\ \A t \in Live("reset") \cup {tok[r]} : ~TokenLocked(r, t)
  /\ IF Usable(tok[r])
       THEN /\ state' = [t \in Tokens |->
                 IF t = tok[r] \/ (active /\ t \in Live("reset")) THEN "used" ELSE state[t]]
            /\ redeemed' = [redeemed EXCEPT ![tok[r]] = IF active THEN @ + 1 ELSE @]
       ELSE UNCHANGED <<state, redeemed>>
  /\ Done(r)
  /\ UNCHANGED <<active, verified, purpose, expired, failed, older>>

\* confirm_verification_token locks the token row and tests it.
confirm_lock(r, t) ==
  /\ doing[r] = "idle"
  /\ purpose[t] = "verify" /\ Usable(t)
  /\ ~TokenLocked(r, t)
  /\ Proceed(r, "redeem_verify", t, {t})
  /\ UNCHANGED <<active, verified, rows, redeemed, failed, older, snapshot>>

\* Mutant: the account's state is not looked at.
confirm_commit_any(r) ==
  /\ doing[r] = "redeem_verify"
  /\ ~UserLocked(r)
  /\ verified' = TRUE
  /\ redeemed' = [redeemed EXCEPT ![tok[r]] = @ + 1]
  /\ state' = [state EXCEPT ![tok[r]] = "used"]
  /\ Done(r)
  /\ UNCHANGED <<active, purpose, expired, failed, older>>

\* It then reads the user: inactive is "invalid", verified uses up the token,
\* otherwise the user becomes verified.
confirm_commit(r) ==
  /\ doing[r] = "redeem_verify"
  /\ ~UserLocked(r)
  /\ IF active
       THEN /\ verified' = TRUE
            /\ redeemed' = [redeemed EXCEPT ![tok[r]] = IF verified THEN @ ELSE @ + 1]
            /\ state' = [state EXCEPT ![tok[r]] = "used"]
       ELSE UNCHANGED <<verified, redeemed, state>>
  /\ Done(r)
  /\ UNCHANGED <<active, purpose, expired, failed, older>>

-----------------------------------------------------------------------------
(* The rest of the world.                                                  *)

\* delete_my_account uses up every unused token it can see.
delete_my_account ==
  /\ active
  /\ \A r \in Requests : doing[r] \notin {"insert_reset", "redeem_reset"} /\ held[r] = {}
  /\ active' = FALSE
  /\ state' = [t \in Tokens |-> IF state[t] = "live" THEN "used" ELSE state[t]]
  /\ UNCHANGED <<verified, purpose, expired, redeemed, failed, older, slots>>

\* cleanup_password_reset_tokens and cleanup_email_verification_tokens delete
\* what is used or expired.
prune(t) ==
  /\ state[t] = "used" \/ (state[t] = "live" /\ expired[t])
  /\ \A r \in Requests : t \notin held[r]
  /\ state' = [state EXCEPT ![t] = "pruned"]
  /\ UNCHANGED <<active, verified, purpose, expired, redeemed, failed, older, slots>>

expire(t) ==
  /\ state[t] = "live" /\ ~expired[t]
  /\ expired' = [expired EXCEPT ![t] = TRUE]
  /\ UNCHANGED <<active, verified, state, purpose, redeemed, failed, older, slots>>

\* A request dies or is aborted: its transaction rolls back. After the commit
\* of the token this leaves a live token that nobody was sent.
rollback(r) ==
  /\ doing[r] # "idle"
  /\ Done(r)
  /\ UNCHANGED <<active, verified, rows, redeemed, failed, older>>

Next ==
  \/ \E r \in Requests :
       \/ request_password_reset(r) \/ issue_password_reset_token(r)
       \/ issue_verification_token(r) \/ supersede(r) \/ commit_issue(r)
       \/ deliver(r) \/ delivery_fails(r)
       \/ \E t \in Tokens : consume_lock(r, t) \/ confirm_lock(r, t)
       \/ consume_password_reset_token(r) \/ confirm_commit(r)
       \/ rollback(r)
  \/ delete_my_account
  \/ \E t \in Tokens : prune(t) \/ expire(t)

Spec == Init /\ [][Next]_vars

-----------------------------------------------------------------------------
(* Properties.                                                             *)

TypeOK ==
  /\ active \in BOOLEAN /\ verified \in BOOLEAN
  /\ state \in [Tokens -> {"none", "live", "used", "pruned"}]
  /\ purpose \in [Tokens -> Purpose] /\ expired \in [Tokens -> BOOLEAN]
  /\ redeemed \in [Tokens -> Nat] /\ failed \subseteq Tokens
  /\ older \in [Tokens -> SUBSET Tokens]
  /\ doing \in [Requests -> Doing]
  /\ tok \in [Requests -> Tokens \cup {NoToken}]
  /\ snapshot \in [Requests -> SUBSET Tokens]
  /\ held \in [Requests -> SUBSET Tokens]

\* However requests for a reset overlap, one reset link is valid at a time:
\* issuing supersedes under the user's row lock.
OneResetLink == Cardinality(Live("reset")) <= 1

\* A resend ends every verification link that was live when it was asked for,
\* also one that is being redeemed or superseded just then: of two live links
\* neither is older than the other, they were issued by overlapping requests
\* (issue_verification_token; resends are not serialised).
ResendSupersedes == \A t \in Live("verify") : older[t] \cap Live("verify") = {}

\* A link is accepted once, however clicks, resends, deletion and pruning
\* interleave.
RedeemedOnce == \A t \in Tokens : redeemed[t] <= 1

\* A link whose delivery was reported as failed is dead for good.
FailedLinkIsDead == \A t \in failed : state[t] # "live"

\* No link is accepted for an account that has been deleted.
NothingRedeemedAfterDeletion == [][~active => redeemed' = redeemed /\ verified' = verified]_vars

\* Which links are live: one for a reset, for verification those of resends
\* that overlapped, none whose delivery failed (issue_password_reset_token,
\* issue_verification_token, request_email_verification).
LiveLinks == TypeOK /\ OneResetLink /\ ResendSupersedes /\ FailedLinkIsDead
=============================================================================
