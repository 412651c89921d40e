-------------------------- MODULE AccountProofs --------------------------------
(***************************************************************************)
(* Proofs about the mailed links (AccountTokens), for any set of tokens    *)
(* and any set of requests, and about the second factor (Mfa), for  *)
(* any set of requests and any bounds.                                     *)
(***************************************************************************)
EXTENDS AccountTokens, Mfa, FiniteSetTheorems, TLAPS

\* Requests that hold the user row FOR UPDATE.
Locker(r) == doing[r] \in {"insert_reset", "redeem_reset"}

\* What a request holds is live and its own: an issuing reset all the reset
\* links there are, a confirmation the link it redeems, everyone else
\* verification links or nothing.
LockInv ==
  /\ \A q, r \in Requests : Locker(q) /\ Locker(r) => q = r
  /\ \A q, r \in Requests : q # r => held[q] \cap held[r] = {}
  /\ \A r \in Requests :
       /\ doing[r] = "insert_reset" => held[r] = Live("reset")
       /\ doing[r] = "insert_verify" => held[r] \subseteq Live("verify")
       /\ doing[r] = "redeem_verify"
            => tok[r] \in Tokens /\ held[r] = {tok[r]} /\ tok[r] \in Live("verify")
       /\ doing[r] \notin {"insert_reset", "insert_verify", "redeem_verify"} => held[r] = {}

\* A token that is being delivered or redeemed exists, and a reset is redeemed
\* by a reset link.
TokInv ==
  \A r \in Requests :
    /\ doing[r] \in {"deliver_reset", "deliver_verify", "redeem_reset"}
         => tok[r] \in Tokens /\ state[tok[r]] # "none"
    /\ doing[r] = "redeem_reset" => purpose[tok[r]] = "reset"

\* An unused link was never accepted, a link that was reported as failed is not
\* live, and one reset link is live at a time.
UseInv ==
  /\ \A t \in Tokens : redeemed[t] <= 1 /\ (state[t] \in {"none", "live"} => redeemed[t] = 0)
  /\ \A t \in failed : state[t] \in {"used", "pruned"}
  /\ \A t, u \in Live("reset") : t = u

\* A token that a request found, or that was found for a token it issued,
\* exists; and a request that inserts a verification holds every link it found
\* that is still live, so that no live link is older than another.
OlderInv ==
  /\ \A r \in Requests : \A t \in snapshot[r] : state[t] # "none"
  /\ \A t \in Tokens : \A u \in older[t] : state[u] # "none"
  /\ \A r \in Requests : doing[r] = "insert_verify" => snapshot[r] \cap Live("verify") \subseteq held[r]
  /\ ResendSupersedes

LinksInv == TypeOK /\ LockInv /\ TokInv /\ UseInv /\ OlderInv

\* A request that proceeds changes its own slot only.
LEMMA Proceeding ==
  ASSUME TypeOK, NEW r \in Requests, NEW step \in Doing, NEW t \in Tokens \cup {NoToken},
         NEW locked \in SUBSET Tokens, Proceed(r, step, t, locked)
  PROVE  /\ doing' \in [Requests -> Doing] /\ doing'[r] = step
         /\ tok' \in [Requests -> Tokens \cup {NoToken}] /\ tok'[r] = t
         /\ held' \in [Requests -> SUBSET Tokens] /\ held'[r] = locked
         /\ \A q \in Requests \ {r} : doing'[q] = doing[q] /\ tok'[q] = tok[q] /\ held'[q] = held[q]
BY DEF TypeOK, Proceed

\* So does one that is done.
LEMMA Finishing ==
  ASSUME TypeOK, NEW r \in Requests, Done(r)
  PROVE  /\ doing' \in [Requests -> Doing] /\ doing'[r] = "idle"
         /\ tok' \in [Requests -> Tokens \cup {NoToken}]
         /\ held' \in [Requests -> SUBSET Tokens] /\ held'[r] = {}
         /\ snapshot' \in [Requests -> SUBSET Tokens] /\ snapshot'[r] = {}
         /\ \A q \in Requests \ {r} : /\ doing'[q] = doing[q] /\ tok'[q] = tok[q]
                                      /\ held'[q] = held[q] /\ snapshot'[q] = snapshot[q]
<1>1. "idle" \in Doing /\ Proceed(r, "idle", NoToken, {})
  BY DEF Done, Doing
<1>2. /\ snapshot' \in [Requests -> SUBSET Tokens] /\ snapshot'[r] = {}
      /\ \A q \in Requests \ {r} : snapshot'[q] = snapshot[q]
  BY DEF Done, TypeOK
<1> QED BY <1>1, <1>2, Proceeding

\* A step that adds no verification link keeps the order of those that are live.
LEMMA OlderKeeps ==
  ASSUME LinksInv, UNCHANGED older, Live("verify")' \subseteq Live("verify"),
         \A t \in Tokens : state[t] # "none" => state'[t] # "none",
         \A q \in Requests : snapshot'[q] \subseteq snapshot[q] \cup Live("verify"),
         \A q \in Requests : doing'[q] = "insert_verify" =>
           \/ doing[q] = "insert_verify" /\ held'[q] = held[q] /\ snapshot'[q] = snapshot[q]
           \/ snapshot'[q] \cap Live("verify") \subseteq held'[q]
  PROVE  OlderInv'
<1>1. TypeOK /\ OlderInv
  BY DEF LinksInv
<1>2. \A t \in Live("verify") : t \in Tokens /\ state[t] # "none"
  BY DEF Live
<1>3. \A q \in Requests : \A t \in snapshot'[q] : state'[t] # "none"
  BY <1>1, <1>2 DEF OlderInv, TypeOK
<1>4. \A t \in Tokens : \A u \in older'[t] : state'[u] # "none"
  BY <1>1 DEF OlderInv, TypeOK
<1>5. \A q \in Requests : doing'[q] = "insert_verify" =>
        snapshot'[q] \cap Live("verify")' \subseteq held'[q]
  BY <1>1 DEF OlderInv
<1>6. ResendSupersedes'
  BY <1>1 DEF OlderInv, ResendSupersedes
<1> QED BY <1>3, <1>4, <1>5, <1>6 DEF OlderInv

-----------------------------------------------------------------------------
(* The steps that leave the rows alone.                                    *)

\* A request that takes no lock and no token that another holds keeps the
\* invariant.
LEMMA QuietMove ==
  ASSUME LinksInv, NEW r \in Requests,
         NEW step \in Doing, NEW t \in Tokens \cup {NoToken}, NEW locked \in SUBSET Tokens,
         Proceed(r, step, t, locked), snapshot' \in [Requests -> SUBSET Tokens],
         \A q \in Requests \ {r} : snapshot'[q] = snapshot[q],
         snapshot'[r] \subseteq snapshot[r] \cup Live("verify"),
         step = "insert_verify" => snapshot'[r] \cap Live("verify") \subseteq locked,
         UNCHANGED <<active, verified, rows, redeemed, failed, older>>,
         step \in {"insert_reset", "redeem_reset"} => \A q \in Requests \ {r} : ~Locker(q),
         \A q \in Requests \ {r} : locked \cap held[q] = {},
         step = "insert_reset" => locked = Live("reset"),
         step = "insert_verify" => locked \subseteq Live("verify"),
         step = "redeem_verify" => t \in Tokens /\ locked = {t} /\ t \in Live("verify"),
         step \notin {"insert_reset", "insert_verify", "redeem_verify"} => locked = {},
         step \in {"deliver_reset", "deliver_verify", "redeem_reset"}
           => t \in Tokens /\ state[t] # "none",
         step = "redeem_reset" => purpose[t] = "reset"
  PROVE  LinksInv'
<1>0. TypeOK /\ LockInv /\ TokInv /\ UseInv /\ OlderInv
  BY DEF LinksInv
<1>1. UNCHANGED <<active, verified, state, purpose, expired, redeemed, failed, older>>
  BY DEF rows
<1>2. Live("reset")' = Live("reset") /\ Live("verify")' = Live("verify")
  BY <1>1 DEF Live
<1>3. UseInv'
  BY <1>0, <1>1, <1>2 DEF UseInv
<1>4. /\ doing' \in [Requests -> Doing] /\ doing'[r] = step
      /\ tok' \in [Requests -> Tokens \cup {NoToken}] /\ tok'[r] = t
      /\ held' \in [Requests -> SUBSET Tokens] /\ held'[r] = locked
      /\ \A q \in Requests \ {r} : doing'[q] = doing[q] /\ tok'[q] = tok[q] /\ held'[q] = held[q]
  BY <1>0, Proceeding
<1>5. TypeOK'
  BY <1>0, <1>1, <1>4 DEF TypeOK
<1>6. LockInv'
  <2>1. \A q, u \in Requests : Locker(q)' /\ Locker(u)' => q = u
    BY <1>0, <1>4 DEF LockInv, Locker
  <2>2. \A q, u \in Requests : q # u => held'[q] \cap held'[u] = {}
    BY <1>0, <1>4 DEF LockInv
  <2>3. ASSUME NEW q \in Requests
        PROVE  /\ doing'[q] = "insert_reset" => held'[q] = Live("reset")
               /\ doing'[q] = "insert_verify" => held'[q] \subseteq Live("verify")
               /\ doing'[q] = "redeem_verify"
                    => tok'[q] \in Tokens /\ held'[q] = {tok'[q]} /\ tok'[q] \in Live("verify")
               /\ doing'[q] \notin {"insert_reset", "insert_verify", "redeem_verify"} => held'[q] = {}
    BY <1>0, <1>4 DEF LockInv
  <2> QED BY <1>2, <2>1, <2>2, <2>3 DEF LockInv
<1>7. TokInv'
  BY <1>0, <1>1, <1>4 DEF TokInv
<1>8. OlderInv'
  <2>1. \A q \in Requests : snapshot'[q] \subseteq snapshot[q] \cup Live("verify")
    OBVIOUS
  <2>2. \A q \in Requests : doing'[q] = "insert_verify" =>
          \/ doing[q] = "insert_verify" /\ held'[q] = held[q] /\ snapshot'[q] = snapshot[q]
          \/ snapshot'[q] \cap Live("verify") \subseteq held'[q]
    BY <1>4
  <2> QED BY <1>1, <1>2, <2>1, <2>2, OlderKeeps
<1> QED BY <1>3, <1>5, <1>6, <1>7, <1>8 DEF LinksInv

LEMMA QuietSteps ==
  ASSUME LinksInv, NEW r \in Requests,
         \/ request_password_reset(r) \/ issue_password_reset_token(r)
         \/ issue_verification_token(r) \/ supersede(r)
         \/ deliver(r) \/ rollback(r)
         \/ \E t \in Tokens : consume_lock(r, t) \/ confirm_lock(r, t)
  PROVE  LinksInv'
<1>0. TypeOK /\ LockInv
  BY DEF LinksInv
<1> DEFINE SameSnapshots == \A q \in Requests : snapshot'[q] = snapshot[q]
<1>1. UNCHANGED <<active, verified, rows, redeemed, failed, older>>
  BY DEF request_password_reset, issue_password_reset_token, issue_verification_token,
         supersede, deliver, rollback, consume_lock, confirm_lock
<1>2. CASE request_password_reset(r)
  <2>1. Proceed(r, "read_reset", NoToken, {}) /\ snapshot' \in [Requests -> SUBSET Tokens] /\ SameSnapshots
    BY <1>0, <1>2 DEF request_password_reset, TypeOK
  <2> QED BY <1>1, <2>1, QuietMove DEF Doing
<1>3. CASE issue_password_reset_token(r)
  <2>1. Proceed(r, "insert_reset", NoToken, Live("reset")) /\ snapshot' \in [Requests -> SUBSET Tokens] /\ SameSnapshots
    BY <1>0, <1>3 DEF issue_password_reset_token, TypeOK
  <2>2. \A q \in Requests \ {r} : ~Locker(q)
    BY <1>3 DEF issue_password_reset_token, UserLocked, Locker
  <2>3. Live("reset") \in SUBSET Tokens /\ Live("reset") \cap Live("verify") = {}
    BY DEF Live
  <2>4. \A q \in Requests \ {r} : Live("reset") \cap held[q] = {}
    BY <1>0, <2>2, <2>3 DEF LockInv, Locker
  <2> HIDE DEF Live
  <2> QED BY <1>1, <2>1, <2>2, <2>3, <2>4, QuietMove DEF Doing
<1>4. CASE issue_verification_token(r)
  <2>1. /\ Proceed(r, "update_verify", NoToken, {}) /\ snapshot' \in [Requests -> SUBSET Tokens]
        /\ snapshot'[r] = Live("verify") /\ \A q \in Requests \ {r} : snapshot'[q] = snapshot[q]
    BY <1>0, <1>4 DEF issue_verification_token, TypeOK, Live
  <2>2. "update_verify" \in Doing /\ NoToken \in Tokens \cup {NoToken} /\ {} \in SUBSET Tokens
    BY DEF Doing
  <2>3. \A q \in Requests \ {r} : {} \cap held[q] = {}
    OBVIOUS
  <2> QED BY <1>1, <2>1, <2>2, <2>3, QuietMove
<1>5. CASE supersede(r)
  <2> DEFINE L == snapshot[r] \cap Live("verify")
  <2>1. /\ Proceed(r, "insert_verify", NoToken, L) /\ snapshot' \in [Requests -> SUBSET Tokens] /\ SameSnapshots
        /\ L \in SUBSET Tokens /\ L \subseteq Live("verify")
        /\ snapshot'[r] \cap Live("verify") \subseteq L
    BY <1>0, <1>5 DEF supersede, TypeOK, Live
  <2>2. \A q \in Requests \ {r} : L \cap held[q] = {}
    BY <1>5 DEF supersede, TokenLocked
  <2> HIDE DEF L
  <2> QED BY <1>1, <2>1, <2>2, QuietMove DEF Doing
<1>6. CASE deliver(r) \/ rollback(r)
  <2>1. /\ Proceed(r, "idle", NoToken, {}) /\ snapshot' \in [Requests -> SUBSET Tokens]
        /\ snapshot'[r] = {} /\ \A q \in Requests \ {r} : snapshot'[q] = snapshot[q]
    BY <1>0, <1>6, Finishing DEF deliver, rollback, Done
  <2> QED BY <1>1, <2>1, QuietMove DEF Doing
<1>7. ASSUME NEW t \in Tokens, consume_lock(r, t) PROVE LinksInv'
  <2>1. /\ Proceed(r, "redeem_reset", t, {}) /\ snapshot' \in [Requests -> SUBSET Tokens] /\ SameSnapshots
        /\ state[t] # "none" /\ purpose[t] = "reset"
        /\ \A q \in Requests \ {r} : ~Locker(q)
    BY <1>0, <1>7 DEF consume_lock, UserLocked, Locker, TypeOK
  <2> QED BY <1>1, <2>1, QuietMove DEF Doing
<1>8. ASSUME NEW t \in Tokens, confirm_lock(r, t) PROVE LinksInv'
  <2>1. /\ Proceed(r, "redeem_verify", t, {t}) /\ snapshot' \in [Requests -> SUBSET Tokens] /\ SameSnapshots
        /\ t \in Live("verify") /\ \A q \in Requests \ {r} : {t} \cap held[q] = {}
    BY <1>0, <1>8 DEF confirm_lock, Usable, Live, TokenLocked, TypeOK
  <2> QED BY <1>1, <2>1, QuietMove DEF Doing
<1> QED BY <1>2, <1>3, <1>4, <1>5, <1>6, <1>7, <1>8

-----------------------------------------------------------------------------
(* The steps that write the token rows.                                    *)

\* A request that has ended, with what it held still live for the others.
LEMMA OthersKeep ==
  ASSUME LinksInv, NEW r \in Requests, Done(r),
         state' \in [Tokens -> {"none", "live", "used", "pruned"}], UNCHANGED <<purpose, older>>,
         \A t \in Tokens : state'[t] = state[t] \/ (state[t] = "live" /\ state'[t] = "used"),
         \A q \in Requests \ {r} : \A t \in held[q] : state'[t] = state[t]
  PROVE  LockInv' /\ TokInv' /\ OlderInv'
<1>0. TypeOK /\ LockInv /\ TokInv
  BY DEF LinksInv
<1>1. /\ doing'[r] = "idle" /\ held'[r] = {}
      /\ \A q \in Requests \ {r} : doing'[q] = doing[q] /\ tok'[q] = tok[q] /\ held'[q] = held[q]
  BY <1>0, Finishing
<1>2. \A t \in Tokens, p \in Purpose : t \in Live(p)' => t \in Live(p)
  BY DEF Live
<1>3. \A q \in Requests \ {r} : \A p \in Purpose : held[q] \subseteq Live(p) => held[q] \subseteq Live(p)'
  BY <1>0 DEF Live, TypeOK
<1>4. LockInv'
  <2>1. \A q, u \in Requests : Locker(q)' /\ Locker(u)' => q = u
    BY <1>0, <1>1 DEF LockInv, Locker
  <2>2. \A q, u \in Requests : q # u => held'[q] \cap held'[u] = {}
    BY <1>0, <1>1 DEF LockInv
  <2>3. ASSUME NEW q \in Requests \ {r}
        PROVE  /\ doing[q] = "insert_reset" => held[q] = Live("reset")'
               /\ doing[q] = "insert_verify" => held[q] \subseteq Live("verify")'
               /\ doing[q] = "redeem_verify"
                    => tok[q] \in Tokens /\ held[q] = {tok[q]} /\ tok[q] \in Live("verify")'
    <3>1. ASSUME doing[q] = "insert_reset" PROVE held[q] = Live("reset")'
      <4>1. held[q] = Live("reset") /\ held[q] \subseteq Live("reset")'
        BY <1>0, <1>3, <3>1 DEF LockInv, Purpose
      <4>2. Live("reset")' \subseteq Live("reset")
        BY DEF Live
      <4> QED BY <4>1, <4>2
    <3>2. ASSUME doing[q] = "insert_verify" PROVE held[q] \subseteq Live("verify")'
      BY <1>0, <1>3, <3>2 DEF LockInv, Purpose
    <3>3. ASSUME doing[q] = "redeem_verify"
          PROVE  tok[q] \in Tokens /\ held[q] = {tok[q]} /\ tok[q] \in Live("verify")'
      <4>1. tok[q] \in Tokens /\ held[q] = {tok[q]} /\ held[q] \subseteq Live("verify")
        BY <1>0, <3>3 DEF LockInv
      <4> QED BY <1>3, <4>1 DEF Purpose
    <3> QED BY <3>1, <3>2, <3>3
  <2> QED BY <1>0, <1>1, <2>1, <2>2, <2>3 DEF LockInv
<1>5. TokInv'
  BY <1>0, <1>1 DEF TokInv
<1>6. OlderInv'
  <2>1. \A q \in Requests : snapshot'[q] \subseteq snapshot[q]
    BY <1>0, Finishing
  <2>2. \A q \in Requests : doing'[q] = "insert_verify" =>
          doing[q] = "insert_verify" /\ held'[q] = held[q] /\ snapshot'[q] = snapshot[q]
    BY <1>0, <1>1, Finishing
  <2>3. Live("verify")' \subseteq Live("verify")
    BY DEF Live
  <2>4. \A t \in Tokens : state[t] # "none" => state'[t] # "none"
    OBVIOUS
  <2> QED BY <2>1, <2>2, <2>3, <2>4, OlderKeeps
<1> QED BY <1>4, <1>5, <1>6

\* A delivery that fails.
LEMMA DeliveryFails ==
  ASSUME LinksInv, NEW r \in Requests, delivery_fails(r)
  PROVE  LinksInv'
<1>0. TypeOK /\ LockInv /\ TokInv /\ UseInv /\ OlderInv
  BY DEF LinksInv
<1>1. PICK t \in Tokens : t = tok[r] /\ state[t] # "none"
  BY <1>0 DEF delivery_fails, TokInv
<1>2. /\ Done(r) /\ UNCHANGED <<active, verified, purpose, expired, redeemed, older>>
      /\ state' = [state EXCEPT ![t] = IF @ = "live" THEN "used" ELSE @]
      /\ failed' = failed \cup {t} /\ ~TokenLocked(r, t)
  BY <1>1 DEF delivery_fails
<1>3. /\ state' \in [Tokens -> {"none", "live", "used", "pruned"}]
      /\ state'[t] \in {"used", "pruned"}
      /\ \A u \in Tokens : state'[u] = state[u] \/ (state[u] = "live" /\ state'[u] = "used")
      /\ \A u \in Tokens \ {t} : state'[u] = state[u]
  BY <1>0, <1>1, <1>2 DEF TypeOK
<1>4. \A q \in Requests \ {r} : \A u \in held[q] : state'[u] = state[u]
  BY <1>0, <1>2, <1>3 DEF TokenLocked, TypeOK
<1>5. LockInv' /\ TokInv' /\ OlderInv'
  BY <1>2, <1>3, <1>4, OthersKeep
<1>6. TypeOK'
  BY <1>0, <1>2, <1>3, Finishing DEF TypeOK
<1>7. UseInv'
  BY <1>0, <1>2, <1>3 DEF UseInv, Live, TypeOK
<1> QED BY <1>5, <1>6, <1>7 DEF LinksInv

\* A reset is redeemed.
LEMMA ResetRedeemed ==
  ASSUME LinksInv, NEW r \in Requests, consume_password_reset_token(r)
  PROVE  LinksInv'
<1>0. TypeOK /\ LockInv /\ TokInv /\ UseInv /\ OlderInv
  BY DEF LinksInv
<1>1. PICK t \in Tokens : t = tok[r] /\ state[t] # "none" /\ purpose[t] = "reset"
  BY <1>0 DEF consume_password_reset_token, TokInv
<1>2. /\ Done(r) /\ UNCHANGED <<active, verified, purpose, expired, failed, older>>
      /\ \A u \in Live("reset") \cup {t} : ~TokenLocked(r, u)
      /\ \/ /\ state[t] = "live"
            /\ state' = [u \in Tokens |->
                  IF u = t \/ (active /\ u \in Live("reset")) THEN "used" ELSE state[u]]
            /\ redeemed' = [redeemed EXCEPT ![t] = IF active THEN @ + 1 ELSE @]
         \/ UNCHANGED <<state, redeemed>>
  BY <1>1 DEF consume_password_reset_token, Usable
<1>3. /\ state' \in [Tokens -> {"none", "live", "used", "pruned"}]
      /\ \A u \in Tokens : state'[u] = state[u]
                           \/ (state[u] = "live" /\ state'[u] = "used" /\ u \in Live("reset") \cup {t})
  BY <1>0, <1>2 DEF TypeOK, Live
<1>4. \A q \in Requests \ {r} : \A u \in held[q] : state'[u] = state[u]
  BY <1>0, <1>2, <1>3 DEF TokenLocked, TypeOK
<1>5. LockInv' /\ TokInv' /\ OlderInv'
  BY <1>2, <1>3, <1>4, OthersKeep
<1>6. /\ redeemed' \in [Tokens -> Nat]
      /\ \A u \in Tokens : redeemed'[u] <= 1 /\ (state'[u] \in {"none", "live"} => redeemed'[u] = 0)
  <2>1. CASE UNCHANGED <<state, redeemed>>
    BY <1>0, <2>1 DEF TypeOK, UseInv
  <2>2. CASE /\ state[t] = "live"
             /\ state' = [u \in Tokens |->
                   IF u = t \/ (active /\ u \in Live("reset")) THEN "used" ELSE state[u]]
             /\ redeemed' = [redeemed EXCEPT ![t] = IF active THEN @ + 1 ELSE @]
    <3>1. redeemed[t] = 0 /\ redeemed \in [Tokens -> Nat]
      BY <1>0, <2>2 DEF UseInv, TypeOK
    <3>2. /\ redeemed' \in [Tokens -> Nat] /\ redeemed'[t] <= 1 /\ state'[t] = "used"
          /\ \A u \in Tokens \ {t} : redeemed'[u] = redeemed[u]
      BY <2>2, <3>1
    <3> QED BY <1>0, <1>3, <3>2 DEF UseInv
  <2> QED BY <1>2, <2>1, <2>2
<1>7. TypeOK'
  BY <1>0, <1>2, <1>3, <1>6, Finishing DEF TypeOK
<1>8. UseInv'
  BY <1>0, <1>2, <1>3, <1>6 DEF UseInv, Live, TypeOK
<1> QED BY <1>5, <1>7, <1>8 DEF LinksInv

\* A verification is confirmed.
LEMMA VerificationConfirmed ==
  ASSUME LinksInv, NEW r \in Requests, confirm_commit(r)
  PROVE  LinksInv'
<1>0. TypeOK /\ LockInv /\ TokInv /\ UseInv /\ OlderInv
  BY DEF LinksInv
<1>1. PICK t \in Tokens : t = tok[r] /\ held[r] = {t} /\ state[t] = "live" /\ purpose[t] = "verify"
  BY <1>0 DEF confirm_commit, LockInv, Live
<1>2. /\ Done(r) /\ UNCHANGED <<active, purpose, expired, failed, older>>
      /\ \/ /\ verified' = TRUE
            /\ redeemed' = [redeemed EXCEPT ![t] = IF verified THEN @ ELSE @ + 1]
            /\ state' = [state EXCEPT ![t] = "used"]
         \/ UNCHANGED <<verified, redeemed, state>>
  BY <1>1 DEF confirm_commit
<1>3. /\ state' \in [Tokens -> {"none", "live", "used", "pruned"}] /\ verified' \in BOOLEAN
      /\ \A u \in Tokens : state'[u] = state[u] \/ (state[u] = "live" /\ state'[u] = "used" /\ u = t)
  <2>1. verified' \in BOOLEAN
    BY <1>0, <1>2 DEF TypeOK
  <2>2. state' = state \/ state' = [state EXCEPT ![t] = "used"]
    BY <1>2
  <2>3. state \in [Tokens -> {"none", "live", "used", "pruned"}]
    BY <1>0 DEF TypeOK
  <2> QED BY <1>1, <2>1, <2>2, <2>3
<1>4. \A q \in Requests \ {r} : \A u \in held[q] : state'[u] = state[u]
  <2> SUFFICES ASSUME NEW q \in Requests \ {r}, NEW u \in held[q] PROVE state'[u] = state[u]
    OBVIOUS
  <2>1. held[q] \subseteq Tokens
    BY <1>0 DEF TypeOK
  <2>2. held[q] \cap held[r] = {}
    BY <1>0 DEF LockInv
  <2> QED BY <1>1, <1>3, <2>1, <2>2
<1>5. LockInv' /\ TokInv' /\ OlderInv'
  BY <1>2, <1>3, <1>4, OthersKeep
<1>6. /\ redeemed' \in [Tokens -> Nat]
      /\ \A u \in Tokens : redeemed'[u] <= 1 /\ (state'[u] \in {"none", "live"} => redeemed'[u] = 0)
  <2>1. CASE UNCHANGED <<verified, redeemed, state>>
    BY <1>0, <2>1 DEF TypeOK, UseInv
  <2>2. CASE /\ redeemed' = [redeemed EXCEPT ![t] = IF verified THEN @ ELSE @ + 1]
             /\ state' = [state EXCEPT ![t] = "used"]
    <3>1. redeemed[t] = 0 /\ redeemed \in [Tokens -> Nat]
      BY <1>0, <1>1 DEF UseInv, TypeOK
    <3>2. /\ redeemed' \in [Tokens -> Nat] /\ redeemed'[t] <= 1 /\ state'[t] = "used"
          /\ \A u \in Tokens \ {t} : redeemed'[u] = redeemed[u]
      BY <1>0, <2>2, <3>1 DEF TypeOK
    <3> QED BY <1>0, <1>3, <3>2 DEF UseInv
  <2> QED BY <1>2, <2>1, <2>2
<1>7. TypeOK'
  BY <1>0, <1>2, <1>3, <1>6, Finishing DEF TypeOK
<1>8. UseInv'
  BY <1>0, <1>2, <1>3, <1>6 DEF UseInv, Live, TypeOK
<1> QED BY <1>5, <1>7, <1>8 DEF LinksInv

\* A token is issued in the place of those its request holds.
LEMMA Issued ==
  ASSUME LinksInv, NEW r \in Requests, commit_issue(r)
  PROVE  LinksInv'
<1>0. TypeOK /\ LockInv /\ TokInv /\ UseInv /\ OlderInv
  BY DEF LinksInv
<1>1. PICK p \in Purpose, t \in Tokens :
        /\ doing[r] = (IF p = "reset" THEN "insert_reset" ELSE "insert_verify")
        /\ state[t] = "none"
        /\ state' = [u \in Tokens |-> CASE u = t -> "live"
                                        [] u \in held[r] -> "used"
                                        [] OTHER -> state[u]]
        /\ purpose' = [purpose EXCEPT ![t] = p]
        /\ Proceed(r, IF p = "reset" THEN "deliver_reset" ELSE "deliver_verify", t, {})
        /\ older' = [older EXCEPT ![t] = snapshot[r]]
        /\ snapshot' = [snapshot EXCEPT ![r] = {}]
        /\ UNCHANGED <<active, verified, expired, redeemed, failed>>
  BY DEF commit_issue
<1>2. PICK step \in {"deliver_reset", "deliver_verify"} : Proceed(r, step, t, {})
  BY <1>1 DEF Purpose
<1>3. /\ doing' \in [Requests -> Doing] /\ doing'[r] = step
      /\ tok' \in [Requests -> Tokens \cup {NoToken}] /\ tok'[r] = t
      /\ held' \in [Requests -> SUBSET Tokens] /\ held'[r] = {}
      /\ \A q \in Requests \ {r} : doing'[q] = doing[q] /\ tok'[q] = tok[q] /\ held'[q] = held[q]
  <2>1. step \in Doing /\ t \in Tokens \cup {NoToken} /\ {} \in SUBSET Tokens
    BY DEF Doing
  <2> QED BY <1>0, <1>2, <2>1, Proceeding
<1>4. /\ held[r] \subseteq Live(p) /\ (p = "reset" => held[r] = Live("reset"))
      /\ t \notin held[r]
  BY <1>0, <1>1 DEF LockInv, Purpose, Live
<1>5. /\ state' \in [Tokens -> {"none", "live", "used", "pruned"}] /\ state'[t] = "live"
      /\ \A u \in held[r] : state'[u] = "used"
      /\ \A u \in Tokens : u # t /\ u \notin held[r] => state'[u] = state[u]
  BY <1>0, <1>1, <1>4 DEF TypeOK
<1>6. /\ purpose' \in [Tokens -> Purpose] /\ purpose'[t] = p
      /\ \A u \in Tokens \ {t} : purpose'[u] = purpose[u]
  BY <1>0, <1>1 DEF TypeOK
<1>7. /\ p = "reset" => Live("reset")' \subseteq {t}
      /\ p = "verify" => Live("reset")' = Live("reset")
      /\ \A q \in Requests \ {r} : held[q] \subseteq Live("verify") => held[q] \subseteq Live("verify")'
  <2>1. ASSUME p = "reset" PROVE Live("reset")' \subseteq {t}
    BY <1>4, <1>5, <1>6, <2>1 DEF Live
  <2>2. ASSUME p = "verify" PROVE Live("reset")' = Live("reset")
    BY <1>1, <1>4, <1>5, <1>6, <2>2 DEF Live
  <2>3. ASSUME NEW q \in Requests \ {r}, held[q] \subseteq Live("verify")
        PROVE  held[q] \subseteq Live("verify")'
    <3>1. held[q] \cap held[r] = {} /\ t \notin held[q]
      BY <1>0, <1>1, <2>3 DEF LockInv, Live
    <3> QED BY <1>5, <1>6, <2>3, <3>1 DEF Live
  <2> QED BY <2>1, <2>2, <2>3
<1>8. TypeOK'
  BY <1>0, <1>1, <1>3, <1>5, <1>6 DEF TypeOK
<1>9. LockInv'
  <2>1. \A q, u \in Requests : Locker(q)' /\ Locker(u)' => q = u
    BY <1>0, <1>3 DEF LockInv, Locker
  <2>2. \A q, u \in Requests : q # u => held'[q] \cap held'[u] = {}
    BY <1>0, <1>3 DEF LockInv
  <2>3. ASSUME NEW q \in Requests \ {r}, doing[q] = "insert_reset"
        PROVE  held[q] = Live("reset")'
    <3>1. p = "verify"
      BY <1>0, <1>1, <2>3 DEF LockInv, Locker, Purpose
    <3> QED BY <1>0, <1>7, <2>3, <3>1 DEF LockInv
  <2>4. ASSUME NEW q \in Requests \ {r}
        PROVE  /\ doing[q] = "insert_verify" => held[q] \subseteq Live("verify")'
               /\ doing[q] = "redeem_verify"
                    => tok[q] \in Tokens /\ held[q] = {tok[q]} /\ tok[q] \in Live("verify")'
    <3>1. doing[q] = "redeem_verify"
            => tok[q] \in Tokens /\ held[q] = {tok[q]} /\ held[q] \subseteq Live("verify")
      BY <1>0 DEF LockInv
    <3>2. doing[q] = "insert_verify" => held[q] \subseteq Live("verify")
      BY <1>0 DEF LockInv
    <3> QED BY <1>7, <3>1, <3>2
  <2>5. \A q \in Requests \ {r} :
          doing[q] \notin {"insert_reset", "insert_verify", "redeem_verify"} => held[q] = {}
    BY <1>0 DEF LockInv
  <2> QED BY <1>3, <2>1, <2>2, <2>3, <2>4, <2>5 DEF LockInv
<1>10. TokInv'
  <2>1. \A u \in Tokens : state[u] # "none" => state'[u] # "none" /\ purpose'[u] = purpose[u]
    BY <1>1, <1>5, <1>6
  <2> QED BY <1>0, <1>3, <1>5, <2>1 DEF TokInv
<1>11. UseInv'
  <2>1. \A u \in Tokens : redeemed'[u] <= 1 /\ (state'[u] \in {"none", "live"} => redeemed'[u] = 0)
    BY <1>0, <1>1, <1>5 DEF UseInv
  <2>2. \A u \in failed' : state'[u] \in {"used", "pruned"}
    BY <1>0, <1>1, <1>5 DEF UseInv, TypeOK
  <2>3. \A u, v \in Live("reset")' : u = v
    BY <1>0, <1>7 DEF UseInv, Purpose
  <2> QED BY <2>1, <2>2, <2>3 DEF UseInv
<1>12. OlderInv'
  <2>1. /\ older' \in [Tokens -> SUBSET Tokens] /\ older'[t] = snapshot[r]
        /\ \A u \in Tokens \ {t} : older'[u] = older[u]
        /\ snapshot' \in [Requests -> SUBSET Tokens] /\ snapshot'[r] = {}
        /\ \A q \in Requests \ {r} : snapshot'[q] = snapshot[q]
    BY <1>0, <1>1 DEF TypeOK
  <2>2. \A u \in Tokens : state[u] # "none" => u # t /\ state'[u] # "none"
    BY <1>1, <1>5
  <2>3. \A q \in Requests : \A u \in snapshot'[q] : state'[u] # "none"
    BY <1>0, <2>1, <2>2 DEF OlderInv, TypeOK
  <2>4. \A w \in Tokens : \A u \in older'[w] : u # t /\ state'[u] # "none"
    BY <1>0, <2>1, <2>2 DEF OlderInv, TypeOK
  <2>5. \A u \in Live("verify")' : u # t => u \in Live("verify") /\ u \notin held[r]
    BY <1>5, <1>6 DEF Live
  <2>6. \A q \in Requests : doing'[q] = "insert_verify" =>
          snapshot'[q] \cap Live("verify")' \subseteq held'[q]
    <3> SUFFICES ASSUME NEW q \in Requests, doing'[q] = "insert_verify",
                        NEW u \in snapshot'[q] \cap Live("verify")'
                 PROVE  u \in held'[q]
      OBVIOUS
    <3>1. q # r /\ doing[q] = "insert_verify" /\ snapshot'[q] = snapshot[q] /\ held'[q] = held[q]
      BY <1>3, <2>1
    <3>2. u # t
      BY <1>0, <1>1, <3>1 DEF OlderInv
    <3> QED BY <1>0, <2>5, <3>1, <3>2 DEF OlderInv
  <2>7. ResendSupersedes'
    <3> SUFFICES ASSUME NEW w \in Live("verify")', NEW u \in older'[w], u \in Live("verify")'
                 PROVE  FALSE
      BY DEF ResendSupersedes
    <3>1. w \in Tokens /\ u # t /\ u \in Live("verify") /\ u \notin held[r]
      BY <2>4, <2>5 DEF Live
    <3>2. CASE w = t
      <4>1. p = "verify"
        BY <1>6, <3>2 DEF Live
      <4> QED BY <1>0, <1>1, <2>1, <3>1, <3>2, <4>1 DEF OlderInv
    <3>3. CASE w # t
      BY <1>0, <2>1, <2>5, <3>1, <3>3 DEF OlderInv, ResendSupersedes
    <3> QED BY <3>2, <3>3
  <2> QED BY <2>3, <2>4, <2>6, <2>7 DEF OlderInv
<1> QED BY <1>8, <1>9, <1>10, <1>11, <1>12 DEF LinksInv

\* Deletion, pruning and expiry take unused links away, none that is held.
LEMMA Taken ==
  ASSUME LinksInv, delete_my_account \/ \E t \in Tokens : prune(t) \/ expire(t)
  PROVE  LinksInv'
<1>0. TypeOK /\ LockInv /\ TokInv /\ UseInv /\ OlderInv
  BY DEF LinksInv
<1>1. /\ state' \in [Tokens -> {"none", "live", "used", "pruned"}]
      /\ \A u \in Tokens : state'[u] = state[u]
           \/ (/\ state[u] # "none" /\ state'[u] \in {"used", "pruned"}
               /\ \A q \in Requests : u \notin held[q])
  <2>1. CASE delete_my_account
    <3>1. /\ state' = [t \in Tokens |-> IF state[t] = "live" THEN "used" ELSE state[t]]
          /\ \A q \in Requests : held[q] = {}
      BY <2>1 DEF delete_my_account
    <3> QED BY <1>0, <3>1 DEF TypeOK
  <2>2. CASE \E t \in Tokens : prune(t)
    <3>1. PICK t \in Tokens : prune(t)
      BY <2>2
    <3>2. state' = [state EXCEPT ![t] = "pruned"] /\ state[t] # "none"
          /\ \A q \in Requests : t \notin held[q]
      BY <3>1 DEF prune
    <3> QED BY <1>0, <3>2 DEF TypeOK
  <2>3. CASE \E t \in Tokens : expire(t)
    <3>1. UNCHANGED state
      BY <2>3 DEF expire
    <3> QED BY <1>0, <3>1 DEF TypeOK
  <2> QED BY <2>1, <2>2, <2>3
<1>2. /\ UNCHANGED <<verified, purpose, redeemed, failed, older, doing, tok, snapshot, held>>
      /\ active' \in BOOLEAN /\ expired' \in [Tokens -> BOOLEAN]
  BY <1>0 DEF delete_my_account, prune, expire, slots, TypeOK
<1>3. TypeOK'
  BY <1>0, <1>1, <1>2 DEF TypeOK
<1>4. /\ \A p \in Purpose : Live(p)' \subseteq Live(p)
      /\ \A q \in Requests, p \in Purpose : held[q] \subseteq Live(p) => held[q] \subseteq Live(p)'
  BY <1>1, <1>2 DEF Live
<1>5. LockInv'
  <2>1. ASSUME NEW q \in Requests
        PROVE  /\ doing[q] = "insert_reset" => held[q] = Live("reset")'
               /\ doing[q] = "insert_verify" => held[q] \subseteq Live("verify")'
               /\ doing[q] = "redeem_verify"
                    => tok[q] \in Tokens /\ held[q] = {tok[q]} /\ tok[q] \in Live("verify")'
    <3>1. doing[q] = "redeem_verify"
            => tok[q] \in Tokens /\ held[q] = {tok[q]} /\ held[q] \subseteq Live("verify")
      BY <1>0 DEF LockInv
    <3>2. doing[q] = "insert_verify" => held[q] \subseteq Live("verify")
      BY <1>0 DEF LockInv
    <3>3. doing[q] = "insert_reset" => held[q] = Live("reset")
      BY <1>0 DEF LockInv
    <3> QED BY <1>4, <3>1, <3>2, <3>3 DEF Purpose
  <2> QED BY <1>0, <1>2, <2>1 DEF LockInv, Locker
<1>6. TokInv'
  BY <1>0, <1>1, <1>2 DEF TokInv
<1>7. UseInv'
  BY <1>0, <1>1, <1>2, <1>4 DEF UseInv, TypeOK, Purpose
<1>8. OlderInv'
  <2>1. Live("verify")' \subseteq Live("verify")
    BY <1>4 DEF Purpose
  <2>2. \A t \in Tokens : state[t] # "none" => state'[t] # "none"
    BY <1>1
  <2> QED BY <1>2, <2>1, <2>2, OlderKeeps
<1> QED BY <1>3, <1>5, <1>6, <1>7, <1>8 DEF LinksInv

-----------------------------------------------------------------------------
(* The theorems.                                                           *)

\* The inductive invariant holds in every reachable state of every instance.
THEOREM LinksSafe == Spec => []LinksInv
<1>1. Init => LinksInv
  <2> SUFFICES ASSUME Init PROVE LinksInv
    OBVIOUS
  <2>1. TypeOK
    BY DEF Init, TypeOK, Purpose, Doing
  <2>2. LockInv /\ TokInv /\ UseInv /\ OlderInv
    BY DEF Init, LockInv, TokInv, UseInv, OlderInv, ResendSupersedes, Locker, Live
  <2> QED BY <2>1, <2>2 DEF LinksInv
<1>2. LinksInv /\ [Next]_vars => LinksInv'
  <2> SUFFICES ASSUME LinksInv, [Next]_vars PROVE LinksInv'
    OBVIOUS
  <2>1. CASE UNCHANGED vars
    BY <2>1 DEF vars, rows, slots, LinksInv, TypeOK, LockInv, TokInv, UseInv, OlderInv,
                   ResendSupersedes, Locker, Live
  <2>2. ASSUME NEW r \in Requests,
               \/ request_password_reset(r) \/ issue_password_reset_token(r)
               \/ issue_verification_token(r) \/ supersede(r)
               \/ deliver(r) \/ rollback(r)
               \/ \E t \in Tokens : consume_lock(r, t) \/ confirm_lock(r, t)
        PROVE  LinksInv'
    BY <2>2, QuietSteps
  <2>3. ASSUME NEW r \in Requests, commit_issue(r) PROVE LinksInv'
    BY <2>3, Issued
  <2>4. ASSUME NEW r \in Requests, delivery_fails(r) PROVE LinksInv'
    BY <2>4, DeliveryFails
  <2>5. ASSUME NEW r \in Requests, consume_password_reset_token(r) PROVE LinksInv'
    BY <2>5, ResetRedeemed
  <2>6. ASSUME NEW r \in Requests, confirm_commit(r) PROVE LinksInv'
    BY <2>6, VerificationConfirmed
  <2> QED BY <2>1, <2>2, <2>3, <2>4, <2>5, <2>6, Taken DEF Next
<1> QED
  BY <1>1, <1>2, PTL DEF Spec

\* A link is accepted once (confirm_verification_token, reset_password),
\* however clicks, resends, deletion and pruning interleave.
THEOREM OnceRedeemed == Spec => []RedeemedOnce
<1>1. LinksInv => RedeemedOnce
  BY DEF LinksInv, UseInv, RedeemedOnce
<1> QED
  BY <1>1, LinksSafe, PTL

\* One reset link is live at a time, because issue_password_reset_token holds
\* the user row; of two verification links that are live neither is older than
\* the other, because issue_verification_token waits for whoever holds a link
\* that it found; and a link whose delivery failed is dead.
THEOREM LinkSafe == Spec => []LiveLinks
<1>1. LinksInv => LiveLinks
  <2> SUFFICES ASSUME LinksInv PROVE LiveLinks
    OBVIOUS
  <2>1. TypeOK /\ FailedLinkIsDead /\ ResendSupersedes
    BY DEF LinksInv, UseInv, OlderInv, FailedLinkIsDead
  <2>2. ASSUME Live("reset") = {} PROVE OneResetLink
    BY <2>2, FS_EmptySet DEF OneResetLink
  <2>3. ASSUME NEW t \in Live("reset") PROVE OneResetLink
    <3>1. Live("reset") = {t}
      BY <2>3 DEF LinksInv, UseInv
    <3> QED BY <3>1, FS_Singleton DEF OneResetLink
  <2> QED BY <2>1, <2>2, <2>3 DEF LiveLinks
<1> QED
  BY <1>1, LinksSafe, PTL

\* Nothing is accepted for an account that was deleted: both redeeming handlers
\* look at is_active with the row that they lock.
THEOREM DeletedSafe == Spec => NothingRedeemedAfterDeletion
<1>1. LinksInv /\ [Next]_vars => [~active => redeemed' = redeemed /\ verified' = verified]_vars
  <2> SUFFICES ASSUME LinksInv, [Next]_vars, ~active
               PROVE  redeemed' = redeemed /\ verified' = verified
    OBVIOUS
  <2>1. ASSUME NEW r \in Requests, consume_password_reset_token(r)
        PROVE  redeemed' = redeemed /\ verified' = verified
    BY <2>1 DEF consume_password_reset_token, LinksInv, TypeOK
  <2>2. ASSUME NEW r \in Requests, confirm_commit(r)
        PROVE  redeemed' = redeemed /\ verified' = verified
    BY <2>2 DEF confirm_commit
  <2> QED BY <2>1, <2>2 DEF Next, vars, request_password_reset, issue_password_reset_token,
             issue_verification_token, supersede, commit_issue, deliver, delivery_fails,
             consume_lock, confirm_lock, rollback, delete_my_account, prune, expire
<1> QED
  BY <1>1, LinksSafe, PTL DEF Spec, NothingRedeemedAfterDeletion

-----------------------------------------------------------------------------
(* The second factor.                                                      *)

\* Secrets and batches are numbered as they are generated; the codes in use are
\* those of the last batch, and an unused one has let nobody in.
FactorInv ==
  /\ totp.secret <= secrets
  /\ \A p \in steps : p[1] <= secrets
  /\ \A b \in Batches :
       /\ code[b] = "fresh" => b = batches
       /\ b > batches => code[b] = "none"
       /\ logins[b] <= 1
       /\ code[b] \in {"none", "fresh"} => logins[b] = 0

\* What a request in flight knows. A login holds the row, so what it has checked
\* is true until it commits; a confirm only knows what it has read.
FlightInv ==
  /\ \A q, r \in MfaRequests : op[q] = "login" /\ op[r] = "login" => q = r
  /\ \A r \in MfaRequests :
       /\ op[r] \in {"confirm", "disable", "login"} =>
            \/ factor[r][1] = "totp" /\ factor[r][2] \in 1..MaxClock + 1
            \/ factor[r][1] = "code" /\ factor[r][2] \in Batches /\ factor[r][2] <= batches
       /\ op[r] = "confirm" => /\ factor[r][1] = "totp" /\ factor[r][2] > seen[r].last
                               /\ seen[r].secret \in proven
       /\ op[r] = "login" => /\ Enabled(totp)
                             /\ factor[r][1] = "totp" => factor[r][2] > totp.last
                             /\ factor[r][1] = "code" => code[factor[r][2]] = "fresh"

\* As long as no write went over a row that had changed: a step behind the last
\* one used is all that was accepted for the secret in force, and an enabled
\* secret was proven.
FreshInv ==
  ~stale => /\ ~again
            /\ \A p \in steps : p[1] = totp.secret => p[2] <= totp.last
            /\ Enabled(totp) => totp.secret \in proven

MfaInv == MfaTypeOK /\ FactorInv /\ FlightInv /\ FreshInv

\* A request that begins changes its own slot only.
LEMMA MfaBeginning ==
  ASSUME MfaTypeOK, NEW r \in MfaRequests,
         NEW what \in {"setup", "confirm", "disable", "login"},
         NEW f \in {"none", "totp", "code"} \X (0..MaxClock + MaxBatches + 1),
         Begin(r, what, f)
  PROVE  /\ op[r] = "idle" /\ op'[r] = what /\ seen'[r] = totp /\ factor'[r] = f
         /\ op' \in [MfaRequests -> {"idle", "setup", "confirm", "disable", "login"}]
         /\ seen' \in [MfaRequests -> Rows]
         /\ factor' \in [MfaRequests -> {"none", "totp", "code"} \X (0..MaxClock + MaxBatches + 1)]
         /\ \A q \in MfaRequests \ {r} : op'[q] = op[q] /\ seen'[q] = seen[q] /\ factor'[q] = factor[q]
BY DEF Begin, MfaTypeOK

\* So does one that ends.
LEMMA MfaEnding ==
  ASSUME MfaTypeOK, NEW r \in MfaRequests, MfaDone(r)
  PROVE  /\ op'[r] = "idle"
         /\ op' \in [MfaRequests -> {"idle", "setup", "confirm", "disable", "login"}]
         /\ seen' \in [MfaRequests -> Rows]
         /\ factor' \in [MfaRequests -> {"none", "totp", "code"} \X (0..MaxClock + MaxBatches + 1)]
         /\ \A q \in MfaRequests \ {r} : op'[q] = op[q] /\ seen'[q] = seen[q] /\ factor'[q] = factor[q]
<1>1. NoRow \in Rows
  BY MfaAssumption DEF NoRow, Rows
<1>2. NoFactor \in {"none", "totp", "code"} \X (0..MaxClock + MaxBatches + 1)
  BY MfaAssumption DEF NoFactor
<1> QED BY <1>1, <1>2 DEF MfaDone, MfaTypeOK

\* A request that begins keeps the invariant when what it takes with it is true.
LEMMA MfaReading ==
  ASSUME MfaInv, NEW r \in MfaRequests,
         NEW what \in {"setup", "confirm", "disable", "login"},
         NEW f \in {"none", "totp", "code"} \X (0..MaxClock + MaxBatches + 1),
         Begin(r, what, f),
         what = "login" => ~Locked(r) /\ Enabled(totp),
         \/ what = "setup"
         \/ f[1] = "totp" /\ f[2] \in 1..MaxClock + 1 /\ f[2] > totp.last
         \/ f[1] = "code" /\ f[2] \in Batches /\ code[f[2]] = "fresh" /\ what # "confirm",
         IF what = "confirm" THEN proven' = proven \cup {totp.secret} /\ totp.secret # 0
                             ELSE proven' = proven,
         UNCHANGED <<mfaState, steps, again, logins, stale>>
  PROVE  MfaInv'
<1>0. MfaTypeOK /\ FactorInv /\ FlightInv /\ FreshInv
  BY DEF MfaInv
<1>1. /\ op[r] = "idle" /\ op'[r] = what /\ seen'[r] = totp /\ factor'[r] = f
      /\ op' \in [MfaRequests -> {"idle", "setup", "confirm", "disable", "login"}]
      /\ seen' \in [MfaRequests -> Rows]
      /\ factor' \in [MfaRequests -> {"none", "totp", "code"} \X (0..MaxClock + MaxBatches + 1)]
      /\ \A q \in MfaRequests \ {r} : op'[q] = op[q] /\ seen'[q] = seen[q] /\ factor'[q] = factor[q]
  BY <1>0, MfaBeginning
<1>2. UNCHANGED <<totp, secrets, batches, code, clock, steps, again, logins, stale>>
  BY DEF mfaState
<1>3. proven \subseteq proven' /\ proven' \subseteq 1..MaxSecrets
  <2>1. totp.secret \in 0..MaxSecrets /\ proven \subseteq 1..MaxSecrets
    BY <1>0 DEF MfaTypeOK, Rows
  <2>2. totp.secret # 0 => totp.secret \in 1..MaxSecrets
    BY <2>1, MfaAssumption
  <2> QED BY <2>1, <2>2
<1>4. MfaTypeOK'
  BY <1>0, <1>1, <1>2, <1>3 DEF MfaTypeOK
<1>5. FactorInv'
  BY <1>0, <1>2 DEF FactorInv
<1>6. FlightInv'
  <2>1. \A p, q \in MfaRequests : op'[p] = "login" /\ op'[q] = "login" => p = q
    BY <1>0, <1>1 DEF FlightInv, Locked
  <2>2. ASSUME NEW q \in MfaRequests \ {r}
        PROVE  /\ op'[q] \in {"confirm", "disable", "login"} =>
                    \/ factor'[q][1] = "totp" /\ factor'[q][2] \in 1..MaxClock + 1
                    \/ factor'[q][1] = "code" /\ factor'[q][2] \in Batches /\ factor'[q][2] <= batches
               /\ op'[q] = "confirm" => /\ factor'[q][1] = "totp" /\ factor'[q][2] > seen'[q].last
                                        /\ seen'[q].secret \in proven'
               /\ op'[q] = "login" => /\ Enabled(totp)
                                      /\ factor'[q][1] = "totp" => factor'[q][2] > totp.last
                                      /\ factor'[q][1] = "code" => code[factor'[q][2]] = "fresh"
    BY <1>0, <1>1, <1>3 DEF FlightInv
  <2>3. f[1] = "code" /\ what # "setup" => f[2] <= batches
    BY <1>0 DEF FactorInv, Batches, MfaTypeOK
  <2>4. /\ what \in {"confirm", "disable", "login"} =>
             \/ f[1] = "totp" /\ f[2] \in 1..MaxClock + 1
             \/ f[1] = "code" /\ f[2] \in Batches /\ f[2] <= batches
        /\ what = "confirm" => f[1] = "totp" /\ f[2] > totp.last /\ totp.secret \in proven'
        /\ what = "login" => /\ Enabled(totp)
                             /\ f[1] = "totp" => f[2] > totp.last
                             /\ f[1] = "code" => code[f[2]] = "fresh"
    BY <2>3
  <2> QED BY <1>1, <1>2, <2>1, <2>2, <2>4 DEF FlightInv, Enabled
<1>7. FreshInv'
  BY <1>0, <1>2, <1>3 DEF FreshInv, Enabled
<1> QED BY <1>4, <1>5, <1>6, <1>7 DEF MfaInv

\* The steps that begin a request.
LEMMA MfaReads ==
  ASSUME MfaInv, NEW r \in MfaRequests,
         setup_read(r) \/ confirm_read(r) \/ disable_read(r) \/ login_lock(r)
  PROVE  MfaInv'
<1> DEFINE Totp(c) == <<"totp", c>>
           Recovery(b) == <<"code", b>>
           F == {"none", "totp", "code"} \X (0..MaxClock + MaxBatches + 1)
<1>1. /\ NoFactor \in F
      /\ \A c \in 1..MaxClock + 1 : Totp(c) \in F
      /\ \A b \in Batches : Recovery(b) \in F
  BY MfaAssumption DEF NoFactor, Batches
<1>2. CASE setup_read(r)
  <2>1. /\ Begin(r, "setup", NoFactor)
        /\ UNCHANGED <<mfaState, steps, again, logins, stale>> /\ proven' = proven
    BY <1>2 DEF setup_read, history
  <2> QED BY <1>1, <2>1, MfaReading
<1>3. CASE confirm_read(r)
  <2>1. PICK c \in 1..MaxClock + 1 : verify_totp_code(totp, c) /\ Begin(r, "confirm", Totp(c))
    BY <1>3 DEF confirm_read
  <2>2. /\ totp.secret # 0 /\ proven' = proven \cup {totp.secret}
        /\ UNCHANGED <<mfaState, steps, again, logins, stale>>
    BY <1>3 DEF confirm_read
  <2>3. c > totp.last
    BY <2>1 DEF verify_totp_code
  <2>4. Totp(c)[1] = "totp" /\ Totp(c)[2] = c
    OBVIOUS
  <2> QED BY <1>1, <2>1, <2>2, <2>3, <2>4, MfaReading
<1>4. ASSUME NEW what \in {"disable", "login"},
             what = "login" => ~Locked(r) /\ Enabled(totp),
             \/ \E c \in 1..MaxClock + 1 : verify_totp_code(totp, c) /\ Begin(r, what, Totp(c))
             \/ \E b \in Batches : code[b] = "fresh" /\ Begin(r, what, Recovery(b)),
             UNCHANGED <<mfaState, history>>
      PROVE  MfaInv'
  <2>1. UNCHANGED <<mfaState, steps, again, logins, stale>> /\ proven' = proven
    BY <1>4 DEF history
  <2>2. ASSUME NEW c \in 1..MaxClock + 1, verify_totp_code(totp, c), Begin(r, what, Totp(c))
        PROVE  MfaInv'
    <3>1. Totp(c)[1] = "totp" /\ Totp(c)[2] = c /\ c > totp.last
      BY <2>2 DEF verify_totp_code
    <3> QED BY <1>1, <1>4, <2>1, <2>2, <3>1, MfaReading
  <2>3. ASSUME NEW b \in Batches, code[b] = "fresh", Begin(r, what, Recovery(b))
        PROVE  MfaInv'
    <3>1. Recovery(b)[1] = "code" /\ Recovery(b)[2] = b
      OBVIOUS
    <3> QED BY <1>1, <1>4, <2>1, <2>3, <3>1, MfaReading
  <2> QED BY <1>4, <2>2, <2>3
<1>5. CASE disable_read(r)
  BY <1>4, <1>5 DEF disable_read
<1>6. CASE login_lock(r)
  BY <1>4, <1>6 DEF login_lock
<1> QED BY <1>2, <1>3, <1>5, <1>6

\* A write of setup, confirm or disable finds no login in flight.
LEMMA MfaNoLogin ==
  ASSUME MfaInv, NEW r \in MfaRequests, op[r] # "login", ~Locked(r)
  PROVE  \A q \in MfaRequests : op[q] # "login"
BY DEF Locked

\* A new secret.
LEMMA MfaSetup ==
  ASSUME MfaInv, NEW r \in MfaRequests, setup_commit(r)
  PROVE  MfaInv'
<1>0. MfaTypeOK /\ FactorInv /\ FlightInv /\ FreshInv
  BY DEF MfaInv
<1>1. /\ op[r] = "setup" /\ ~Locked(r) /\ secrets < MaxSecrets /\ secrets' = secrets + 1
      /\ totp' = setup_row(r) /\ stale' = (stale \/ totp # seen[r]) /\ MfaDone(r)
      /\ UNCHANGED <<batches, code, clock, proven, steps, again, logins>>
  BY DEF setup_commit
<1>2. /\ op'[r] = "idle"
      /\ op' \in [MfaRequests -> {"idle", "setup", "confirm", "disable", "login"}]
      /\ seen' \in [MfaRequests -> Rows]
      /\ factor' \in [MfaRequests -> {"none", "totp", "code"} \X (0..MaxClock + MaxBatches + 1)]
      /\ \A q \in MfaRequests \ {r} : op'[q] = op[q] /\ seen'[q] = seen[q] /\ factor'[q] = factor[q]
  BY <1>0, <1>1, MfaEnding
<1>3. \A q \in MfaRequests : op'[q] # "login"
  BY <1>1, <1>2, MfaNoLogin
<1>4. /\ totp' \in Rows /\ totp'.secret = secrets + 1
      /\ totp = seen[r] => totp'.confirmed = FALSE
  <2>1. totp \in Rows /\ secrets \in 0..MaxSecrets
    BY <1>0 DEF MfaTypeOK
  <2>2. /\ Written(totp.confirmed, seen[r].confirmed, FALSE) \in BOOLEAN
        /\ Written(totp.disabled, seen[r].disabled, FALSE) \in BOOLEAN
        /\ Written(totp.last, seen[r].last, 0) \in 0..MaxClock + 1
    <3>1. totp.confirmed \in BOOLEAN /\ totp.disabled \in BOOLEAN /\ totp.last \in 0..MaxClock + 1
      BY <2>1 DEF Rows
    <3>2. 0 \in 0..MaxClock + 1
      BY MfaAssumption
    <3> QED BY <3>1, <3>2, Zenon DEF Written
  <2>3. secrets + 1 \in 0..MaxSecrets
    BY <1>1, <2>1, MfaAssumption
  <2>4. totp' \in Rows
    BY <1>1, <2>2, <2>3 DEF setup_row, Rows
  <2> QED BY <1>1, <2>4 DEF setup_row, Written
<1>5. MfaTypeOK'
  <2>1. secrets' \in 0..MaxSecrets /\ stale' \in BOOLEAN
    BY <1>0, <1>1, MfaAssumption DEF MfaTypeOK
  <2> QED BY <1>0, <1>1, <1>2, <1>4, <2>1 DEF MfaTypeOK
<1>6. FactorInv'
  <2>1. \A p \in steps : p[1] \in Int
    BY <1>0 DEF MfaTypeOK
  <2> QED BY <1>0, <1>1, <1>4, <2>1 DEF FactorInv, MfaTypeOK
<1>7. FlightInv'
  BY <1>0, <1>1, <1>2, <1>3 DEF FlightInv
<1>8. FreshInv'
  <2>1. \A p \in steps : p[1] # totp'.secret
    BY <1>0, <1>4 DEF FactorInv, MfaTypeOK
  <2> QED BY <1>0, <1>1, <1>4, <2>1 DEF FreshInv, Enabled
<1> QED BY <1>5, <1>6, <1>7, <1>8 DEF MfaInv

\* A confirmation, with a new batch of recovery codes.
LEMMA MfaConfirm ==
  ASSUME MfaInv, NEW r \in MfaRequests, confirm_totp_commit(r)
  PROVE  MfaInv'
<1>0. MfaTypeOK /\ FactorInv /\ FlightInv /\ FreshInv
  BY DEF MfaInv
<1>1. /\ op[r] = "confirm" /\ ~Locked(r) /\ batches < MaxBatches /\ batches' = batches + 1
      /\ totp' = [totp EXCEPT !.confirmed = TRUE, !.last = Written(@, seen[r].last, factor[r][2])]
      /\ code' = confirm_codes /\ stale' = (stale \/ totp # seen[r]) /\ MfaDone(r)
      /\ UNCHANGED <<secrets, clock, proven, steps, again, logins>>
  BY DEF confirm_totp_commit
<1>2. /\ op'[r] = "idle"
      /\ op' \in [MfaRequests -> {"idle", "setup", "confirm", "disable", "login"}]
      /\ seen' \in [MfaRequests -> Rows]
      /\ factor' \in [MfaRequests -> {"none", "totp", "code"} \X (0..MaxClock + MaxBatches + 1)]
      /\ \A q \in MfaRequests \ {r} : op'[q] = op[q] /\ seen'[q] = seen[q] /\ factor'[q] = factor[q]
  BY <1>0, <1>1, MfaEnding
<1>3. \A q \in MfaRequests : op'[q] # "login"
  BY <1>1, <1>2, MfaNoLogin
<1>4. /\ totp \in Rows /\ factor[r][2] \in 1..MaxClock + 1 /\ factor[r][2] > seen[r].last
      /\ seen[r].secret \in proven /\ seen[r] \in Rows
  BY <1>0, <1>1 DEF MfaTypeOK, FlightInv
<1>5. /\ totp' \in Rows /\ totp'.secret = totp.secret /\ totp'.disabled = totp.disabled
      /\ totp = seen[r] => totp'.last > totp.last
  <2>1. Written(totp.last, seen[r].last, factor[r][2]) \in 0..MaxClock + 1
    BY <1>4, MfaAssumption DEF Written, Rows
  <2>2. totp' \in Rows /\ totp'.last = Written(totp.last, seen[r].last, factor[r][2])
    BY <1>1, <1>4, <2>1 DEF Rows
  <2>3. totp = seen[r] => Written(totp.last, seen[r].last, factor[r][2]) = factor[r][2]
    BY <1>4, MfaAssumption DEF Written, Rows
  <2> QED BY <1>1, <1>4, <2>2, <2>3 DEF Rows
<1>6. batches \in 0..MaxBatches /\ batches' \in Batches
  BY <1>0, <1>1, MfaAssumption DEF MfaTypeOK, Batches
<1>7. /\ code' \in [Batches -> {"none", "fresh", "used", "deleted"}]
      /\ \A b \in Batches :
           /\ code'[b] = "fresh" => b = batches + 1
           /\ b > batches + 1 => code'[b] = "none"
           /\ code'[b] = "none" => code[b] = "none"
           /\ b = batches + 1 => code[b] = "none"
  <2>1. code \in [Batches -> {"none", "fresh", "used", "deleted"}]
    BY <1>0 DEF MfaTypeOK
  <2>2. \A b \in Batches : b \in Int /\ (b > batches => code[b] = "none")
    BY <1>0 DEF FactorInv, Batches
  <2>3. \A b \in Batches : code'[b] = IF b = batches + 1 THEN "fresh"
                                      ELSE IF code[b] \in {"fresh", "used"} THEN "deleted" ELSE code[b]
    <3>1. \A b \in Batches : b = batches + 1 => code[b] = "none"
      BY <1>6, <2>2
    <3> QED BY <1>1, <3>1 DEF confirm_codes
  <2>4. code' \in [Batches -> {"none", "fresh", "used", "deleted"}]
    BY <1>1, <2>1 DEF confirm_codes
  <2> QED BY <1>6, <2>1, <2>2, <2>3, <2>4
<1>8. MfaTypeOK'
  <2>1. batches' \in 0..MaxBatches /\ stale' \in BOOLEAN
    BY <1>0, <1>1, <1>6, MfaAssumption DEF MfaTypeOK, Batches
  <2> QED BY <1>0, <1>1, <1>2, <1>5, <1>7, <2>1 DEF MfaTypeOK
<1>9. FactorInv'
  BY <1>0, <1>1, <1>5, <1>7 DEF FactorInv
<1>10. FlightInv'
  <2>1. \A q \in MfaRequests : factor[q][2] <= batches /\ factor[q][2] \in Batches
                                 => factor[q][2] <= batches'
    BY <1>1, <1>6 DEF Batches
  <2> QED BY <1>0, <1>1, <1>2, <1>3, <2>1 DEF FlightInv
<1>11. FreshInv'
  <2>1. \A p \in steps : p[2] \in Int
    BY <1>0 DEF MfaTypeOK
  <2>2. totp.last \in Int /\ totp'.last \in Int
    BY <1>4, <1>5 DEF Rows
  <2>3. ASSUME ~stale'
        PROVE  ~stale /\ totp = seen[r] /\ totp.secret \in proven /\ totp'.last > totp.last
    BY <1>1, <1>4, <1>5, <2>3
  <2>4. ASSUME ~stale', NEW p \in steps, p[1] = totp'.secret PROVE p[2] <= totp'.last
    <3>1. p[2] <= totp.last
      BY <1>0, <1>5, <2>3, <2>4 DEF FreshInv
    <3> QED BY <2>1, <2>2, <2>3, <2>4, <3>1
  <2> QED BY <1>0, <1>1, <1>5, <2>3, <2>4 DEF FreshInv
<1> QED BY <1>8, <1>9, <1>10, <1>11 DEF MfaInv

\* A disable; it may use up a recovery code.
LEMMA MfaDisable ==
  ASSUME MfaInv, NEW r \in MfaRequests, disable_commit(r)
  PROVE  MfaInv'
<1>0. MfaTypeOK /\ FactorInv /\ FlightInv /\ FreshInv
  BY DEF MfaInv
<1>1. /\ op[r] = "disable" /\ ~Locked(r)
      /\ totp' = [totp EXCEPT !.disabled = TRUE]
      /\ IF factor[r][1] = "code"
           THEN code' = [code EXCEPT ![factor[r][2]] = "used"]
           ELSE UNCHANGED code
      /\ stale' = (stale \/ totp # seen[r]) /\ MfaDone(r)
      /\ UNCHANGED <<secrets, batches, clock, proven, steps, again, logins>>
  BY DEF disable_commit
<1>2. /\ op'[r] = "idle"
      /\ op' \in [MfaRequests -> {"idle", "setup", "confirm", "disable", "login"}]
      /\ seen' \in [MfaRequests -> Rows]
      /\ factor' \in [MfaRequests -> {"none", "totp", "code"} \X (0..MaxClock + MaxBatches + 1)]
      /\ \A q \in MfaRequests \ {r} : op'[q] = op[q] /\ seen'[q] = seen[q] /\ factor'[q] = factor[q]
  BY <1>0, <1>1, MfaEnding
<1>3. \A q \in MfaRequests : op'[q] # "login"
  BY <1>1, <1>2, MfaNoLogin
<1>4. /\ totp' \in Rows /\ totp'.secret = totp.secret /\ totp'.last = totp.last
      /\ totp'.disabled = TRUE
  BY <1>0, <1>1 DEF MfaTypeOK, Rows
<1>5. /\ code' \in [Batches -> {"none", "fresh", "used", "deleted"}]
      /\ \A b \in Batches : code'[b] = code[b] \/ (code'[b] = "used" /\ b <= batches)
  BY <1>0, <1>1 DEF MfaTypeOK, FlightInv
<1>6. MfaTypeOK'
  BY <1>0, <1>1, <1>2, <1>4, <1>5 DEF MfaTypeOK
<1>7. FactorInv'
  <2>1. \A b \in Batches : b <= batches => ~(b > batches)
    BY <1>0 DEF MfaTypeOK, Batches
  <2> QED BY <1>0, <1>1, <1>4, <1>5, <2>1 DEF FactorInv
<1>8. FlightInv'
  BY <1>0, <1>1, <1>2, <1>3 DEF FlightInv
<1>9. FreshInv'
  BY <1>0, <1>1, <1>4 DEF FreshInv, Enabled
<1> QED BY <1>6, <1>7, <1>8, <1>9 DEF MfaInv

\* A login.
LEMMA MfaLogin ==
  ASSUME MfaInv, NEW r \in MfaRequests, login_commit(r)
  PROVE  MfaInv'
<1>0. MfaTypeOK /\ FactorInv /\ FlightInv /\ FreshInv
  BY DEF MfaInv
<1> DEFINE c == factor[r][2]
<1>1. /\ op[r] = "login" /\ MfaDone(r) /\ UNCHANGED <<secrets, batches, clock, proven, stale>>
  BY DEF login_commit
<1>2. /\ op'[r] = "idle"
      /\ op' \in [MfaRequests -> {"idle", "setup", "confirm", "disable", "login"}]
      /\ seen' \in [MfaRequests -> Rows]
      /\ factor' \in [MfaRequests -> {"none", "totp", "code"} \X (0..MaxClock + MaxBatches + 1)]
      /\ \A q \in MfaRequests \ {r} : op'[q] = op[q] /\ seen'[q] = seen[q] /\ factor'[q] = factor[q]
  BY <1>0, <1>1, MfaEnding
<1>3. \A q \in MfaRequests : op'[q] # "login"
  BY <1>0, <1>1, <1>2 DEF FlightInv
<1>4. FlightInv'
  BY <1>0, <1>1, <1>2, <1>3 DEF FlightInv
<1>5. CASE factor[r][1] = "totp"
  <2>1. /\ totp' = [totp EXCEPT !.last = c] /\ steps' = steps \cup {<<totp.secret, c>>}
        /\ again' = (again \/ <<totp.secret, c>> \in steps) /\ UNCHANGED <<code, logins>>
    BY <1>5 DEF login_commit
  <2>2. /\ c \in 1..MaxClock + 1 /\ c > totp.last /\ Enabled(totp) /\ totp \in Rows
    BY <1>0, <1>1, <1>5 DEF FlightInv, MfaTypeOK
  <2>3. /\ totp' \in Rows /\ totp'.secret = totp.secret /\ totp'.confirmed = totp.confirmed
        /\ totp'.disabled = totp.disabled /\ totp'.last = c
    BY <2>1, <2>2, MfaAssumption DEF Rows
  <2>4. totp.secret \in 1..MaxSecrets
    BY <2>2, MfaAssumption DEF Enabled, Rows
  <2>5. MfaTypeOK'
    <3>1. steps' \subseteq (1..MaxSecrets) \X (1..MaxClock + 1)
      BY <1>0, <2>1, <2>2, <2>4 DEF MfaTypeOK
    <3>2. again' \in BOOLEAN
      BY <1>0, <2>1 DEF MfaTypeOK
    <3> QED BY <1>0, <1>1, <1>2, <2>1, <2>3, <3>1, <3>2 DEF MfaTypeOK
  <2>6. FactorInv'
    BY <1>0, <1>1, <2>1, <2>3 DEF FactorInv
  <2>7. FreshInv'
    <3>1. \A p \in steps : p[2] \in Int
      BY <1>0 DEF MfaTypeOK
    <3>2. c \in Int /\ totp.last \in Int
      BY <2>2 DEF Rows
    <3>3. ASSUME ~stale, <<totp.secret, c>> \in steps PROVE FALSE
      BY <1>0, <2>2, <3>2, <3>3 DEF FreshInv
    <3>4. ASSUME ~stale, NEW p \in steps', p[1] = totp.secret PROVE p[2] <= c
      <4>1. p = <<totp.secret, c>> \/ p \in steps
        BY <2>1
      <4> QED BY <1>0, <2>2, <3>1, <3>2, <3>4, <4>1 DEF FreshInv
    <3>5. ASSUME ~stale PROVE ~again /\ totp.secret \in proven
      BY <1>0, <2>2, <3>5 DEF FreshInv
    <3>6. ASSUME ~stale PROVE ~again'
      BY <2>1, <3>3, <3>5, <3>6, Zenon
    <3>7. stale' = stale /\ proven' = proven
      BY <1>1
    <3> QED BY <2>3, <3>4, <3>5, <3>6, <3>7 DEF FreshInv
  <2> QED BY <1>4, <2>5, <2>6, <2>7 DEF MfaInv
<1>6. CASE factor[r][1] # "totp"
  <2>1. /\ code' = [code EXCEPT ![c] = "used"] /\ logins' = [logins EXCEPT ![c] = @ + 1]
        /\ UNCHANGED <<totp, steps, again>>
    BY <1>6 DEF login_commit
  <2>2. c \in Batches /\ c <= batches /\ code[c] = "fresh" /\ logins[c] = 0
    BY <1>0, <1>1, <1>6 DEF FlightInv, FactorInv
  <2>3. /\ code' \in [Batches -> {"none", "fresh", "used", "deleted"}]
        /\ logins' \in [Batches -> Nat] /\ code'[c] = "used" /\ logins'[c] = 1
        /\ \A b \in Batches \ {c} : code'[b] = code[b] /\ logins'[b] = logins[b]
    BY <1>0, <2>1, <2>2 DEF MfaTypeOK
  <2>4. MfaTypeOK'
    BY <1>0, <1>1, <1>2, <2>1, <2>3 DEF MfaTypeOK
  <2>5. FactorInv'
    <3>1. ~(c > batches)
      BY <1>0, <2>2 DEF MfaTypeOK, Batches
    <3> QED BY <1>0, <1>1, <2>1, <2>3, <3>1 DEF FactorInv
  <2>6. FreshInv'
    BY <1>0, <1>1, <2>1 DEF FreshInv, Enabled
  <2> QED BY <1>4, <2>4, <2>5, <2>6 DEF MfaInv
<1> QED BY <1>5, <1>6

\* A request that fails, and the clock.
LEMMA MfaQuiet ==
  ASSUME MfaInv, (\E r \in MfaRequests : mfa_rollback(r)) \/ tick \/ UNCHANGED mfaVars
  PROVE  MfaInv'
<1>0. MfaTypeOK /\ FactorInv /\ FlightInv /\ FreshInv
  BY DEF MfaInv
<1>1. /\ UNCHANGED <<totp, secrets, batches, code, proven, steps, again, logins, stale>>
      /\ clock' \in 1..MaxClock
  BY <1>0, MfaAssumption DEF mfa_rollback, tick, mfaVars, mfaState, history, MfaTypeOK
<1>2. /\ op' \in [MfaRequests -> {"idle", "setup", "confirm", "disable", "login"}]
      /\ seen' \in [MfaRequests -> Rows]
      /\ factor' \in [MfaRequests -> {"none", "totp", "code"} \X (0..MaxClock + MaxBatches + 1)]
      /\ \A q \in MfaRequests : op'[q] # "idle" =>
           op'[q] = op[q] /\ seen'[q] = seen[q] /\ factor'[q] = factor[q]
  <2>1. ASSUME NEW r \in MfaRequests, MfaDone(r)
        PROVE  /\ op' \in [MfaRequests -> {"idle", "setup", "confirm", "disable", "login"}]
               /\ seen' \in [MfaRequests -> Rows]
               /\ factor' \in [MfaRequests -> {"none", "totp", "code"} \X (0..MaxClock + MaxBatches + 1)]
               /\ \A q \in MfaRequests : op'[q] # "idle" =>
                    op'[q] = op[q] /\ seen'[q] = seen[q] /\ factor'[q] = factor[q]
    BY <1>0, <2>1, MfaEnding
  <2>2. (\E r \in MfaRequests : MfaDone(r)) \/ UNCHANGED <<op, seen, factor>>
    BY DEF mfa_rollback, tick, mfaVars, mfaSlots
  <2> QED BY <1>0, <2>1, <2>2 DEF MfaTypeOK
<1>3. MfaTypeOK'
  BY <1>0, <1>1, <1>2 DEF MfaTypeOK
<1>4. FactorInv' /\ FreshInv'
  BY <1>0, <1>1 DEF FactorInv, FreshInv, Enabled
<1>5. FlightInv'
  <2>1. \A q, r \in MfaRequests : op'[q] = "login" /\ op'[r] = "login" => q = r
    BY <1>0, <1>2 DEF FlightInv
  <2>2. ASSUME NEW r \in MfaRequests, op'[r] \in {"confirm", "disable", "login"}
        PROVE  op'[r] = op[r] /\ seen'[r] = seen[r] /\ factor'[r] = factor[r]
    BY <1>2, <2>2
  <2> QED BY <1>0, <1>1, <2>1, <2>2 DEF FlightInv, Enabled
<1> QED BY <1>3, <1>4, <1>5 DEF MfaInv

\* The inductive invariant of the second factor holds in every reachable state
\* of every instance.
THEOREM MfaSafe == MfaSpec => []MfaInv
<1>1. MfaInit => MfaInv
  <2> SUFFICES ASSUME MfaInit PROVE MfaInv
    OBVIOUS
  <2>1. NoRow \in Rows /\ NoRow.secret = 0 /\ NoFactor \in {"none", "totp", "code"} \X (0..MaxClock + MaxBatches + 1)
    BY MfaAssumption DEF NoRow, Rows, NoFactor
  <2>2. MfaTypeOK
    <3>1. 0 \in 0..MaxSecrets /\ 0 \in 0..MaxBatches /\ 1 \in 1..MaxClock
      BY MfaAssumption
    <3>2. /\ code \in [Batches -> {"none", "fresh", "used", "deleted"}]
          /\ logins \in [Batches -> Nat]
          /\ op \in [MfaRequests -> {"idle", "setup", "confirm", "disable", "login"}]
          /\ seen \in [MfaRequests -> Rows]
          /\ factor \in [MfaRequests -> {"none", "totp", "code"} \X (0..MaxClock + MaxBatches + 1)]
      BY <2>1 DEF MfaInit
    <3> QED BY <2>1, <3>1, <3>2, Zenon DEF MfaInit, MfaTypeOK
  <2>3. FactorInv
    BY <2>1 DEF MfaInit, FactorInv
  <2>4. FlightInv /\ FreshInv
    BY <2>1 DEF MfaInit, FlightInv, FreshInv, Enabled
  <2> QED BY <2>2, <2>3, <2>4 DEF MfaInv
<1>2. MfaInv /\ [MfaNext]_mfaVars => MfaInv'
  <2> SUFFICES ASSUME MfaInv, [MfaNext]_mfaVars PROVE MfaInv'
    OBVIOUS
  <2> QED BY MfaReads, MfaSetup, MfaConfirm, MfaDisable, MfaLogin, MfaQuiet DEF MfaNext
<1> QED BY <1>1, <1>2, PTL DEF MfaSpec

\* The recovery codes that can be used belong to one batch, and an enabled
\* secret was proven unless a setup and a confirm overlapped (setup_totp,
\* confirm_totp).
THEOREM EnrolmentSafe == MfaSpec => []EnrolmentSound
<1>1. MfaInv => EnrolmentSound
  <2> SUFFICES ASSUME MfaInv PROVE EnrolmentSound
    OBVIOUS
  <2>1. MfaTypeOK /\ EnabledIsProven
    BY DEF MfaInv, FreshInv, EnabledIsProven
  <2> DEFINE Fresh == {b \in Batches : code[b] = "fresh"}
  <2>2. CASE Fresh = {}
    BY <2>1, <2>2, FS_EmptySet DEF EnrolmentSound, OneBatch
  <2>3. CASE Fresh # {}
    <3>1. Fresh = {batches}
      BY <2>3 DEF MfaInv, FactorInv
    <3>2. Cardinality(Fresh) = 1
      BY <3>1, FS_Singleton
    <3> QED BY <2>1, <3>2 DEF EnrolmentSound, OneBatch
  <2> QED BY <2>2, <2>3
<1> QED BY <1>1, MfaSafe, PTL

\* A recovery code lets one login through, and a TOTP step one per secret unless
\* a setup, confirm or disable wrote a row that had changed since its read
\* (_require_mfa_for_login_if_enabled).
THEOREM FactorSafe == MfaSpec => []FactorLogsInOnce
<1>1. MfaInv => FactorLogsInOnce
  BY DEF MfaInv, FactorInv, FreshInv, FactorLogsInOnce, CodeLogsInOnce, StepLogsInOnce
<1> QED BY <1>1, MfaSafe, PTL
=============================================================================
