-------------------------- MODULE AuthSessionsProofs --------------------------
(***************************************************************************)
(* Proofs about AuthSessions for any number of requests, refresh rows,     *)
(* versions and resets.                                                    *)
(***************************************************************************)
EXTENDS AuthSessions, TLAPS

\* Requests that hold the user row FOR UPDATE.
Locker(r) == kind[r] \in {"reset", "delete"} /\ pc[r] \in {"select", "revoke", "commit"}

\* One request holds the user row; while a reset does, the password can still
\* be changed; before the registration there is nothing to revoke.
UserInv ==
  /\ \A q, r \in Requests : Locker(q) /\ Locker(r) => q = r
  /\ \A r \in Requests : kind[r] = "reset" /\ Locker(r) => password < MaxResets
  /\ ~registered =>
       /\ ~active /\ version = 0 /\ password = 0 /\ tokens = {} /\ dead = {}
       /\ \A j \in Jtis : row[j] = "none"
       /\ \A r \in Requests : kind[r] \in {"none", "register"} /\ pc[r] \in {"idle", "read"}

\* No row is held twice or before it exists, a refresh about to rotate holds its row, which is
\* live, and the root of a family exists.
RowInv ==
  /\ \A q, r \in Requests : q # r => held[q] \cap held[r] = {}
  /\ \A r \in Requests : \A j \in held[r] : row[j] # "none"
  /\ \A r \in Requests : kind[r] = "refresh" => jti[r] \in Jtis /\ row[jti[r]] # "none"
  /\ \A r \in Requests : kind[r] = "refresh" /\ pc[r] = "rotate" =>
       held[r] = {jti[r]} /\ row[jti[r]] = "live"
  /\ \A j \in Jtis : row[j] # "none" => row[family[j]] # "none"
  /\ OneLivePerFamily

\* Unless an update of the version was lost, no version in circulation is
\* ahead of the user's, the revoked ones are behind, and those that are level
\* come from the password in force.
VersionInv ==
  ~lostUpdate =>
    /\ \A t \in tokens : t.sv <= version /\ (t.sv = version => t.pw = password)
    /\ \A t \in dead : t.sv < version
    /\ \A r \in Requests :
         /\ read[r] <= version
         /\ kind[r] \in {"login", "refresh"} /\ read[r] = version => proof[r] = password
    /\ \A j \in Jtis :
         /\ claim[j] <= version
         /\ row[j] # "none" /\ claim[j] = version => origin[j] = password

AuthInv == TypeOK /\ UserInv /\ RowInv /\ VersionInv

-----------------------------------------------------------------------------
(* What the shared steps do.                                               *)

SlotsOK ==
  /\ kind \in [Requests -> Kind] /\ pc \in [Requests -> Pc]
  /\ read \in [Requests -> 0..MaxVersion]
  /\ proof \in [Requests -> -1..MaxResets]
  /\ jti \in [Requests -> Jtis \cup {NoJti}]
  /\ snapshot \in [Requests -> SUBSET Jtis]
  /\ held \in [Requests -> SUBSET Jtis]

RowsOK ==
  /\ row \in [Jtis -> {"none", "live", "revoked"}]
  /\ lapsed \in [Jtis -> BOOLEAN]
  /\ claim \in [Jtis -> 0..MaxVersion]
  /\ family \in [Jtis -> Jtis]
  /\ origin \in [Jtis -> -1..MaxResets]
  /\ tokens \subseteq Token /\ dead \subseteq Token /\ lostUpdate \in BOOLEAN

\* The slot of a request that has ended is well typed.
LEMMA DoneSlots ==
  ASSUME TypeOK, NEW r \in Requests, Done(r)
  PROVE  SlotsOK'
BY AuthAssumption DEF TypeOK, Done, SlotsOK, Kind, Pc

\* The slot of a request that has begun is well typed.
LEMMA StartSlots ==
  ASSUME TypeOK, NEW r \in Requests, NEW k \in Kind, NEW p \in -1..MaxResets,
         NEW j \in Jtis \cup {NoJti}, NEW at \in Pc, Start(r, k, p, j, at)
  PROVE  SlotsOK'
BY DEF TypeOK, Start, SlotsOK

\* Issuing tokens keeps the rows and tokens well typed.
LEMMA IssueRows ==
  ASSUME TypeOK, NEW r \in Requests, NEW j \in Jtis, NEW root \in Jtis,
         NEW pw \in -1..MaxResets, Issue(r, j, root, pw)
  PROVE  RowsOK'
<1>1. row' \in [Jtis -> {"none", "live", "revoked"}]
  BY DEF TypeOK, Issue
<1>2. tokens' \subseteq Token
  BY DEF TypeOK, Issue, Token, SignedVersion
<1> QED BY <1>1, <1>2 DEF TypeOK, Issue, RowsOK, SignedVersion

-----------------------------------------------------------------------------
(* Types and the lock of the user row.                                     *)

\* Every step keeps the types and the user row's part of the invariant.
LEMMA UserStep == TypeOK /\ UserInv /\ RowInv /\ [Next]_vars => TypeOK' /\ UserInv'
<1> SUFFICES ASSUME TypeOK, UserInv, RowInv, [Next]_vars PROVE TypeOK' /\ UserInv'
  OBVIOUS
<1>T. /\ SlotsOK /\ RowsOK
      /\ TypeOK' <=> /\ registered' \in BOOLEAN /\ active' \in BOOLEAN
                     /\ version' \in 0..MaxVersion /\ password' \in -1..MaxResets
                     /\ RowsOK' /\ SlotsOK'
      /\ registered \in BOOLEAN /\ active \in BOOLEAN
      /\ version \in 0..MaxVersion /\ password \in -1..MaxResets
      /\ 0 \in -1..MaxResets /\ 0 \in 0..MaxVersion
  BY AuthAssumption DEF TypeOK, SlotsOK, RowsOK
<1>1. ASSUME NEW r \in Requests, register_check(r) PROVE TypeOK' /\ UserInv'
  <2>1. SlotsOK'
    BY <1>1, <1>T, StartSlots DEF register_check, Kind, Pc
  <2>2. TypeOK'
    BY <1>1, <1>T, <2>1 DEF register_check, user, sessions, history, RowsOK
  <2>3. UserInv'
    BY <1>1, <1>T DEF register_check, Start, user, sessions, history, UserInv, Locker, SlotsOK
  <2> QED BY <2>2, <2>3
<1>2. ASSUME NEW r \in Requests, register_insert(r) PROVE TypeOK' /\ UserInv'
  <2>1. SlotsOK'
    BY <1>2, DoneSlots DEF register_insert
  <2>2. CASE EmailFree
    <3>1. PICK j \in Jtis : Issue(r, j, j, 0)
      BY <1>2, <2>2 DEF register_insert
    <3>2. RowsOK'
      BY <3>1, <1>T, IssueRows
    <3>3. registered' = TRUE /\ active' = TRUE /\ version' = 0 /\ password' = 0
      BY <1>2, <2>2 DEF register_insert
    <3>4. UserInv'
      BY <1>2, <2>2, <3>3, <1>T DEF register_insert, Done, UserInv, Locker, EmailFree, SlotsOK
    <3> QED BY <1>T, <2>1, <3>2, <3>3, <3>4
  <2>3. CASE ~EmailFree
    <3>1. TypeOK'
      BY <1>2, <2>1, <2>3, <1>T DEF register_insert, user, sessions, history, RowsOK
    <3>2. UserInv'
      BY <1>2, <2>3, <1>T DEF register_insert, Done, user, sessions, history, UserInv, Locker, EmailFree, SlotsOK
    <3> QED BY <3>1, <3>2
  <2> QED BY <2>2, <2>3
<1>3. ASSUME NEW r \in Requests, login_read(r) PROVE TypeOK' /\ UserInv'
  <2>1. SlotsOK'
    BY <1>3, <1>T, StartSlots DEF login_read, Kind, Pc
  <2>2. TypeOK'
    BY <1>3, <1>T, <2>1 DEF login_read, user, sessions, history, RowsOK
  <2>3. UserInv'
    BY <1>3, <1>T DEF login_read, Start, user, sessions, history, UserInv, Locker, SlotsOK
  <2> QED BY <2>2, <2>3
<1>4. ASSUME NEW r \in Requests, login_issue(r) \/ refresh_rotate(r) PROVE TypeOK' /\ UserInv'
  <2>1. SlotsOK'
    BY <1>4, DoneSlots DEF login_issue, refresh_rotate
  <2>2. PICK j \in Jtis, root \in Jtis : Issue(r, j, root, proof[r])
    BY <1>4, <1>T DEF login_issue, refresh_rotate, RowInv, RowsOK
  <2>3. RowsOK'
    BY <2>2, <1>T, IssueRows DEF SlotsOK
  <2>4. TypeOK'
    BY <1>4, <1>T, <2>1, <2>3 DEF login_issue, refresh_rotate, user
  <2>5. registered
    BY <1>4, <1>T DEF login_issue, refresh_rotate, UserInv
  <2>6. UNCHANGED user /\ Done(r)
    BY <1>4 DEF login_issue, refresh_rotate
  <2>7. UserInv'
    BY <1>T, <2>5, <2>6 DEF Done, user, UserInv, Locker, SlotsOK
  <2> QED BY <2>4, <2>7
<1>5. ASSUME NEW r \in Requests, NEW j \in Jtis, refresh_read(r, j) PROVE TypeOK' /\ UserInv'
  <2>1. SlotsOK'
    BY <1>5, <1>T, StartSlots DEF refresh_read, Kind, Pc, RowsOK
  <2>2. TypeOK'
    BY <1>5, <1>T, <2>1 DEF refresh_read, user, sessions, history, RowsOK
  <2>3. UserInv'
    BY <1>5, <1>T DEF refresh_read, Start, user, sessions, history, UserInv, Locker, SlotsOK
  <2> QED BY <2>2, <2>3
<1>6. ASSUME NEW r \in Requests, refresh_lock(r) PROVE TypeOK' /\ UserInv'
  <2>0. kind[r] = "refresh" /\ pc[r] = "read" /\ jti[r] \in Jtis /\ registered
        /\ UNCHANGED <<user, lapsed, claim, family, origin, history>>
    BY <1>6 DEF refresh_lock, RowInv, UserInv
  <2>1. SlotsOK' /\ row' \in [Jtis -> {"none", "live", "revoked"}]
    <3>1. ASSUME Done(r), row' = [row EXCEPT ![jti[r]] = "revoked"]
          PROVE  SlotsOK' /\ row' \in [Jtis -> {"none", "live", "revoked"}]
      BY <3>1, <1>T, DoneSlots DEF RowsOK
    <3> QED BY <1>6, <1>T, <2>0, <3>1 DEF refresh_lock, Goto, SlotsOK, RowsOK, Kind, Pc
  <2>2. TypeOK'
    BY <1>T, <2>0, <2>1 DEF user, history, RowsOK
  <2>3. \A q \in Requests : (q # r => kind'[q] = kind[q] /\ pc'[q] = pc[q])
                            /\ kind'[r] \notin {"reset", "delete"}
    BY <1>6, <1>T, <2>0 DEF refresh_lock, Goto, Done, SlotsOK
  <2> QED BY <2>0, <2>2, <2>3 DEF user, UserInv, Locker
<1>7. ASSUME NEW r \in Requests, authenticated_read(r) PROVE TypeOK' /\ UserInv'
  <2>1. PICK t \in tokens, k \in {"logout", "delete", "disable"} :
          Start(r, k, t.pw, NoJti, IF k = "disable" THEN "commit" ELSE "read")
    BY <1>7 DEF authenticated_read
  <2>2. t.pw \in -1..MaxResets
    BY <1>T DEF RowsOK, Token
  <2>3. SlotsOK'
    BY <2>1, <2>2, StartSlots DEF Kind, Pc
  <2>4. TypeOK'
    BY <1>7, <1>T, <2>3 DEF authenticated_read, user, sessions, history, RowsOK
  <2>5. UserInv'
    BY <1>7, <1>T, <2>1 DEF authenticated_read, Start, user, sessions, history, UserInv, Locker, SlotsOK
  <2> QED BY <2>4, <2>5
<1>8. ASSUME NEW r \in Requests, logout_audit(r) PROVE TypeOK' /\ UserInv'
  <2>1. TypeOK'
    BY <1>8, <1>T DEF logout_audit, Goto, user, sessions, history, SlotsOK, RowsOK, Pc
  <2>2. UserInv'
    BY <1>8, <1>T DEF logout_audit, Goto, user, sessions, history, UserInv, Locker, SlotsOK
  <2> QED BY <2>1, <2>2
<1>9. ASSUME NEW r \in Requests, delete_flush(r) PROVE TypeOK' /\ UserInv'
  <2>1. TypeOK'
    BY <1>9, <1>T DEF delete_flush, Goto, user, sessions, history, SlotsOK, RowsOK, Pc
  <2>2. UserInv'
    BY <1>9, <1>T DEF delete_flush, Goto, UserLocked, user, sessions, history, UserInv, Locker, SlotsOK
  <2> QED BY <2>1, <2>2
<1>10. ASSUME NEW r \in Requests, reset_lock(r) PROVE TypeOK' /\ UserInv'
  <2>1. SlotsOK'
    BY <1>10, <1>T, StartSlots DEF reset_lock, Kind, Pc
  <2>2. TypeOK'
    BY <1>10, <1>T, <2>1 DEF reset_lock, user, sessions, history, RowsOK
  <2>3. UserInv'
    BY <1>10, <1>T DEF reset_lock, Start, UserLocked, user, sessions, history, UserInv, Locker, SlotsOK
  <2> QED BY <2>2, <2>3
<1>11. ASSUME NEW r \in Requests, revoke_select(r) \/ revoke_apply(r) PROVE TypeOK' /\ UserInv'
  <2>1. TypeOK'
    BY <1>11, <1>T DEF revoke_select, revoke_apply, Goto, user, sessions, history, SlotsOK, RowsOK, Pc
  <2>2. UserInv'
    BY <1>11, <1>T DEF revoke_select, revoke_apply, Goto, user, sessions, history, UserInv, Locker, SlotsOK
  <2> QED BY <2>1, <2>2
<1>12. ASSUME NEW r \in Requests, revoke_commit(r) PROVE TypeOK' /\ UserInv'
  <2>1. SlotsOK'
    BY <1>12, DoneSlots DEF revoke_commit
  <2>2. RowsOK'
    BY <1>12, <1>T DEF revoke_commit, Bump, RowsOK
  <2>3. version' \in 0..MaxVersion
    BY <1>12, <1>T, AuthAssumption DEF revoke_commit, Bump, SlotsOK
  <2>4. kind[r] = "reset" => password < MaxResets
    BY <1>12 DEF revoke_commit, UserInv, Locker
  <2>5. password' \in -1..MaxResets
    BY <1>12, <1>T, <2>4, AuthAssumption DEF revoke_commit
  <2>6. TypeOK'
    BY <1>12, <1>T, <2>1, <2>2, <2>3, <2>5 DEF revoke_commit
  <2>7. registered /\ registered'
    BY <1>12 DEF revoke_commit, UserInv
  <2>8. \A q \in Requests : kind'[q] = (IF q = r THEN "none" ELSE kind[q]) /\ (q # r => pc'[q] = pc[q])
    BY <1>12, <1>T DEF revoke_commit, Done, SlotsOK
  <2>9. ASSUME NEW q \in Requests, kind'[q] = "reset", Locker(q)' PROVE password' < MaxResets
    <3>1. q # r /\ kind[q] = "reset" /\ Locker(q)
      BY <2>8, <2>9 DEF Locker
    <3>2. kind[r] \notin {"reset", "delete"}
      BY <1>12, <3>1 DEF revoke_commit, UserInv, Locker
    <3> QED BY <1>12, <3>1, <3>2 DEF revoke_commit, UserInv
  <2> QED BY <2>6, <2>7, <2>8, <2>9 DEF UserInv, Locker
<1>13. ASSUME NEW r \in Requests, rollback(r) PROVE TypeOK' /\ UserInv'
  <2>1. SlotsOK'
    BY <1>13, DoneSlots DEF rollback
  <2>2. TypeOK'
    BY <1>13, <1>T, <2>1 DEF rollback, user, sessions, history, RowsOK
  <2>3. UserInv'
    BY <1>13, <1>T DEF rollback, Done, user, sessions, history, UserInv, Locker, SlotsOK
  <2> QED BY <2>2, <2>3
<1>14. ASSUME NEW j \in Jtis, session_expires(j) PROVE TypeOK' /\ UserInv'
  <2>1. TypeOK'
    BY <1>14, <1>T DEF session_expires, user, slots, history, RowsOK, SlotsOK
  <2>2. UserInv'
    BY <1>14 DEF session_expires, user, slots, history, UserInv, Locker
  <2> QED BY <2>1, <2>2
<1>15. CASE UNCHANGED vars
  <2>1. TypeOK'
    BY <1>15 DEF vars, user, sessions, history, slots, TypeOK
  <2>2. UserInv'
    BY <1>15 DEF vars, user, sessions, history, slots, UserInv, Locker
  <2> QED BY <2>1, <2>2
<1> QED
  BY <1>1, <1>2, <1>3, <1>4, <1>5, <1>6, <1>7, <1>8, <1>9, <1>10, <1>11, <1>12, <1>13, <1>14, <1>15 DEF Next

-----------------------------------------------------------------------------
(* Rows and their locks.                                                   *)

\* A step of another kind of request leaves the rows alone.
LEMMA RowsUntouched ==
  ASSUME TypeOK, RowInv, UNCHANGED <<row, family>>,
         NEW r \in Requests,
         \A q \in Requests : q # r => kind'[q] = kind[q] /\ pc'[q] = pc[q] /\ jti'[q] = jti[q],
         \A q \in Requests : q # r => held'[q] = held[q],
         \A q \in Requests \ {r} : held'[r] \cap held[q] = {},
         \A j \in held'[r] : row[j] # "none",
         kind'[r] = "refresh" => /\ jti'[r] \in Jtis /\ row[jti'[r]] # "none"
                                 /\ pc'[r] = "rotate" => held'[r] = {jti'[r]} /\ row[jti'[r]] = "live"
  PROVE  RowInv'
BY DEF RowInv, OneLivePerFamily

\* Tokens issued by a request keep the rows' part of the invariant, if what it
\* holds accounts for the live row of the family it adds to.
LEMMA IssueKeepsRows ==
  ASSUME TypeOK, TypeOK', RowInv, NEW r \in Requests, NEW j \in Jtis, NEW root \in Jtis,
         NEW pw, Issue(r, j, root, pw), Done(r),
         root = j \/ row[root] # "none",
         \A i \in Jtis : row[i] = "live" /\ family[i] = root => i \in held[r]
  PROVE  RowInv'
<1>1. /\ row[j] = "none"
      /\ row' = [i \in Jtis |-> CASE i = j -> "live" [] i \in held[r] -> "revoked" [] OTHER -> row[i]]
      /\ family' = [family EXCEPT ![j] = root]
  BY DEF Issue
<1>2. row'[j] = "live" /\ family'[j] = root
  <2>1. row'[j] = "live"
    <3>1. j \notin held[r]
      BY <1>1 DEF RowInv
    <3> QED BY <1>1, <3>1
  <2>2. family'[j] = root
    BY <1>1 DEF TypeOK
  <2> QED BY <2>1, <2>2
<1>3. \A i \in Jtis : i # j =>
        /\ family'[i] = family[i]
        /\ i \in held[r] => row'[i] = "revoked"
        /\ i \notin held[r] => row'[i] = row[i]
  BY <1>1 DEF TypeOK
<1>4. \A i \in Jtis : row[i] # "none" => i # j /\ row'[i] # "none"
  BY <1>1, <1>3
<1>5. \A q \in Requests : q # r => kind'[q] = kind[q] /\ pc'[q] = pc[q] /\ jti'[q] = jti[q] /\ held'[q] = held[q]
  BY DEF Done, TypeOK
<1>6. kind'[r] = "none" /\ held'[r] = {}
  BY DEF Done, TypeOK
<1>7. (\A q, s \in Requests : q # s => held[q] \cap held[s] = {})'
  BY <1>5, <1>6 DEF RowInv
<1>12. (\A q \in Requests : \A i \in held[q] : row[i] # "none")'
  BY <1>4, <1>5, <1>6 DEF RowInv, TypeOK
<1>8. (\A q \in Requests : kind[q] = "refresh" => jti[q] \in Jtis /\ row[jti[q]] # "none")'
  BY <1>4, <1>5, <1>6 DEF RowInv
<1>9. ASSUME NEW q \in Requests, kind'[q] = "refresh", pc'[q] = "rotate"
      PROVE  held'[q] = {jti'[q]} /\ row'[jti'[q]] = "live"
  <2>1. q # r /\ held[q] = {jti[q]} /\ row[jti[q]] = "live" /\ jti[q] \in Jtis
    BY <1>5, <1>6, <1>9 DEF RowInv
  <2>2. jti[q] \notin held[r]
    BY <2>1 DEF RowInv
  <2> QED BY <2>1, <2>2, <1>3, <1>4, <1>5
<1>10. (\A i \in Jtis : row[i] # "none" => row[family[i]] # "none")'
  <2> SUFFICES ASSUME NEW i \in Jtis, row'[i] # "none" PROVE row'[family'[i]] # "none"
    OBVIOUS
  <2>1. CASE i = j
    BY <2>1, <1>2, <1>4
  <2>2. CASE i # j
    <3>1. row[i] # "none" /\ family'[i] = family[i] /\ family[i] \in Jtis
      BY <2>2, <1>3 DEF TypeOK, RowInv
    <3> QED BY <3>1, <1>4 DEF RowInv
  <2> QED BY <2>1, <2>2
<1>11. OneLivePerFamily'
  <2>1. \A i \in Jtis : i # j /\ row'[i] = "live" =>
          row[i] = "live" /\ family'[i] = family[i] /\ family[i] # root
    BY <1>3
  <2> QED BY <1>2, <2>1 DEF RowInv, OneLivePerFamily
<1> QED BY <1>7, <1>8, <1>9, <1>10, <1>11, <1>12 DEF RowInv

\* Rows that are revoked because a request holds them, or because they have
\* expired and nobody holds them.
LEMMA RevokeKeepsRows ==
  ASSUME TypeOK, RowInv, NEW r \in Requests, NEW S \in SUBSET Jtis, Done(r),
         row' = [j \in Jtis |-> IF j \in S THEN "revoked" ELSE row[j]],
         UNCHANGED family,
         \A q \in Requests \ {r} : held[q] \cap S = {},
         \A j \in S : row[j] # "none"
  PROVE  RowInv'
<1>1. \A q \in Requests : q # r => kind'[q] = kind[q] /\ pc'[q] = pc[q] /\ jti'[q] = jti[q] /\ held'[q] = held[q]
  BY DEF Done, TypeOK
<1>2. kind'[r] = "none" /\ held'[r] = {}
  BY DEF Done, TypeOK
<1>3. \A j \in Jtis : /\ row'[j] = "none" <=> row[j] = "none"
                      /\ row'[j] = "live" <=> row[j] = "live" /\ j \notin S
  BY DEF TypeOK
<1>4. (\A q, s \in Requests : q # s => held[q] \cap held[s] = {})'
  BY <1>1, <1>2 DEF RowInv
<1>5. (\A q \in Requests : \A i \in held[q] : row[i] # "none")'
  BY <1>1, <1>2, <1>3 DEF RowInv, TypeOK
<1>6. (\A q \in Requests : kind[q] = "refresh" => jti[q] \in Jtis /\ row[jti[q]] # "none")'
  BY <1>1, <1>2, <1>3 DEF RowInv
<1>7. ASSUME NEW q \in Requests, kind'[q] = "refresh", pc'[q] = "rotate"
      PROVE  held'[q] = {jti'[q]} /\ row'[jti'[q]] = "live"
  <2>1. q # r /\ held[q] = {jti[q]} /\ row[jti[q]] = "live" /\ jti[q] \in Jtis
    BY <1>1, <1>2, <1>7 DEF RowInv
  <2> QED BY <2>1, <1>1, <1>3
<1>8. (\A i \in Jtis : row[i] # "none" => row[family[i]] # "none")'
  BY <1>3 DEF RowInv, TypeOK
<1>9. OneLivePerFamily'
  BY <1>3 DEF RowInv, OneLivePerFamily
<1> QED BY <1>4, <1>5, <1>6, <1>7, <1>8, <1>9 DEF RowInv

\* Every step keeps the rows' part of the invariant.
LEMMA RowStep == TypeOK /\ TypeOK' /\ UserInv /\ RowInv /\ [Next]_vars => RowInv'
<1> SUFFICES ASSUME TypeOK, TypeOK', UserInv, RowInv, [Next]_vars PROVE RowInv'
  OBVIOUS
<1>1. ASSUME NEW r \in Requests, register_check(r) \/ login_read(r) \/ authenticated_read(r) \/ reset_lock(r)
      PROVE  RowInv'
  <2>1. /\ UNCHANGED <<row, family, held>> /\ kind'[r] # "refresh"
        /\ \A q \in Requests : q # r => kind'[q] = kind[q] /\ pc'[q] = pc[q] /\ jti'[q] = jti[q]
    BY <1>1 DEF register_check, login_read, authenticated_read, reset_lock, Start, sessions, TypeOK
  <2>2. /\ \A q \in Requests \ {r} : held'[r] \cap held[q] = {}
        /\ \A i \in held'[r] : row[i] # "none"
        /\ kind[r] = "refresh" => jti[r] \in Jtis /\ row[jti[r]] # "none"
    BY <2>1 DEF RowInv
  <2> QED BY <2>1, <2>2, RowsUntouched
<1>2. ASSUME NEW r \in Requests, NEW j \in Jtis, refresh_read(r, j) PROVE RowInv'
  <2>1. /\ UNCHANGED <<row, family, held>> /\ jti'[r] = j /\ row[j] # "none" /\ pc'[r] = "read"
        /\ \A q \in Requests : q # r => kind'[q] = kind[q] /\ pc'[q] = pc[q] /\ jti'[q] = jti[q]
    BY <1>2 DEF refresh_read, Start, sessions, TypeOK
  <2>2. /\ \A q \in Requests \ {r} : held'[r] \cap held[q] = {}
        /\ \A i \in held'[r] : row[i] # "none"
        /\ kind[r] = "refresh" => jti[r] \in Jtis /\ row[jti[r]] # "none"
    BY <2>1 DEF RowInv
  <2> QED BY <2>1, <2>2, RowsUntouched
<1>3. ASSUME NEW r \in Requests, logout_audit(r) \/ delete_flush(r) \/ revoke_select(r) PROVE RowInv'
  <2>1. /\ UNCHANGED <<row, family, held, kind, jti>> /\ pc'[r] # "rotate"
        /\ \A q \in Requests : q # r => pc'[q] = pc[q]
    BY <1>3 DEF logout_audit, delete_flush, revoke_select, Goto, sessions, TypeOK
  <2>2. /\ \A q \in Requests \ {r} : held'[r] \cap held[q] = {}
        /\ \A i \in held'[r] : row[i] # "none"
        /\ kind[r] = "refresh" => jti[r] \in Jtis /\ row[jti[r]] # "none"
    BY <2>1 DEF RowInv
  <2> QED BY <2>1, <2>2, RowsUntouched
<1>4. ASSUME NEW r \in Requests, revoke_apply(r) PROVE RowInv'
  <2>1. /\ UNCHANGED <<row, family, kind, jti>> /\ pc'[r] = "commit"
        /\ \A q \in Requests : q # r => pc'[q] = pc[q] /\ held'[q] = held[q]
        /\ held'[r] = held[r] \cup {j \in snapshot[r] : row[j] = "live"}
        /\ \A j \in snapshot[r] : ~RowLocked(r, j)
    BY <1>4 DEF revoke_apply, Goto, sessions, TypeOK
  <2>2. \A q \in Requests \ {r} : held'[r] \cap held[q] = {}
    BY <2>1 DEF RowInv, RowLocked
  <2>3. \A j \in held'[r] : row[j] # "none"
    BY <2>1 DEF RowInv
  <2> QED BY <2>1, <2>2, <2>3, RowsUntouched DEF RowInv
<1>5. ASSUME NEW r \in Requests, rollback(r) PROVE RowInv'
  <2>1. /\ UNCHANGED <<row, family>> /\ kind'[r] = "none" /\ held'[r] = {}
        /\ \A q \in Requests : q # r => kind'[q] = kind[q] /\ pc'[q] = pc[q] /\ jti'[q] = jti[q] /\ held'[q] = held[q]
    BY <1>5 DEF rollback, Done, sessions, TypeOK
  <2> QED BY <2>1, RowsUntouched
<1>6. ASSUME NEW r \in Requests, register_insert(r) PROVE RowInv'
  <2>1. CASE EmailFree
    <3>1. PICK j \in Jtis : Issue(r, j, j, 0) /\ Done(r)
      BY <1>6, <2>1 DEF register_insert
    <3>2. \A i \in Jtis : ~(row[i] = "live")
      BY <2>1 DEF EmailFree, UserInv
    <3> QED BY <3>1, <3>2, IssueKeepsRows
  <2>2. CASE ~EmailFree
    <3>1. /\ UNCHANGED <<row, family>> /\ kind'[r] = "none" /\ held'[r] = {}
          /\ \A q \in Requests : q # r => kind'[q] = kind[q] /\ pc'[q] = pc[q] /\ jti'[q] = jti[q] /\ held'[q] = held[q]
      BY <1>6, <2>2 DEF register_insert, Done, sessions, TypeOK
    <3> QED BY <3>1, RowsUntouched
  <2> QED BY <2>1, <2>2
<1>7. ASSUME NEW r \in Requests, login_issue(r) PROVE RowInv'
  <2>1. PICK j \in Jtis : Issue(r, j, j, proof[r]) /\ Done(r)
    BY <1>7 DEF login_issue
  <2>2. \A i \in Jtis : ~(row[i] = "live" /\ family[i] = j)
    BY <2>1 DEF Issue, RowInv
  <2> QED BY <2>1, <2>2, IssueKeepsRows
<1>8. ASSUME NEW r \in Requests, refresh_rotate(r) PROVE RowInv'
  <2>1. PICK j \in Jtis : Issue(r, j, family[jti[r]], proof[r]) /\ Done(r)
    BY <1>8 DEF refresh_rotate
  <2>2. held[r] = {jti[r]} /\ row[jti[r]] = "live" /\ jti[r] \in Jtis
    BY <1>8 DEF refresh_rotate, RowInv
  <2>3. family[jti[r]] \in Jtis /\ row[family[jti[r]]] # "none"
    BY <2>2 DEF RowInv, TypeOK
  <2>4. \A i \in Jtis : row[i] = "live" /\ family[i] = family[jti[r]] => i \in held[r]
    BY <2>2 DEF RowInv, OneLivePerFamily
  <2> QED BY <2>1, <2>3, <2>4, IssueKeepsRows
<1>9. ASSUME NEW r \in Requests, refresh_lock(r) PROVE RowInv'
  <2>0. jti[r] \in Jtis /\ ~RowLocked(r, jti[r]) /\ UNCHANGED family /\ pc[r] = "read"
        /\ row[jti[r]] # "none"
    BY <1>9 DEF refresh_lock, RowInv
  <2>1. CASE Done(r) /\ row' = [row EXCEPT ![jti[r]] = "revoked"] /\ row[jti[r]] = "live"
    <3>1. row' = [j \in Jtis |-> IF j \in {jti[r]} THEN "revoked" ELSE row[j]]
      BY <2>1 DEF TypeOK
    <3>2. \A q \in Requests \ {r} : held[q] \cap {jti[r]} = {}
      BY <2>0 DEF RowLocked
    <3> QED BY <2>0, <2>1, <3>1, <3>2, RevokeKeepsRows
  <2>2. CASE /\ UNCHANGED <<row, jti>> /\ held' = [held EXCEPT ![r] = {jti[r]}]
             /\ \/ kind' = [kind EXCEPT ![r] = "replay"] /\ Goto(r, "select")
                \/ kind' = kind /\ Goto(r, "rotate") /\ row[jti[r]] = "live"
    <3>1. /\ held'[r] = {jti[r]}
          /\ kind'[r] = "refresh" => pc'[r] # "rotate" \/ row[jti[r]] = "live"
          /\ \A q \in Requests : q # r => kind'[q] = kind[q] /\ pc'[q] = pc[q] /\ held'[q] = held[q]
      BY <2>2 DEF Goto, TypeOK
    <3>2. \A q \in Requests \ {r} : held'[r] \cap held[q] = {}
      BY <2>0, <3>1 DEF RowLocked
    <3> QED BY <2>0, <2>2, <3>1, <3>2, RowsUntouched
  <2> QED BY <1>9, <2>1, <2>2 DEF refresh_lock
<1>10. ASSUME NEW r \in Requests, revoke_commit(r) PROVE RowInv'
  <2>1. Done(r) /\ UNCHANGED family /\ held[r] \in SUBSET Jtis
        /\ row' = [j \in Jtis |-> IF j \in held[r] THEN "revoked" ELSE row[j]]
    BY <1>10 DEF revoke_commit, TypeOK
  <2>2. \A q \in Requests \ {r} : held[q] \cap held[r] = {}
    BY DEF RowInv
  <2>3. \A j \in held[r] : row[j] # "none"
    BY DEF RowInv
  <2> QED BY <2>1, <2>2, <2>3, RevokeKeepsRows
<1>11. ASSUME NEW j \in Jtis, session_expires(j) PROVE RowInv'
  BY <1>11 DEF session_expires, slots, RowInv, OneLivePerFamily
<1>12. CASE UNCHANGED vars
  BY <1>12 DEF vars, sessions, slots, RowInv, OneLivePerFamily
<1> QED
  BY <1>1, <1>2, <1>3, <1>4, <1>5, <1>6, <1>7, <1>8, <1>9, <1>10, <1>11, <1>12 DEF Next

-----------------------------------------------------------------------------
(* Versions.                                                               *)

\* A step that changes neither the version, the password nor the tokens keeps
\* the versions' part of the invariant, if the slot it fills is in order.
LEMMA SlotKeepsVersions ==
  ASSUME TypeOK, VersionInv, UNCHANGED <<version, password, tokens, dead, lostUpdate, claim, origin>>,
         \A j \in Jtis : row'[j] # "none" => row[j] # "none",
         NEW r \in Requests,
         \A q \in Requests : q # r => read'[q] = read[q] /\ kind'[q] = kind[q] /\ proof'[q] = proof[q],
         ~lostUpdate => /\ read'[r] <= version
                        /\ kind'[r] \in {"login", "refresh"} /\ read'[r] = version => proof'[r] = password
  PROVE  VersionInv'
BY DEF VersionInv

\* A request that has ended is in order.
LEMMA DoneVersions ==
  ASSUME TypeOK, VersionInv, NEW r \in Requests, Done(r)
  PROVE  /\ \A q \in Requests : q # r => read'[q] = read[q] /\ kind'[q] = kind[q] /\ proof'[q] = proof[q]
         /\ read'[r] = 0 /\ kind'[r] = "none" /\ read'[r] <= version
BY AuthAssumption DEF TypeOK, Done

\* Tokens signed with what the request has read and verified are in order.
LEMMA IssueKeepsVersions ==
  ASSUME TypeOK, RowInv, VersionInv, NEW r \in Requests, NEW j \in Jtis, NEW root \in Jtis, NEW pw,
         Issue(r, j, root, pw), Done(r), UNCHANGED <<version, password>>,
         ~lostUpdate /\ read[r] = version => pw = password
  PROVE  VersionInv'
<1> SUFFICES ASSUME ~lostUpdate' PROVE VersionInv'
  BY DEF VersionInv
<1>1. ~lostUpdate /\ dead' = dead /\ tokens' = tokens \cup {[sv |-> read[r], pw |-> pw]}
  BY DEF Issue, SignedVersion
<1>2. \A t \in tokens' : t.sv <= version /\ (t.sv = version => t.pw = password)
  BY <1>1 DEF VersionInv
<1>3. \A q \in Requests : read'[q] <= version
                          /\ (kind'[q] \in {"login", "refresh"} /\ read'[q] = version => proof'[q] = password)
  BY <1>1, DoneVersions DEF VersionInv
<1>4. claim'[j] = read[r] /\ origin'[j] = pw
  BY DEF Issue, SignedVersion, TypeOK
<1>5. \A i \in Jtis : i # j => claim'[i] = claim[i] /\ origin'[i] = origin[i] /\ (row'[i] # "none" => row[i] # "none")
  BY DEF Issue, TypeOK, RowInv
<1>6. \A i \in Jtis : claim'[i] <= version /\ (row'[i] # "none" /\ claim'[i] = version => origin'[i] = password)
  BY <1>1, <1>4, <1>5 DEF VersionInv
<1> QED BY <1>1, <1>2, <1>3, <1>6 DEF VersionInv

\* Every step keeps the versions' part of the invariant.
LEMMA VersionStep == AuthInv /\ TypeOK' /\ [Next]_vars => VersionInv'
<1> SUFFICES ASSUME TypeOK, UserInv, RowInv, VersionInv, TypeOK', [Next]_vars PROVE VersionInv'
  BY DEF AuthInv
<1>0. version \in Int /\ \A r \in Requests : read[r] \in Int
  BY DEF TypeOK
<1>1. ASSUME NEW r \in Requests, register_check(r) \/ login_read(r) \/ authenticated_read(r) \/ reset_lock(r)
      PROVE  VersionInv'
  <2>1. /\ UNCHANGED <<version, password, tokens, dead, lostUpdate, claim, origin, row>>
        /\ \A q \in Requests : q # r => read'[q] = read[q] /\ kind'[q] = kind[q] /\ proof'[q] = proof[q]
        /\ read'[r] = version
        /\ kind'[r] \in {"login", "refresh"} => proof'[r] = password
    BY <1>1 DEF register_check, login_read, authenticated_read, reset_lock, Start, user, sessions, history, TypeOK
  <2> QED BY <2>1, <1>0, SlotKeepsVersions
<1>2. ASSUME NEW r \in Requests, NEW j \in Jtis, refresh_read(r, j) PROVE VersionInv'
  <2>1. /\ UNCHANGED <<version, password, tokens, dead, lostUpdate, claim, origin, row>>
        /\ \A q \in Requests : q # r => read'[q] = read[q] /\ kind'[q] = kind[q] /\ proof'[q] = proof[q]
        /\ read'[r] = version /\ proof'[r] = origin[j]
        /\ row[j] # "none" /\ claim[j] = version
    BY <1>2 DEF refresh_read, Validates, Start, user, sessions, history, TypeOK
  <2>2. ~lostUpdate => origin[j] = password
    BY <2>1 DEF VersionInv
  <2> QED BY <2>1, <2>2, <1>0, SlotKeepsVersions
<1>3. ASSUME NEW r \in Requests, logout_audit(r) \/ delete_flush(r) \/ revoke_select(r) \/ revoke_apply(r)
      PROVE  VersionInv'
  BY <1>3 DEF logout_audit, delete_flush, revoke_select, revoke_apply, user, sessions, history, VersionInv
<1>4. ASSUME NEW r \in Requests, rollback(r) PROVE VersionInv'
  <2>1. UNCHANGED <<version, password, tokens, dead, lostUpdate, claim, origin, row>> /\ Done(r)
    BY <1>4 DEF rollback, user, sessions, history
  <2> QED BY <2>1, DoneVersions, SlotKeepsVersions
<1>5. ASSUME NEW r \in Requests, register_insert(r) PROVE VersionInv'
  <2>1. CASE EmailFree
    <3>1. PICK j \in Jtis : Issue(r, j, j, 0) /\ Done(r)
      BY <1>5, <2>1 DEF register_insert
    <3>2. UNCHANGED <<version, password>> /\ password = 0
      BY <1>5, <2>1 DEF register_insert, EmailFree, UserInv
    <3> QED BY <3>1, <3>2, IssueKeepsVersions
  <2>2. CASE ~EmailFree
    <3>1. UNCHANGED <<version, password, tokens, dead, lostUpdate, claim, origin, row>> /\ Done(r)
      BY <1>5, <2>2 DEF register_insert, user, sessions, history
    <3> QED BY <3>1, DoneVersions, SlotKeepsVersions
  <2> QED BY <2>1, <2>2
<1>6. ASSUME NEW r \in Requests, login_issue(r) \/ refresh_rotate(r) PROVE VersionInv'
  <2>1. PICK j \in Jtis, root \in Jtis : Issue(r, j, root, proof[r])
    BY <1>6 DEF login_issue, refresh_rotate, RowInv, TypeOK
  <2>2. Done(r) /\ UNCHANGED <<version, password>>
    BY <1>6 DEF login_issue, refresh_rotate, user
  <2>3. ~lostUpdate /\ read[r] = version => proof[r] = password
    BY <1>6 DEF login_issue, refresh_rotate, VersionInv
  <2> QED BY <2>1, <2>2, <2>3, IssueKeepsVersions
<1>7. ASSUME NEW r \in Requests, refresh_lock(r) PROVE VersionInv'
  <2>1. /\ UNCHANGED <<version, password, tokens, dead, lostUpdate, claim, origin>>
        /\ row[jti[r]] # "none"
    BY <1>7 DEF refresh_lock, user, history
  <2>2. \A j \in Jtis : row'[j] # "none" => row[j] # "none"
    BY <1>7, <2>1 DEF refresh_lock, TypeOK
  <2>3. CASE Done(r)
    BY <2>1, <2>2, <2>3, DoneVersions, SlotKeepsVersions
  <2>4. CASE UNCHANGED <<read, proof>> /\ (kind' = kind \/ kind' = [kind EXCEPT ![r] = "replay"])
    <3>1. \A q \in Requests : kind'[q] \in {"login", "refresh"} => kind'[q] = kind[q]
      BY <2>4 DEF TypeOK
    <3> QED BY <2>1, <2>2, <2>4, <3>1 DEF VersionInv
  <2> QED BY <1>7, <2>3, <2>4 DEF refresh_lock
<1>8. ASSUME NEW r \in Requests, revoke_commit(r) PROVE VersionInv'
  <2> SUFFICES ASSUME ~lostUpdate' PROVE VersionInv'
    BY DEF VersionInv
  <2>1. ~lostUpdate /\ read[r] = version /\ version' = version + 1 /\ dead' = dead \cup tokens
        /\ UNCHANGED <<tokens, claim, origin>> /\ Done(r)
    BY <1>8 DEF revoke_commit, Bump
  <2>2. /\ \A t \in tokens : t.sv \in Int
        /\ \A t \in dead : t.sv \in Int
        /\ \A j \in Jtis : claim[j] \in Int
    BY DEF TypeOK, Token
  <2>3. \A t \in tokens \cup dead : t.sv < version'
    BY <1>0, <2>1, <2>2 DEF VersionInv
  <2>4. \A q \in Requests : read'[q] < version'
    <3>1. 0 < version + 1
      BY DEF TypeOK
    <3> QED BY <1>0, <2>1, <3>1, DoneVersions DEF VersionInv
  <2>5. \A j \in Jtis : claim'[j] < version'
    BY <1>0, <2>1, <2>2 DEF VersionInv
  <2>6. /\ \A q \in Requests : read'[q] \in Int
        /\ \A j \in Jtis : claim'[j] \in Int
        /\ version' \in Int
    BY DEF TypeOK
  <2> QED BY <2>1, <2>2, <2>3, <2>4, <2>5, <2>6 DEF VersionInv
<1>9. ASSUME NEW j \in Jtis, session_expires(j) PROVE VersionInv'
  BY <1>9 DEF session_expires, user, history, slots, VersionInv
<1>10. CASE UNCHANGED vars
  BY <1>10 DEF vars, user, sessions, history, slots, VersionInv
<1> QED
  BY <1>1, <1>2, <1>3, <1>4, <1>5, <1>6, <1>7, <1>8, <1>9, <1>10 DEF Next

-----------------------------------------------------------------------------
(* The theorems.                                                           *)

\* The inductive invariant holds in every reachable state of every instance.
THEOREM AuthSafe == Spec => []AuthInv
<1>1. Init => AuthInv
  <2> SUFFICES ASSUME Init PROVE AuthInv
    OBVIOUS
  <2>1. TypeOK
    <3>1. 0 \in 0..MaxVersion /\ 0 \in -1..MaxResets
      BY AuthAssumption
    <3>2. RowsOK
      BY <3>1 DEF Init, RowsOK
    <3>3. SlotsOK
      BY <3>1 DEF Init, SlotsOK, Kind, Pc
    <3> QED BY <3>1, <3>2, <3>3 DEF Init, TypeOK, RowsOK, SlotsOK
  <2>2. UserInv
    BY DEF Init, UserInv, Locker
  <2>3. RowInv
    BY DEF Init, RowInv, OneLivePerFamily
  <2>4. VersionInv
    BY DEF Init, VersionInv
  <2> QED BY <2>1, <2>2, <2>3, <2>4 DEF AuthInv
<1>2. AuthInv /\ [Next]_vars => AuthInv'
  BY UserStep, RowStep, VersionStep DEF AuthInv
<1> QED
  BY <1>1, <1>2, PTL DEF Spec

\* However refreshes, logins and revocations interleave, of the refresh tokens
\* that descend from one login at most one is live.
THEOREM FamilySafe == Spec => []SessionsInv
<1>1. AuthInv => SessionsInv
  BY DEF AuthInv, RowInv, SessionsInv
<1> QED
  BY <1>1, AuthSafe, PTL

\* What a revocation ended never validates again, unless two overlapped.
THEOREM RevocationSafe == Spec => []RevokedStaysRevoked
<1>1. AuthInv => RevokedStaysRevoked
  BY DEF AuthInv, TypeOK, Token, VersionInv, RevokedStaysRevoked, Validates
<1> QED
  BY <1>1, AuthSafe, PTL

\* What validates was obtained with the password in force, same proviso.
THEOREM PasswordSafe == Spec => []OldPasswordIsUseless
<1>1. AuthInv => OldPasswordIsUseless
  BY DEF AuthInv, VersionInv, OldPasswordIsUseless, Validates
<1> QED
  BY <1>1, AuthSafe, PTL
=============================================================================
