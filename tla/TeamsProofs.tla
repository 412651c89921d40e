----------------------------- MODULE TeamsProofs -----------------------------
(***************************************************************************)
(* Proofs about Teams and Games for any accounts, invites, requests,       *)
(* numbers and bounds.                                                     *)
(***************************************************************************)
EXTENDS Games, FiniteSetTheorems, TLAPS

\* Before the founding there is nothing.
FoundedInv ==
  /\ IsFiniteSet(seats)
  /\ team = "none" =>
       /\ seats = {}
       /\ \A i \in Invites : invite[i] = None
       /\ \A r \in Reqs : join[r] = NoJoin

\* What the deletion of an account has read is there until it commits, and a
\* seat that it has not read was taken since.
LeavingInv ==
  /\ \A u \in Users : leaving[u] \subseteq {s \in seats : s.user = u}
  /\ \A s \in seats : account[s.user] = "deleting" => s \in leaving[s.user] \/ s.user \in overtaken
  /\ \A s \in seats : account[s.user] = "deleted" /\ s.active => s.user \in overtaken

\* A join holds the row of its invite: what it read of it is still true.
JoinInv ==
  /\ \A r \in Reqs : join[r] # NoJoin =>
       IF join[r].code = None THEN join[r].role = "player"
       ELSE LET i == invite[join[r].code] IN
         /\ i # None
         /\ join[r].role = i.role /\ join[r].uses = i.uses /\ i.uses < i.max
  /\ \A q, r \in Reqs :
       q # r /\ join[q] # NoJoin /\ join[r] # NoJoin /\ join[r].code # None
         => join[q].code # join[r].code

\* Who may have issued an invite for a head coach: an admin, a head coach, or an
\* account that is deleted.
Authorities ==
  {u \in Users : \/ u \in Admins
                 \/ account[u] = "deleted"
                 \/ \E o \in seats : o.user = u /\ o.role = "head_coach"}

\* Authority is handed on by invites, and a seat knows the invite it rests on.
ChainInv ==
  /\ \A i \in Invites :
       invite[i] # None /\ invite[i].role = "head_coach" => invite[i].by \in Authorities
  /\ \A s \in seats :
       /\ s.via \in Invites => invite[s.via] # None
       /\ s.role = "head_coach" /\ s.via # "founder"
            => s.via \in Invites /\ invite[s.via].by \in Authorities

TeamInv ==
  /\ TypeOK /\ FoundedInv /\ LeavingInv /\ JoinInv /\ ChainInv
  /\ InviteUsesExact /\ OneSeatEach

-----------------------------------------------------------------------------
(* Founding, invites and the team's deletion.                              *)

\* The team is founded.
LEMMA Founding ==
  ASSUME TeamInv, NEW u \in Users, create_team(u)
  PROVE  TeamInv'
<1> DEFINE head == [user |-> u, role |-> "head_coach", jersey |-> None,
                    active |-> TRUE, via |-> "founder"]
<1>1. /\ team = "none" /\ team' = "open" /\ seats = {} /\ seats' = {head}
      /\ UNCHANGED <<invite, account, leaving, join, left>>
      /\ overtaken' = Overtakes(u)
  BY DEF create_team, TeamInv, FoundedInv
<1>2. head \in Seat
  BY DEF Seat, SeatRoles
<1>3. overtaken' \subseteq Users /\ overtaken \subseteq overtaken'
      /\ (account[u] # "active" => u \in overtaken')
  BY <1>1 DEF Overtakes, TeamInv, TypeOK
<1>4. TypeOK'
  BY <1>1, <1>2, <1>3 DEF TeamInv, TypeOK
<1>5. FoundedInv'
  BY <1>1, FS_Singleton DEF FoundedInv
<1>6. LeavingInv'
  BY <1>1, <1>3 DEF TeamInv, LeavingInv
<1>7. JoinInv'
  BY <1>1 DEF TeamInv, JoinInv, FoundedInv
<1>8. ChainInv'
  BY <1>1, TeamsAssumption DEF TeamInv, ChainInv, FoundedInv, Authorities
<1>9. InviteUsesExact'
  BY <1>1 DEF TeamInv, FoundedInv, InviteUsesExact
<1>10. OneSeatEach'
  BY <1>1 DEF OneSeatEach
<1> QED BY <1>4, <1>5, <1>6, <1>7, <1>8, <1>9, <1>10 DEF TeamInv

\* A coach of the team issues an invite; one for a head coach needs authority.
LEMMA Issuing ==
  ASSUME TeamInv, NEW u \in Users, NEW i \in Invites, NEW role \in InviteRoles,
         NEW max \in MaxUses, create_invite(u, i, role, max)
  PROVE  TeamInv'
<1> DEFINE row == [role |-> role, max |-> max, uses |-> 0, by |-> u, st |-> "live"]
<1>1. /\ team = "open" /\ invite[i] = None /\ may_issue(u, role)
      /\ invite' = [invite EXCEPT ![i] = row] /\ left' = [left EXCEPT !.invites = @ - 1]
      /\ left.invites > 0
      /\ UNCHANGED <<team, seats, account, leaving, join, overtaken>>
  BY DEF create_invite, get_team_or_404
<1>2. row \in Invite /\ row # None
  BY TeamsAssumption DEF Invite
<1>3. /\ invite' \in [Invites -> Invite \cup {None}] /\ invite'[i] = row
      /\ \A k \in Invites \ {i} : invite'[k] = invite[k]
  BY <1>1, <1>2 DEF TeamInv, TypeOK
<1>4. left' \in [invites : Nat, joins : Nat, games : Nat, ends : Nat]
  BY <1>1 DEF TeamInv, TypeOK
<1>5. \A s \in seats : s.via # i
  BY <1>1 DEF TeamInv, ChainInv
<1>6. TypeOK'
  BY <1>1, <1>3, <1>4 DEF TeamInv, TypeOK
<1>7. FoundedInv' /\ LeavingInv' /\ OneSeatEach'
  BY <1>1 DEF TeamInv, FoundedInv, LeavingInv, OneSeatEach
<1>8. JoinInv'
  <2>1. \A r \in Reqs : join[r] # NoJoin /\ join[r].code # None
                           => join[r].code \in Invites \ {i}
    BY <1>1 DEF TeamInv, TypeOK, JoinInv, Join
  <2> QED BY <1>1, <1>3, <2>1 DEF TeamInv, JoinInv
<1>9. ChainInv'
  <2>1. Authorities' = Authorities
    BY <1>1 DEF Authorities
  <2>2. role = "head_coach" => u \in Authorities
    BY <1>1 DEF may_issue, membership, Authorities
  <2>3. ASSUME NEW k \in Invites, invite'[k] # None, invite'[k].role = "head_coach"
        PROVE  invite'[k].by \in Authorities
    BY <1>3, <2>2, <2>3 DEF TeamInv, ChainInv
  <2>4. ASSUME NEW s \in seats, s.via \in Invites
        PROVE  invite'[s.via] # None
    BY <1>3, <1>5, <2>4 DEF TeamInv, ChainInv
  <2>5. ASSUME NEW s \in seats, s.role = "head_coach", s.via # "founder"
        PROVE  s.via \in Invites /\ invite'[s.via].by \in Authorities
    BY <1>3, <1>5, <2>5 DEF TeamInv, ChainInv
  <2> QED BY <1>1, <2>1, <2>3, <2>4, <2>5 DEF ChainInv
<1>10. InviteUsesExact'
  <2> SUFFICES ASSUME NEW k \in Invites, invite'[k] # None
               PROVE  /\ invite'[k].uses = Cardinality({s \in seats : s.via = k})
                      /\ invite'[k].uses <= invite'[k].max
    BY <1>1 DEF InviteUsesExact
  <2>1. CASE k = i
    <3>1. {s \in seats : s.via = i} = {}
      BY <1>5
    <3> QED BY <1>3, <2>1, <3>1, FS_EmptySet, TeamsAssumption
  <2>2. CASE k # i
    BY <1>3, <2>2 DEF TeamInv, InviteUsesExact
  <2> QED BY <2>1, <2>2
<1> QED BY <1>6, <1>7, <1>8, <1>9, <1>10 DEF TeamInv

\* An invite that expires, and a team that is deleted.
LEMMA Ending ==
  ASSUME TeamInv,
         \/ \E i \in Invites : invite_expires(i)
         \/ \E u \in Users : delete_team(u)
  PROVE  TeamInv'
<1>1. CASE \E u \in Users : delete_team(u)
  <2>1. /\ team = "open" /\ team' = "deleted"
        /\ UNCHANGED <<seats, invite, account, leaving, join, left, overtaken>>
    BY <1>1 DEF delete_team
  <2>2. TypeOK' /\ FoundedInv' /\ LeavingInv' /\ JoinInv'
    BY <2>1 DEF TeamInv, TypeOK, FoundedInv, LeavingInv, JoinInv
  <2>3. ChainInv' /\ InviteUsesExact' /\ OneSeatEach'
    BY <2>1 DEF TeamInv, ChainInv, Authorities, InviteUsesExact, OneSeatEach
  <2> QED BY <2>2, <2>3 DEF TeamInv
<1>2. ASSUME NEW i \in Invites, invite_expires(i) PROVE TeamInv'
  <2>1. /\ invite[i] # None /\ invite' = [invite EXCEPT ![i].st = "expired"] /\ Ends
        /\ UNCHANGED <<team, seats, account, leaving, join, overtaken>>
    BY <1>2 DEF invite_expires
  <2>2. left' \in [invites : Nat, joins : Nat, games : Nat, ends : Nat]
    BY <2>1 DEF Ends, TeamInv, TypeOK
  <2>3. invite[i] \in Invite
    BY <2>1 DEF TeamInv, TypeOK
  <2>4. [invite[i] EXCEPT !.st = "expired"] \in Invite
    BY <2>3 DEF Invite
  <2>5. /\ invite' \in [Invites -> Invite \cup {None}]
        /\ \A k \in Invites : /\ invite'[k] # None <=> invite[k] # None
                              /\ invite'[k].role = invite[k].role
                              /\ invite'[k].uses = invite[k].uses
                              /\ invite'[k].max = invite[k].max
                              /\ invite'[k].by = invite[k].by
    <3>1. invite'[i] = [invite[i] EXCEPT !.st = "expired"]
      BY <2>1 DEF TeamInv, TypeOK
    <3>2. /\ invite'[i].role = invite[i].role /\ invite'[i].uses = invite[i].uses
          /\ invite'[i].max = invite[i].max /\ invite'[i].by = invite[i].by
          /\ invite'[i] # None
      BY <2>3, <2>4, <3>1, TeamsAssumption DEF Invite
    <3>3. \A k \in Invites \ {i} : invite'[k] = invite[k]
      BY <2>1 DEF TeamInv, TypeOK
    <3>4. invite' \in [Invites -> Invite \cup {None}]
      BY <2>1, <2>4 DEF TeamInv, TypeOK
    <3> QED BY <2>1, <3>2, <3>3, <3>4
  <2>6. TypeOK' /\ LeavingInv' /\ OneSeatEach'
    BY <2>1, <2>2, <2>5 DEF TeamInv, TypeOK, LeavingInv, OneSeatEach
  <2>7. FoundedInv'
    BY <2>1, <2>5 DEF TeamInv, FoundedInv
  <2>8. JoinInv'
    <3>1. ASSUME NEW r \in Reqs, join[r] # NoJoin, join[r].code # None
          PROVE  join[r].code \in Invites
      BY <3>1 DEF TeamInv, TypeOK, Join
    <3> QED BY <2>1, <2>5, <3>1 DEF TeamInv, JoinInv
  <2>9. ChainInv'
    <3>1. Authorities' = Authorities
      BY <2>1 DEF Authorities
    <3> QED BY <2>1, <2>5, <3>1 DEF TeamInv, ChainInv
  <2>10. InviteUsesExact'
    BY <2>1, <2>5 DEF TeamInv, InviteUsesExact
  <2> QED BY <2>6, <2>7, <2>8, <2>9, <2>10 DEF TeamInv
<1> QED BY <1>1, <1>2

-----------------------------------------------------------------------------
(* Joins.                                                                  *)

\* A join looks its code up and takes the row of its invite.
LEMMA Looking ==
  ASSUME TeamInv, NEW r \in Reqs, NEW u \in Users, NEW c \in Invites \cup {None},
         NEW j \in Jerseys \cup {None}, join_lookup(r, u, c, j)
  PROVE  TeamInv'
<1> DEFINE q == [pc |-> "looked", user |-> u, code |-> c, role |-> target_role(c),
                 jersey |-> j, uses |-> IF c = None THEN 0 ELSE invite[c].uses]
<1>1. /\ team = "open" /\ join' = [join EXCEPT ![r] = q]
      /\ join[r].pc = "idle" /\ left.joins > 0 /\ left' = [left EXCEPT !.joins = @ - 1]
      /\ c # None => unlocked(c) /\ invite_usable(c)
      /\ UNCHANGED <<team, seats, invite, account, leaving, overtaken>>
  BY DEF join_lookup, get_team_or_404
<1>2. left' \in [invites : Nat, joins : Nat, games : Nat, ends : Nat]
  BY <1>1 DEF TeamInv, TypeOK
<1>3. c # None => /\ c \in Invites /\ invite[c] \in Invite /\ invite[c] # None
                  /\ invite[c].uses < invite[c].max
  BY <1>1 DEF TeamInv, TypeOK, invite_usable
<1>4. target_role(c) \in SeatRoles
  BY <1>3 DEF target_role, Invite, SeatRoles
<1>5. q.uses \in Nat
  BY <1>3 DEF Invite
<1>6. q \in Join
  BY <1>4, <1>5 DEF Join
<1>7. /\ join' \in [Reqs -> Join \cup {NoJoin}] /\ join'[r] = q
      /\ \A p \in Reqs \ {r} : join'[p] = join[p]
  BY <1>1, <1>6 DEF TeamInv, TypeOK
<1>8. TypeOK' /\ FoundedInv' /\ LeavingInv' /\ OneSeatEach'
  BY <1>1, <1>2, <1>7 DEF TeamInv, TypeOK, FoundedInv, LeavingInv, OneSeatEach
<1>9. ChainInv' /\ InviteUsesExact'
  BY <1>1 DEF TeamInv, ChainInv, Authorities, InviteUsesExact
<1>10. JoinInv'
  <2>1. c # None => \A p \in Reqs \ {r} : join[p] # NoJoin => join[p].code # c
    BY <1>1 DEF unlocked, TeamInv, TypeOK, Join
  <2>2. IF c = None THEN q.role = "player"
        ELSE q.role = invite[c].role /\ q.uses = invite[c].uses
    BY DEF target_role
  <2>3. \A p \in Reqs : join'[p] # NoJoin =>
          IF join'[p].code = None THEN join'[p].role = "player"
          ELSE LET i == invite[join'[p].code] IN
            /\ i # None
            /\ join'[p].role = i.role /\ join'[p].uses = i.uses /\ i.uses < i.max
    BY <1>3, <1>7, <2>2 DEF TeamInv, JoinInv
  <2>4. \A o, p \in Reqs :
          o # p /\ join'[o] # NoJoin /\ join'[p] # NoJoin /\ join'[p].code # None
            => join'[o].code # join'[p].code
    BY <1>7, <2>1 DEF TeamInv, JoinInv
  <2> QED BY <1>1, <2>3, <2>4 DEF JoinInv
<1> QED BY <1>8, <1>9, <1>10 DEF TeamInv

\* A join that goes on or ends without a seat.
LEMMA Checking ==
  ASSUME TeamInv, NEW r \in Reqs, join_check(r) \/ join_integrity_error(r)
  PROVE  TeamInv'
<1>1. /\ join[r].pc \in {"looked", "insert"}
      /\ \/ join' = [join EXCEPT ![r] = NoJoin]
         \/ join' = [join EXCEPT ![r] = [@ EXCEPT !.pc = "insert"]]
      /\ UNCHANGED <<team, seats, invite, account, leaving, left, overtaken>>
  BY DEF join_check, join_integrity_error, TeamInv, TypeOK
<1>2. join[r] \in Join /\ join[r] # NoJoin
  BY <1>1 DEF TeamInv, TypeOK, NoJoin
<1>3. LET q == [join[r] EXCEPT !.pc = "insert"] IN
        q \in Join /\ q.code = join[r].code /\ q.role = join[r].role /\ q.uses = join[r].uses
  BY <1>2 DEF Join
<1>4. /\ join' \in [Reqs -> Join \cup {NoJoin}]
      /\ \A p \in Reqs \ {r} : join'[p] = join[p]
      /\ join'[r] # NoJoin => /\ join'[r].code = join[r].code
                              /\ join'[r].role = join[r].role /\ join'[r].uses = join[r].uses
  BY <1>1, <1>3 DEF TeamInv, TypeOK
<1>5. TypeOK' /\ LeavingInv' /\ OneSeatEach'
  BY <1>1, <1>4 DEF TeamInv, TypeOK, LeavingInv, OneSeatEach
<1>6. FoundedInv' /\ ChainInv' /\ InviteUsesExact'
  BY <1>1, <1>2 DEF TeamInv, FoundedInv, ChainInv, Authorities, InviteUsesExact
<1>7. JoinInv'
  BY <1>1, <1>2, <1>4 DEF TeamInv, JoinInv
<1> QED BY <1>5, <1>6, <1>7 DEF TeamInv

\* A seat is taken.
LEMMA Seating ==
  ASSUME TeamInv, NEW r \in Reqs, join_commit(r)
  PROVE  TeamInv'
<1> DEFINE q == join[r]
           seat == seat_of(q)
<1>1. /\ q.pc = "insert" /\ ~unique_violation(seat)
      /\ seats' = seats \cup {seat}
      /\ invite' = IF q.code = None THEN invite ELSE [invite EXCEPT ![q.code].uses = q.uses + 1]
      /\ join' = [join EXCEPT ![r] = NoJoin]
      /\ overtaken' = Overtakes(q.user)
      /\ UNCHANGED <<team, account, leaving, left>>
  BY DEF join_commit
<1>2. q \in Join /\ q # NoJoin
  BY <1>1 DEF TeamInv, TypeOK, NoJoin
<1>3. /\ seat \in Seat /\ seat.user = q.user /\ seat.role = q.role /\ seat.via = q.code
      /\ q.user \in Users /\ q.code \in Invites \cup {None}
  BY <1>2 DEF seat_of, Join, Seat
<1>4. seat \notin seats /\ \A s \in seats : s.user # seat.user
  BY <1>1 DEF unique_violation
<1>5. q.code # None => /\ invite[q.code] \in Invite /\ invite[q.code] # None
                       /\ q.role = invite[q.code].role /\ q.uses = invite[q.code].uses
                       /\ invite[q.code].uses < invite[q.code].max
  BY <1>2, <1>3 DEF TeamInv, TypeOK, JoinInv
<1>6. /\ invite' \in [Invites -> Invite \cup {None}]
      /\ \A k \in Invites : /\ k # q.code => invite'[k] = invite[k]
                            /\ invite'[k] # None <=> invite[k] # None
                            /\ invite'[k].role = invite[k].role
                            /\ invite'[k].max = invite[k].max
                            /\ invite'[k].by = invite[k].by
      /\ q.code # None => invite'[q.code].uses = invite[q.code].uses + 1
  <2>1. CASE q.code = None
    BY <1>1, <2>1 DEF TeamInv, TypeOK
  <2>2. CASE q.code # None
    <3> DEFINE new == [invite[q.code] EXCEPT !.uses = q.uses + 1]
    <3>1. /\ new \in Invite /\ new # None /\ new.role = invite[q.code].role
          /\ new.max = invite[q.code].max /\ new.by = invite[q.code].by
          /\ new.uses = invite[q.code].uses + 1
      BY <1>5, <2>2, TeamsAssumption DEF Invite
    <3>2. /\ invite' \in [Invites -> Invite \cup {None}] /\ invite'[q.code] = new
          /\ \A k \in Invites : k # q.code => invite'[k] = invite[k]
      BY <1>1, <1>3, <2>2, <3>1 DEF TeamInv, TypeOK
    <3> QED BY <1>5, <2>2, <3>1, <3>2
  <2> QED BY <2>1, <2>2
<1>7. /\ join' \in [Reqs -> Join \cup {NoJoin}] /\ join'[r] = NoJoin
      /\ \A p \in Reqs \ {r} : join'[p] = join[p]
  BY <1>1 DEF TeamInv, TypeOK
<1>8. /\ overtaken' \subseteq Users /\ overtaken \subseteq overtaken'
      /\ account[q.user] # "active" => q.user \in overtaken'
  BY <1>1, <1>3 DEF Overtakes, TeamInv, TypeOK
<1>9. TypeOK'
  BY <1>1, <1>3, <1>6, <1>7, <1>8 DEF TeamInv, TypeOK
<1>10. FoundedInv'
  <2>1. team # "none"
    BY <1>2 DEF TeamInv, FoundedInv
  <2> QED BY <1>1, <2>1, FS_AddElement DEF TeamInv, FoundedInv
<1>11. LeavingInv'
  BY <1>1, <1>3, <1>8 DEF TeamInv, LeavingInv
<1>12. OneSeatEach'
  BY <1>1 DEF TeamInv, OneSeatEach, unique_violation
<1>13. JoinInv'
  <2>1. ASSUME NEW p \in Reqs \ {r}, join[p] # NoJoin, join[p].code # None
        PROVE  /\ join[p].code \in Invites /\ join[p].code # q.code
               /\ invite'[join[p].code] = invite[join[p].code]
    <3>1. join[p].code \in Invites
      BY <2>1 DEF TeamInv, TypeOK, Join
    <3>2. join[p].code # q.code
      BY <1>2, <2>1 DEF TeamInv, JoinInv
    <3> QED BY <1>6, <3>1, <3>2
  <2> QED BY <1>7, <2>1 DEF TeamInv, JoinInv
<1>14. ChainInv'
  <2>1. Authorities \subseteq Authorities'
    BY <1>1 DEF Authorities
  <2>2. seat.role = "head_coach"
          => q.code # None /\ q.code \in Invites /\ invite[q.code].by \in Authorities
    BY <1>2, <1>3, <1>5 DEF TeamInv, JoinInv, ChainInv
  <2>3. \A i \in Invites : invite'[i] # None /\ invite'[i].role = "head_coach"
                              => invite'[i].by \in Authorities'
    BY <1>6, <2>1 DEF TeamInv, ChainInv
  <2>4. ASSUME NEW s \in seats
        PROVE  /\ s.via \in Invites => invite'[s.via] # None
               /\ s.role = "head_coach" /\ s.via # "founder"
                    => s.via \in Invites /\ invite'[s.via].by \in Authorities'
    BY <1>6, <2>1 DEF TeamInv, ChainInv
  <2>5. /\ seat.via \in Invites => invite'[seat.via] # None
        /\ seat.role = "head_coach" /\ seat.via # "founder"
             => seat.via \in Invites /\ invite'[seat.via].by \in Authorities'
    BY <1>3, <1>5, <1>6, <2>1, <2>2, TeamsAssumption
  <2> QED BY <1>1, <2>3, <2>4, <2>5 DEF ChainInv
<1>15. InviteUsesExact'
  <2> SUFFICES ASSUME NEW k \in Invites, invite'[k] # None
               PROVE  /\ invite'[k].uses = Cardinality({s \in seats' : s.via = k})
                      /\ invite'[k].uses <= invite'[k].max
    BY DEF InviteUsesExact
  <2> DEFINE through == {s \in seats : s.via = k}
  <2>1. invite[k] # None /\ invite[k].uses = Cardinality(through) /\ invite[k].uses <= invite[k].max
    BY <1>6 DEF TeamInv, InviteUsesExact
  <2>2. CASE k = q.code
    <3>1. {s \in seats' : s.via = k} = through \cup {seat} /\ seat \notin through
      BY <1>1, <1>3, <1>4, <2>2
    <3>2. IsFiniteSet(through)
      BY FS_Subset DEF TeamInv, FoundedInv
    <3>3. Cardinality(through \cup {seat}) = Cardinality(through) + 1
      BY <3>1, <3>2, FS_AddElement
    <3>4. invite[k] \in Invite /\ invite[k].uses < invite[k].max
      BY <1>5, <2>2, TeamsAssumption
    <3>5. invite'[k].uses = invite[k].uses + 1 /\ invite'[k].max = invite[k].max
      BY <1>6, <2>2, TeamsAssumption
    <3>6. invite[k].uses \in Nat /\ invite[k].max \in Nat
      BY <3>4 DEF Invite
    <3>7. Cardinality({s \in seats' : s.via = k}) = invite[k].uses + 1
      BY <2>1, <3>1, <3>3
    <3> QED BY <3>4, <3>5, <3>6, <3>7
  <2>3. CASE k # q.code
    <3>1. {s \in seats' : s.via = k} = through
      BY <1>1, <1>3, <2>3
    <3> QED BY <1>6, <2>1, <2>3, <3>1
  <2> QED BY <2>2, <2>3
<1> QED BY <1>9, <1>10, <1>11, <1>12, <1>13, <1>14, <1>15 DEF TeamInv

-----------------------------------------------------------------------------
(* Deletion of accounts.                                                   *)

\* The deletion of an account reads its memberships.
LEMMA Reading ==
  ASSUME TeamInv, NEW u \in Users, delete_account_read(u)
  PROVE  TeamInv'
<1>1. /\ account[u] = "active" /\ Ends
      /\ account' = [account EXCEPT ![u] = "deleting"]
      /\ leaving' = [leaving EXCEPT ![u] = {s \in seats : s.user = u}]
      /\ UNCHANGED <<team, seats, invite, join, overtaken>>
  BY DEF delete_account_read
<1>2. left' \in [invites : Nat, joins : Nat, games : Nat, ends : Nat]
  BY <1>1 DEF Ends, TeamInv, TypeOK
<1>3. /\ account' \in [Users -> {"active", "deleting", "deleted"}]
      /\ account'[u] = "deleting"
      /\ \A v \in Users \ {u} : account'[v] = account[v]
  BY <1>1 DEF TeamInv, TypeOK
<1>4. /\ leaving' \in [Users -> SUBSET Seat]
      /\ leaving'[u] = {s \in seats : s.user = u}
      /\ \A v \in Users \ {u} : leaving'[v] = leaving[v]
  BY <1>1 DEF TeamInv, TypeOK
<1>5. TypeOK'
  BY <1>1, <1>2, <1>3, <1>4 DEF TeamInv, TypeOK
<1>6. FoundedInv' /\ JoinInv' /\ InviteUsesExact' /\ OneSeatEach'
  BY <1>1 DEF TeamInv, FoundedInv, JoinInv, InviteUsesExact, OneSeatEach
<1>7. LeavingInv'
  <2>1. \A s \in seats : s.user \in Users
    BY DEF TeamInv, TypeOK, Seat
  <2> QED BY <1>1, <1>3, <1>4, <2>1 DEF TeamInv, LeavingInv
<1>8. ChainInv'
  <2>1. Authorities' = Authorities
    BY <1>1, <1>3 DEF Authorities
  <2> QED BY <1>1, <2>1 DEF TeamInv, ChainInv
<1> QED BY <1>5, <1>6, <1>7, <1>8 DEF TeamInv

\* It commits: what it read, at most one seat, is deactivated in its place.
LEMMA Vacating ==
  ASSUME TeamInv, NEW u \in Users, delete_account_commit(u)
  PROVE  TeamInv'
<1>1. /\ account[u] = "deleting"
      /\ account' = [account EXCEPT ![u] = "deleted"]
      /\ seats' = (seats \ leaving[u]) \cup {vacated(s) : s \in leaving[u]}
      /\ leaving' = [leaving EXCEPT ![u] = {}]
      /\ UNCHANGED <<team, invite, join, left, overtaken>>
  BY DEF delete_account_commit
<1>2. /\ account' \in [Users -> {"active", "deleting", "deleted"}]
      /\ account'[u] = "deleted"
      /\ \A v \in Users \ {u} : account'[v] = account[v]
  BY <1>1 DEF TeamInv, TypeOK
<1>3. /\ leaving' \in [Users -> SUBSET Seat]
      /\ leaving'[u] = {}
      /\ \A v \in Users \ {u} : leaving'[v] = leaving[v]
  BY <1>1 DEF TeamInv, TypeOK
<1>4. leaving[u] \subseteq {s \in seats : s.user = u}
  BY DEF TeamInv, LeavingInv
<1>5. \A s \in seats : s \in Seat /\ s.user \in Users
  BY DEF TeamInv, TypeOK, Seat
<1>6. CASE leaving[u] = {}
  <2>1. seats' = seats
    BY <1>1, <1>6
  <2>2. TypeOK'
    BY <1>1, <1>2, <1>3, <2>1 DEF TeamInv, TypeOK
  <2>3. FoundedInv' /\ JoinInv' /\ InviteUsesExact' /\ OneSeatEach'
    BY <1>1, <2>1 DEF TeamInv, FoundedInv, JoinInv, InviteUsesExact, OneSeatEach
  <2>4. LeavingInv'
    BY <1>1, <1>2, <1>3, <1>5, <1>6, <2>1 DEF TeamInv, LeavingInv
  <2>5. ChainInv'
    <3>1. Authorities \subseteq Authorities'
      BY <1>1, <1>2, <2>1 DEF Authorities
    <3> QED BY <1>1, <2>1, <3>1 DEF TeamInv, ChainInv
  <2> QED BY <2>2, <2>3, <2>4, <2>5 DEF TeamInv
<1>7. ASSUME NEW s \in leaving[u] PROVE TeamInv'
  <2> DEFINE empty == vacated(s)
             rest == seats \ {s}
  <2>1. s \in seats /\ s.user = u /\ s \in Seat
    BY <1>4, <1>5
  <2>2. leaving[u] = {s}
    BY <1>4, <2>1 DEF TeamInv, OneSeatEach
  <2>3. seats' = rest \cup {empty}
    BY <1>1, <2>2
  <2>4. /\ empty \in Seat /\ empty.user = u /\ empty.jersey = s.jersey /\ empty.via = s.via
        /\ empty.role = "player" /\ empty.active = FALSE
    BY <2>1 DEF vacated, Seat, SeatRoles
  <2>5. \A o \in rest : o \in seats /\ o # s /\ o.user # u
    BY <2>1 DEF TeamInv, OneSeatEach
  <2>6. empty \notin rest
    BY <2>4, <2>5
  <2>7. TypeOK'
    BY <1>1, <1>2, <1>3, <2>3, <2>4, <2>5 DEF TeamInv, TypeOK
  <2>8. FoundedInv'
    <3>1. team # "none"
      BY <2>1 DEF TeamInv, FoundedInv
    <3>2. IsFiniteSet(rest)
      BY FS_RemoveElement DEF TeamInv, FoundedInv
    <3> HIDE DEF rest
    <3>3. IsFiniteSet(rest \cup {empty})
      BY <3>2, FS_AddElement
    <3> QED BY <1>1, <2>3, <3>1, <3>3 DEF FoundedInv
  <2>9. OneSeatEach'
    BY <2>1, <2>3, <2>4, <2>5 DEF TeamInv, OneSeatEach
  <2>10. LeavingInv'
    <3>1. \A v \in Users : leaving'[v] \subseteq {o \in seats' : o.user = v}
      BY <1>3, <2>1, <2>3 DEF TeamInv, LeavingInv
    <3>2. \A o \in rest : /\ account'[o.user] = account[o.user]
                          /\ leaving'[o.user] = leaving[o.user]
      BY <1>2, <1>3, <1>5, <2>5
    <3> QED BY <1>1, <1>2, <2>3, <2>4, <2>5, <3>1, <3>2 DEF TeamInv, LeavingInv
  <2>11. JoinInv'
    BY <1>1 DEF TeamInv, JoinInv
  <2>12. ChainInv'
    <3>1. Authorities \subseteq Authorities'
      <4> SUFFICES ASSUME NEW v \in Authorities PROVE v \in Authorities'
        OBVIOUS
      <4>1. CASE v = u \/ v \in Admins \/ account[v] = "deleted"
        BY <1>1, <1>2, <4>1 DEF Authorities
      <4>2. ASSUME NEW o \in seats, o.user = v, o.role = "head_coach", v # u
            PROVE  v \in Authorities'
        BY <2>1, <2>3, <4>2 DEF Authorities
      <4> QED BY <4>1, <4>2 DEF Authorities
    <3>2. empty.via \in Invites => invite[empty.via] # None
      BY <2>1, <2>4 DEF TeamInv, ChainInv
    <3> QED BY <1>1, <2>3, <2>4, <2>5, <3>1, <3>2 DEF TeamInv, ChainInv
  <2>13. InviteUsesExact'
    <3> SUFFICES ASSUME NEW k \in Invites, invite[k] # None
                 PROVE  Cardinality({o \in seats' : o.via = k}) = Cardinality({o \in seats : o.via = k})
      BY <1>1 DEF TeamInv, InviteUsesExact
    <3> DEFINE others == {o \in rest : o.via = k}
    <3>1. IsFiniteSet(others)
      BY FS_Subset DEF TeamInv, FoundedInv
    <3>2. s \notin others /\ empty \notin others
      BY <2>6
    <3>3. CASE s.via = k
      <4>1. {o \in seats : o.via = k} = others \cup {s}
        BY <2>1, <3>3
      <4>2. {o \in seats' : o.via = k} = others \cup {empty}
        BY <2>3, <2>4, <3>3
      <4> HIDE DEF others, empty
      <4>3. /\ Cardinality(others \cup {s}) = Cardinality(others) + 1
            /\ Cardinality(others \cup {empty}) = Cardinality(others) + 1
        BY <3>1, <3>2, FS_AddElement
      <4> QED BY <4>1, <4>2, <4>3
    <3>4. CASE s.via # k
      <4>1. {o \in seats : o.via = k} = others
        BY <2>1, <3>4
      <4>2. {o \in seats' : o.via = k} = others
        BY <2>3, <2>4, <3>4
      <4> QED BY <4>1, <4>2
    <3> QED BY <3>3, <3>4
  <2> QED BY <2>7, <2>8, <2>9, <2>10, <2>11, <2>12, <2>13 DEF TeamInv
<1> QED BY <1>6, <1>7

-----------------------------------------------------------------------------
(* The team as a whole.                                                    *)

\* The invariant of the team holds initially.
LEMMA TeamInitially == Init => TeamInv
<1> SUFFICES ASSUME Init PROVE TeamInv
  OBVIOUS
<1>1. TypeOK /\ FoundedInv
  BY TeamsAssumption, FS_EmptySet DEF Init, TypeOK, FoundedInv
<1>2. LeavingInv /\ JoinInv /\ ChainInv
  BY DEF Init, LeavingInv, JoinInv, ChainInv
<1>3. InviteUsesExact /\ OneSeatEach
  BY DEF Init, InviteUsesExact, OneSeatEach
<1> QED BY <1>1, <1>2, <1>3 DEF TeamInv

\* Every step of the team keeps it.
LEMMA TeamStep == TeamInv /\ [Next]_vars => TeamInv'
<1> SUFFICES ASSUME TeamInv, [Next]_vars PROVE TeamInv'
  OBVIOUS
<1>1. CASE UNCHANGED vars
  <2>1. TypeOK' /\ FoundedInv' /\ LeavingInv' /\ JoinInv'
    BY <1>1 DEF vars, TeamInv, TypeOK, FoundedInv, LeavingInv, JoinInv
  <2>2. ChainInv' /\ InviteUsesExact' /\ OneSeatEach'
    BY <1>1 DEF vars, TeamInv, ChainInv, Authorities, InviteUsesExact, OneSeatEach
  <2> QED BY <2>1, <2>2 DEF TeamInv
<1>2. CASE Next
  <2>1. CASE \E u \in Users : create_team(u)
    BY <2>1, Founding
  <2>2. CASE \E u \in Users, i \in Invites, role \in InviteRoles, max \in MaxUses :
               create_invite(u, i, role, max)
    BY <2>2, Issuing
  <2>3. CASE \/ \E i \in Invites : invite_expires(i)
             \/ \E u \in Users : delete_team(u)
    BY <2>3, Ending
  <2>4. CASE \E r \in Reqs, u \in Users, c \in Invites \cup {None}, j \in Jerseys \cup {None} :
               join_lookup(r, u, c, j)
    BY <2>4, Looking
  <2>5. CASE \E r \in Reqs : join_check(r) \/ join_integrity_error(r)
    BY <2>5, Checking
  <2>6. CASE \E r \in Reqs : join_commit(r)
    BY <2>6, Seating
  <2>7. CASE \E u \in Users : delete_account_read(u)
    BY <2>7, Reading
  <2>8. CASE \E u \in Users : delete_account_commit(u)
    BY <2>8, Vacating
  <2> QED BY <1>2, <2>1, <2>2, <2>3, <2>4, <2>5, <2>6, <2>7, <2>8 DEF Next
<1> QED BY <1>1, <1>2

-----------------------------------------------------------------------------
(* The game.                                                               *)

\* A patch under way belongs to a game, and what it makes of the row that it
\* loaded has seconds exactly when it has a clock.
GameInv ==
  /\ game \in Game \cup {None}
  /\ patch \in [Reqs -> [user : Users, from : Game, to : Game] \cup {None}]
  /\ stale \in BOOLEAN
  /\ \A r \in Reqs : patch[r] # None =>
       game \in Game /\ (patch[r].to.on <=> patch[r].to.secs # None)
  /\ ShotClockAgrees

ClubInv == TeamInv /\ GameInv

\* A game is created.
LEMMA Scheduling ==
  ASSUME ClubInv, NEW u \in Users, NEW secs \in Seconds \cup {None}, create_game(u, secs)
  PROVE  ClubInv'
<1>1. /\ game = None /\ left.games > 0
      /\ game' = [status |-> "scheduled", on |-> secs # None, secs |-> secs]
      /\ left' = [left EXCEPT !.games = @ - 1]
      /\ UNCHANGED <<team, seats, invite, account, leaving, join, overtaken, patch, stale>>
  BY DEF create_game
<1>2. left' \in [invites : Nat, joins : Nat, games : Nat, ends : Nat]
  BY <1>1 DEF ClubInv, TeamInv, TypeOK
<1>3. TypeOK' /\ FoundedInv' /\ LeavingInv' /\ JoinInv'
  BY <1>1, <1>2 DEF ClubInv, TeamInv, TypeOK, FoundedInv, LeavingInv, JoinInv
<1>4. ChainInv' /\ InviteUsesExact' /\ OneSeatEach'
  BY <1>1 DEF ClubInv, TeamInv, ChainInv, Authorities, InviteUsesExact, OneSeatEach
<1>5. game' \in Game
  BY <1>1, GamesAssumption DEF Game
<1>6. GameInv'
  BY <1>1, <1>5 DEF ClubInv, GameInv, ShotClockAgrees
<1> QED BY <1>3, <1>4, <1>6 DEF ClubInv, TeamInv

\* A patch loads the game and is checked.
LEMMA Loading ==
  ASSUME ClubInv, NEW r \in Reqs, NEW u \in Users, NEW upd \in Updates,
         update_game_load(r, u, upd)
  PROVE  GameInv'
<1> DEFINE to == patched(game, upd)
<1>1. /\ patch[r] = None /\ game # None /\ (to.on => to.secs # None)
      /\ patch' = [patch EXCEPT ![r] = [user |-> u, from |-> game, to |-> to]]
      /\ UNCHANGED <<vars, game, stale>>
  BY DEF update_game_load
<1>2. game \in Game
  BY <1>1 DEF ClubInv, GameInv
<1>3. to \in Game /\ (~to.on => to.secs = None)
  BY <1>2 DEF patched, Given, Game, Updates
<1>4. /\ patch' \in [Reqs -> [user : Users, from : Game, to : Game] \cup {None}]
      /\ \A q \in Reqs \ {r} : patch'[q] = patch[q]
      /\ patch'[r] = [user |-> u, from |-> game, to |-> to]
  BY <1>1, <1>2, <1>3 DEF ClubInv, GameInv
<1>5. \A q \in Reqs : patch'[q] # None => (patch'[q].to.on <=> patch'[q].to.secs # None)
  <2>1. to.on \in BOOLEAN
    BY <1>3 DEF Game
  <2> QED BY <1>1, <1>3, <1>4, <2>1 DEF ClubInv, GameInv
<1> QED BY <1>1, <1>2, <1>4, <1>5 DEF ClubInv, GameInv, ShotClockAgrees

\* A patch is committed; over the row it had loaded it leaves what it made of it.
LEMMA Patching ==
  ASSUME ClubInv, NEW r \in Reqs, update_game_commit(r)
  PROVE  GameInv'
<1> DEFINE q == patch[r]
<1>1. /\ q # None
      /\ game' = [a \in DOMAIN game |-> IF q.to[a] # q.from[a] THEN q.to[a] ELSE game[a]]
      /\ stale' = (stale \/ game # q.from)
      /\ patch' = [patch EXCEPT ![r] = None]
  BY DEF update_game_commit
<1>2. /\ game \in Game /\ q.to \in Game /\ q.from \in Game
      /\ q.to.on <=> q.to.secs # None
  BY <1>1 DEF ClubInv, GameInv
<1>3. DOMAIN game = {"status", "on", "secs"}
  BY <1>2 DEF Game
<1>4. game' = [status |-> IF q.to.status # q.from.status THEN q.to.status ELSE game.status,
               on |-> IF q.to.on # q.from.on THEN q.to.on ELSE game.on,
               secs |-> IF q.to.secs # q.from.secs THEN q.to.secs ELSE game.secs]
  BY <1>1, <1>3
<1>5. game' \in Game
  BY <1>2, <1>4 DEF Game
<1>6. game = q.from => game'.on = q.to.on /\ game'.secs = q.to.secs
  BY <1>4
<1>7. /\ patch' \in [Reqs -> [user : Users, from : Game, to : Game] \cup {None}]
      /\ \A p \in Reqs : patch'[p] # None => patch'[p] = patch[p]
  BY <1>1 DEF ClubInv, GameInv
<1>8. stale' \in BOOLEAN
  BY <1>1 DEF ClubInv, GameInv
<1>9. ShotClockAgrees'
  BY <1>1, <1>2, <1>6 DEF ShotClockAgrees
<1>10. \A p \in Reqs : patch'[p] # None => (patch'[p].to.on <=> patch'[p].to.secs # None)
  BY <1>7 DEF ClubInv, GameInv
<1> QED BY <1>5, <1>7, <1>8, <1>9, <1>10 DEF GameInv

-----------------------------------------------------------------------------
(* The theorems.                                                           *)

\* The inductive invariant of roster and game holds in every reachable state of
\* every instance.
THEOREM ClubSafe == AllSpec => []ClubInv
<1>1. AllInit => ClubInv
  <2> SUFFICES ASSUME AllInit PROVE ClubInv
    OBVIOUS
  <2>1. TeamInv
    BY TeamInitially DEF AllInit
  <2>2. GameInv
    BY DEF AllInit, GameInit, GameInv, ShotClockAgrees
  <2> QED BY <2>1, <2>2 DEF ClubInv
<1>2. ClubInv /\ [AllNext]_allVars => ClubInv'
  <2> SUFFICES ASSUME ClubInv, [AllNext]_allVars PROVE ClubInv'
    OBVIOUS
  <2>1. ASSUME UNCHANGED gvars PROVE GameInv'
    BY <2>1 DEF gvars, ClubInv, GameInv, ShotClockAgrees
  <2>2. ASSUME UNCHANGED vars PROVE TeamInv'
    BY <2>2, TeamStep DEF ClubInv
  <2>3. CASE Next /\ UNCHANGED gvars
    BY <2>1, <2>3, TeamStep DEF ClubInv
  <2>4. ASSUME NEW u \in Users, NEW secs \in Seconds \cup {None}, create_game(u, secs)
        PROVE  ClubInv'
    BY <2>4, Scheduling
  <2>5. ASSUME NEW r \in Reqs, NEW u \in Users, NEW upd \in Updates, update_game_load(r, u, upd)
        PROVE  ClubInv'
    <3>1. UNCHANGED vars
      BY <2>5 DEF update_game_load, vars
    <3> QED BY <2>2, <2>5, <3>1, Loading DEF ClubInv
  <2>6. ASSUME NEW r \in Reqs, update_game_commit(r) PROVE ClubInv'
    <3>1. UNCHANGED vars
      BY <2>6 DEF update_game_commit
    <3> QED BY <2>2, <2>6, <3>1, Patching DEF ClubInv
  <2>7. CASE UNCHANGED allVars
    <3>1. UNCHANGED vars /\ UNCHANGED gvars
      BY <2>7 DEF allVars
    <3> QED BY <2>1, <2>2, <3>1 DEF ClubInv
  <2> QED BY <2>3, <2>4, <2>5, <2>6, <2>7 DEF AllNext, GameNext
<1> QED BY <1>1, <1>2, PTL DEF AllSpec

\* An invite seats as many people as it counts and no more than it may, and
\* every seat and number has one holder, for any number of racing joins
\* (join_team and the two unique constraints of team_memberships).
THEOREM RosterSafe == AllSpec => []RosterExact
<1>1. ClubInv => RosterExact
  BY DEF ClubInv, TeamInv, GameInv, AllTypeOK, RosterExact
<1> QED BY <1>1, ClubSafe, PTL

\* A head coach who did not found the team rests on an admin or on another head
\* coach, through whatever chain of invites and deletions (create_invite,
\* join_team, delete_my_account).
THEOREM ChainSafe == AllSpec => []HeadCoachChain
<1>1. ClubInv => HeadCoachChain
  BY DEF ClubInv, TeamInv, ChainInv, Authorities, HeadCoachChain
<1> QED BY <1>1, ClubSafe, PTL

\* A deleted account shows on no roster unless it took its seat after the
\* deletion had read the memberships (delete_my_account).
THEOREM RosterForgets == AllSpec => []DeletedLeavesRosters
<1>1. ClubInv => DeletedLeavesRosters
  BY DEF ClubInv, TeamInv, LeavingInv, Roster, DeletedLeavesRosters
<1> QED BY <1>1, ClubSafe, PTL

\* The shot clock agrees with its seconds through any sequence of partial
\* updates, as long as none is committed over a row it had not loaded
\* (update_game).
THEOREM ClockSafe == AllSpec => []ShotClockAgrees
<1>1. ClubInv => ShotClockAgrees
  BY DEF ClubInv, GameInv
<1> QED BY <1>1, ClubSafe, PTL
=============================================================================
