---------------------------- MODULE MembershipProofs ----------------------------
(*****************************************************************************)
(* Proofs about a community, for every set of users, rooms, communities and   *)
(* channels and any number of requests in flight: its rows (Membership), its  *)
(* rooms (Rooms), what the dashboard shows and offers of it (Dashboard) and   *)
(* the way in by an invitation link (Arrival).                                *)
(*****************************************************************************)
EXTENDS MCCommunity, TLAPS

LEMMA RankFacts ==
  /\ Rank("owner") = 4 /\ Rank("admin") = 3 /\ Rank("moderator") = 2 /\ Rank("member") = 1
  /\ \A own \in ServerRole : Rank(own) \in 1..4 /\ (Rank(own) = 4 => own = "owner")
  BY DEF Rank, ServerRole

LEMMA IdleFacts == Idle \in Request /\ Sound(Idle) /\ Idle.pc = "idle"
  BY OwnerAssumption DEF Idle, Request, Steps, ServerRole, Sound

(* A request's own move to another step. *)
LEMMA GotoFacts ==
  ASSUME TypeOK, NEW r \in Requests, NEW step \in Steps, Goto(r, step)
  PROVE  \E q \in Request :
           /\ req' = [req EXCEPT ![r] = q]
           /\ q.pc = step /\ q.actor = req[r].actor /\ q.target = req[r].target
           /\ q.role = req[r].role /\ q.rank = req[r].rank
  <1> DEFINE q == [req[r] EXCEPT !.pc = step]
  <1>1. req[r] \in Request /\ req \in [Requests -> Request]
    BY DEF TypeOK
  <1>2. q \in Request
    BY <1>1 DEF Request
  <1>3. /\ q.pc = step /\ q.actor = req[r].actor /\ q.target = req[r].target
        /\ q.role = req[r].role /\ q.rank = req[r].rank
    BY <1>1 DEF Request
  <1>4. req' = [req EXCEPT ![r] = q]
    BY <1>1 DEF Goto
  <1> QED
    BY <1>2, <1>3, <1>4

(* The owner's answer is "owner", another user's the roles of their rows. *)
LEMMA RoleFacts ==
  ASSUME IndInv, NEW u \in Users
  PROVE  /\ GetServerRole(u) \subseteq ServerRole
         /\ "owner" \in GetServerRole(u) => u = Owner
         /\ GetServerRole(Owner) = {"owner"}
         /\ IsServerMember(Owner)
  BY DEF IndInv, TypeOK, OwnerSafe, GetServerRole, IsServerMember, ServerRole

LEMMA InitInd == Init => IndInv
  <1> SUFFICES ASSUME Init PROVE IndInv
    OBVIOUS
  <1> QED
    BY IdleFacts, OwnerAssumption DEF Init, IndInv, TypeOK, OwnerSafe, Phases

(* Every request that begins does so on grounds that stay true. *)
LEMMA BeginSound ==
  ASSUME IndInv, NEW r \in Requests, NEW u \in Users, Begin(r, u)
  PROVE  \E q \in Request : req' = [req EXCEPT ![r] = q] /\ Sound(q)
  <1> DEFINE Goal == \E q \in Request : req' = [req EXCEPT ![r] = q] /\ Sound(q)
  <1>0. Idle \in Request /\ Idle.role = "member"
    BY IdleFacts DEF Idle
  <1>1. codes \in 0..MaxCodes
    BY DEF IndInv, TypeOK
  <1>2. CASE Join(r, u)
    <2> DEFINE q == [Idle EXCEPT !.pc = "joinBan", !.actor = u]
    <2>1. q \in Request /\ q.pc = "joinBan" /\ q.actor = u /\ q.role = "member"
      BY <1>0, <1>1 DEF Request, Steps
    <2>2. u # Owner
      BY <1>2, RoleFacts DEF Join
    <2>3. req' = [req EXCEPT ![r] = q]
      BY <1>2 DEF Join
    <2> HIDE DEF q
    <2> QED
      BY <2>1, <2>2, <2>3 DEF Sound
  <1>3. CASE JoinByInvite(r, u)
    <2> DEFINE q == [Idle EXCEPT !.pc = "inviteMember", !.actor = u]
    <2>1. q \in Request /\ q.pc = "inviteMember" /\ q.actor = u /\ q.role = "member"
      BY <1>0, <1>1 DEF Request, Steps
    <2>3. req' = [req EXCEPT ![r] = q]
      BY <1>3 DEF JoinByInvite
    <2> HIDE DEF q
    <2> QED
      BY <2>1, <2>3 DEF Sound
  <1>4. CASE Leave(r, u)
    <2> DEFINE q == [Idle EXCEPT !.pc = "leaving", !.actor = u]
    <2>1. q \in Request /\ q.pc = "leaving" /\ q.actor = u /\ q.role = "member"
      BY <1>0, <1>1 DEF Request, Steps
    <2>2. u # Owner
      BY <1>4 DEF Leave
    <2>3. req' = [req EXCEPT ![r] = q]
      BY <1>4 DEF Leave
    <2> HIDE DEF q
    <2> QED
      BY <2>1, <2>2, <2>3 DEF Sound
  <1>5. CASE InviteRead(r, u)
    <2> DEFINE q == [Idle EXCEPT !.pc = "codeRole", !.actor = u, !.code = codes]
    <2>1. q \in Request /\ q.pc = "codeRole" /\ q.actor = u /\ q.role = "member"
      BY <1>0, <1>1 DEF Request, Steps
    <2>3. req' = [req EXCEPT ![r] = q]
      BY <1>5 DEF InviteRead
    <2> HIDE DEF q
    <2> QED
      BY <2>1, <2>3 DEF Sound
  <1>6. ASSUME NEW t \in Users, Unban(r, u, t) PROVE Goal
    <2> DEFINE q == [Idle EXCEPT !.pc = "unban", !.actor = u, !.target = t]
    <2>1. q \in Request /\ q.pc = "unban" /\ q.role = "member"
      BY <1>0 DEF Request, Steps
    <2>2. req' = [req EXCEPT ![r] = q]
      BY <1>6 DEF Unban
    <2> HIDE DEF q
    <2> QED
      BY <2>1, <2>2 DEF Sound
  <1>7. ASSUME NEW t \in Users, NEW kind \in {"role", "kick", "ban"}, NEW granted \in ServerRole \ {"owner"},
               AuthorityActor(r, kind, u, t, granted)
        PROVE  Goal
    <2>1. PICK own \in AtLeast(u, "moderator") :
            req' = [req EXCEPT ![r] = [Idle EXCEPT !.pc = "target", !.kind = kind, !.actor = u,
                                       !.target = t, !.role = granted, !.rank = Rank(own)]]
      BY <1>7 DEF AuthorityActor
    <2>2. own \in ServerRole /\ (own = "owner" => u = Owner)
      BY <2>1, RoleFacts DEF AtLeast
    <2> DEFINE n == Rank(own)
    <2>3. n \in 0..4 /\ (n = 4 => u = Owner)
      BY <2>2, RankFacts
    <2> HIDE DEF n
    <2> DEFINE q == [Idle EXCEPT !.pc = "target", !.kind = kind, !.actor = u,
                                 !.target = t, !.role = granted, !.rank = n]
    <2>4. q \in Request /\ q.pc = "target" /\ q.actor = u /\ q.role = granted /\ q.rank = n
      BY <1>0, <2>3 DEF Request, Steps
    <2>5. req' = [req EXCEPT ![r] = q]
      BY <2>1 DEF n
    <2> HIDE DEF q
    <2> QED
      BY <2>3, <2>4, <2>5 DEF Sound
  <1>8. "member" \in ServerRole \ {"owner"}
    BY DEF ServerRole
  <1> QED
    BY <1>2, <1>3, <1>4, <1>5, <1>6, <1>7, <1>8 DEF Begin

(* A request that goes on keeps its grounds, checks included. *)
LEMMA ContinueSound ==
  ASSUME IndInv, NEW r \in Requests, Continue(r) \/ Abort(r)
  PROVE  \E q \in Request : req' = [req EXCEPT ![r] = q] /\ Sound(q)
  <1> DEFINE Goal == \E q \in Request : req' = [req EXCEPT ![r] = q] /\ Sound(q)
  <1>1. TypeOK /\ Sound(req[r]) /\ req[r] \in Request
    BY DEF IndInv, TypeOK
  <1>2. ASSUME End(r) PROVE Goal
    BY <1>2, IdleFacts DEF End
  <1>3. ASSUME NEW step \in {"joinRooms", "joinEnter", "joinAdd", "remove", "record"}, Goto(r, step),
               step \in {"joinRooms", "joinEnter", "joinAdd"} => req[r].actor # Owner,
               step \in {"remove", "record"} => req[r].target # Owner
        PROVE  Goal
    <2>1. step \in Steps
      BY DEF Steps
    <2> QED
      BY <1>1, <1>3, <2>1, GotoFacts DEF Sound
  <1>4. CASE JoinBanCheck(r)
    BY <1>1, <1>2, <1>3, <1>4 DEF JoinBanCheck, Sound
  <1>5. CASE InviteMemberCheck(r)
    <2>1. req[r].actor \in Users
      BY <1>1 DEF Request
    <2>2. ~IsServerMember(req[r].actor) => req[r].actor # Owner
      BY <2>1, RoleFacts
    <2> QED
      BY <1>2, <1>3, <1>5, <2>2 DEF InviteMemberCheck
  <1>6. CASE JoinInvite(r) \/ JoinEnter(r)
    BY <1>1, <1>2, <1>3, <1>6 DEF JoinInvite, JoinEnter, Sound
  <1>7. CASE AuthorityTarget(r)
    <2>1. ASSUME NEW theirs \in GetServerRole(req[r].target), req[r].rank > Rank(theirs)
          PROVE  req[r].target # Owner
      <3>1. req[r].rank \in 0..4 /\ req[r].target \in Users
        BY <1>1 DEF Request
      <3> QED
        BY <2>1, <3>1, RoleFacts, RankFacts
    <2>2. ASSUME Goto(r, "rooms"), req[r].target # Owner PROVE Goal
      <3>1. "rooms" \in Steps
        BY DEF Steps
      <3> QED
        BY <1>1, <2>2, <3>1, GotoFacts DEF Sound
    <2>3. ASSUME Goto(r, "role"), req[r].target # Owner, req[r].pc = "target", Rank(req[r].role) < req[r].rank
          PROVE  Goal
      <3>1. "role" \in Steps
        BY DEF Steps
      <3>2. PICK q \in Request :
              /\ req' = [req EXCEPT ![r] = q]
              /\ q.pc = "role" /\ q.actor = req[r].actor /\ q.target = req[r].target
              /\ q.role = req[r].role /\ q.rank = req[r].rank
        BY <1>1, <2>3, <3>1, GotoFacts
      <3>3. Sound(q)
        BY <1>1, <2>3, <3>2 DEF Sound
      <3> QED
        BY <3>2, <3>3
    <2> QED
      BY <1>2, <1>7, <2>1, <2>2, <2>3 DEF AuthorityTarget
  <1>8. CASE RemoveFromRooms(r) \/ RemoveServerMember(r)
    BY <1>1, <1>2, <1>3, <1>8 DEF RemoveFromRooms, RemoveServerMember, Sound
  <1>9. CASE InviteRole(r)
    <2>1. ASSUME Goto(r, "codeSave") PROVE Goal
      <3>1. "codeSave" \in Steps
        BY DEF Steps
      <3> QED
        BY <1>1, <2>1, <3>1, GotoFacts DEF Sound
    <2> QED
      BY <1>2, <1>9, <2>1 DEF InviteRole
  <1> QED
    BY <1>2, <1>4, <1>5, <1>6, <1>7, <1>8, <1>9
    DEF Continue, Abort, AddServerMember, LeaveRemove, SetRole, BanServerMember, UnbanServerMember, SetServerInviteCode

(* What a request does to the tables. *)
LEMMA RequestTables ==
  ASSUME IndInv, NEW r \in Requests,
         (\E u \in Users : Begin(r, u)) \/ Continue(r) \/ Abort(r)
  PROVE  /\ phase' = phase
         /\ \/ members' = members
            \/ \E u \in Users \ {Owner} :
                 \/ members' = [members EXCEPT ![u] = {}]
                 \/ /\ req[r].pc = "joinAdd" /\ req[r].actor = u
                    /\ members' = [members EXCEPT ![u] = @ \union {"member"}]
                 \/ /\ req[r].pc = "role" /\ req[r].target = u
                    /\ members[u] # {} /\ members' = [members EXCEPT ![u] = {req[r].role}]
         /\ \/ bans' = bans
            \/ \E u \in Users : bans' = bans \ {u}
            \/ \E u \in Users \ {Owner} : bans' = bans \union {u}
         /\ codes' \in 0..MaxCodes
         /\ space' \in [Users -> {"out", "invited", "in", "banned"}]
  <1>1. req[r] \in Request /\ Sound(req[r]) /\ TypeOK
    BY DEF IndInv, TypeOK
  <1>2. req[r].actor \in Users /\ req[r].target \in Users
    BY <1>1 DEF Request
  <1>3. CASE UNCHANGED <<phase, members, bans, space, codes>>
    BY <1>1, <1>3 DEF TypeOK
  <1>4. ASSUME NEW u \in Users, Leave(r, u)
        PROVE  /\ UNCHANGED <<phase, members, bans, codes>>
               /\ space' \in [Users -> {"out", "invited", "in", "banned"}]
    BY <1>1, <1>4 DEF Leave, TypeOK
  <1>5. CASE JoinInvite(r) \/ JoinEnter(r) \/ RemoveFromRooms(r)
    BY <1>1, <1>2, <1>5 DEF JoinInvite, JoinEnter, RemoveFromRooms, TypeOK
  <1>6. CASE AddServerMember(r)
    BY <1>1, <1>2, <1>6 DEF AddServerMember, Sound, TypeOK
  <1>7. CASE LeaveRemove(r)
    BY <1>1, <1>2, <1>7 DEF LeaveRemove, Sound, TypeOK
  <1>8. CASE SetRole(r)
    <2>1. req[r].target # Owner /\ req[r].pc = "role"
      BY <1>1, <1>8 DEF SetRole, Sound
    <2>2. CASE members[req[r].target] = {}
      <3>1. members' = [members EXCEPT ![req[r].target] = {}]
        BY <1>8, <2>2 DEF SetRole
      <3> QED
        BY <1>1, <1>2, <1>8, <2>1, <3>1 DEF SetRole, TypeOK
    <2>3. CASE members[req[r].target] # {}
      <3>1. members' = [members EXCEPT ![req[r].target] = {req[r].role}]
        BY <1>8, <2>3 DEF SetRole
      <3> QED
        BY <1>1, <1>2, <1>8, <2>1, <2>3, <3>1 DEF SetRole, TypeOK
    <2> QED
      BY <2>2, <2>3
  <1>9. CASE RemoveServerMember(r)
    BY <1>1, <1>2, <1>9 DEF RemoveServerMember, Sound, TypeOK
  <1>10. CASE BanServerMember(r)
    BY <1>1, <1>2, <1>10 DEF BanServerMember, Sound, TypeOK
  <1>11. CASE UnbanServerMember(r)
    BY <1>1, <1>2, <1>11 DEF UnbanServerMember, TypeOK
  <1>12. CASE SetServerInviteCode(r)
    <2>1. codes' \in 0..MaxCodes
      BY <1>1, <1>12, OwnerAssumption DEF SetServerInviteCode, TypeOK
    <2> QED
      BY <1>1, <1>12, <2>1 DEF SetServerInviteCode, TypeOK
  <1>13. ASSUME NEW u \in Users, Begin(r, u), ~Leave(r, u)
         PROVE  UNCHANGED <<phase, members, bans, space, codes>>
    BY <1>13 DEF Begin, Join, JoinByInvite, InviteRead, Unban, AuthorityActor
  <1>14. CASE JoinBanCheck(r) \/ InviteMemberCheck(r) \/ AuthorityTarget(r) \/ InviteRole(r) \/ Abort(r)
    BY <1>3, <1>14 DEF JoinBanCheck, InviteMemberCheck, AuthorityTarget, InviteRole, Abort
  <1>15. CASE Continue(r)
    BY <1>5, <1>6, <1>7, <1>8, <1>9, <1>10, <1>11, <1>12, <1>14, <1>15 DEF Continue
  <1>16. CASE \E u \in Users : Begin(r, u)
    BY <1>1, <1>3, <1>4, <1>13, <1>16 DEF TypeOK
  <1> QED
    BY <1>14, <1>15, <1>16

LEMMA NextInd == IndInv /\ [Next]_vars => IndInv'
  <1> SUFFICES ASSUME IndInv, [Next]_vars PROVE IndInv'
    OBVIOUS
  <1>1. TypeOK /\ OwnerSafe
    BY DEF IndInv
  <1>2. CASE Create
    <2>1. UNCHANGED <<bans, codes, req>>
      BY <1>2 DEF Create, CreateServer, CreateOwner, CreateGeneral, CreateAborts
    <2>2. phase' \in Phases /\ space' \in [Users -> {"out", "invited", "in", "banned"}]
      BY <1>1, <1>2, OwnerAssumption
      DEF Create, CreateServer, CreateOwner, CreateGeneral, CreateAborts, TypeOK, Phases
    <2>3. /\ members' \in [Users -> SUBSET ServerRole]
          /\ \A u \in Users \ {Owner} : members'[u] = members[u]
          /\ IF phase' \in {"owned", "done", "stuckOwned"} THEN members'[Owner] = {"owner"} ELSE members'[Owner] = {}
      BY <1>1, <1>2, OwnerAssumption
      DEF Create, CreateServer, CreateOwner, CreateGeneral, CreateAborts, TypeOK, ServerRole, OwnerSafe, IndInv
    <2> QED
      BY <2>1, <2>2, <2>3 DEF IndInv, TypeOK, OwnerSafe
  <1>3. ASSUME NEW r \in Requests, (\E u \in Users : Begin(r, u)) \/ Continue(r) \/ Abort(r)
        PROVE  IndInv'
    <2>1. PICK q \in Request : req' = [req EXCEPT ![r] = q] /\ Sound(q)
      BY <1>3, BeginSound, ContinueSound
    <2>2. req' \in [Requests -> Request] /\ \A s \in Requests : Sound(req'[s])
      BY <1>1, <2>1 DEF IndInv, TypeOK
    <2>3. req[r].role # "owner" /\ req[r].role \in ServerRole
      BY <1>1 DEF IndInv, TypeOK, Request, Sound
    <2>4. /\ members' \in [Users -> SUBSET ServerRole]
          /\ members'[Owner] = members[Owner]
          /\ \A u \in Users \ {Owner} : "owner" \notin members'[u]
      <3>1. CASE members' = members
        BY <1>1, <3>1 DEF TypeOK, OwnerSafe
      <3>2. ASSUME NEW u \in Users \ {Owner}, NEW roles \in SUBSET ServerRole, "owner" \notin roles,
                   members' = [members EXCEPT ![u] = roles]
            PROVE  <2>4!1 /\ <2>4!2 /\ <2>4!3
        BY <1>1, <3>2, OwnerAssumption DEF TypeOK, OwnerSafe
      <3>3. \A u \in Users \ {Owner} :
              members[u] \union {"member"} \in SUBSET ServerRole /\ "owner" \notin members[u] \union {"member"}
        BY <1>1 DEF TypeOK, OwnerSafe, ServerRole
      <3> QED
        BY <1>3, <2>3, <3>1, <3>2, <3>3, RequestTables
    <2>5. bans' \subseteq Users /\ Owner \notin bans' /\ phase' = phase /\ codes' \in 0..MaxCodes
          /\ space' \in [Users -> {"out", "invited", "in", "banned"}]
      BY <1>1, <1>3, RequestTables DEF TypeOK, OwnerSafe
    <2> QED
      BY <1>1, <2>2, <2>4, <2>5 DEF IndInv, TypeOK, OwnerSafe
  <1>4. CASE UNCHANGED vars
    BY <1>4 DEF vars, IndInv, TypeOK, OwnerSafe
  <1> QED
    BY <1>2, <1>3, <1>4 DEF Next

(* The inductive invariant: besides the tables, what a request has checked is  *)
(* still true of it, because ownership never moves.                            *)
THEOREM IndInvHolds == Spec => []IndInv
  BY InitInd, NextInd, PTL DEF Spec

(* Every variable keeps its type. *)
THEOREM TypesHold == Spec => []TypeOK
  <1>1. IndInv => TypeOK
    BY DEF IndInv
  <1> QED
    BY <1>1, IndInvHolds, PTL

(* The owner is never banned nor loses the owner's row, and nobody else gets   *)
(* one, whatever interleaves.                                                  *)
THEOREM OwnerSafeHolds == Spec => []OwnerSafe
  <1>1. IndInv => OwnerSafe
    BY DEF IndInv
  <1> QED
    BY <1>1, IndInvHolds, PTL

(* A step of the members table: who it is about, and by whom. *)
LEMMA MembersStep ==
  ASSUME IndInv, [Next]_vars, NEW u \in Users, u # Owner, members'[u] # members[u]
  PROVE  \E r \in Requests :
           /\ (\E v \in Users : Begin(r, v)) \/ Continue(r) \/ Abort(r)
           /\ \/ members'[u] = {}
              \/ /\ req[r].pc = "joinAdd" /\ req[r].actor = u
                 /\ members'[u] = members[u] \union {"member"}
              \/ /\ req[r].pc = "role" /\ req[r].target = u
                 /\ members[u] # {} /\ members'[u] = {req[r].role}
  <1>1. members \in [Users -> SUBSET ServerRole]
    BY DEF IndInv, TypeOK
  <1>2. ~Create /\ ~UNCHANGED vars
    BY <1>1 DEF Create, CreateServer, CreateOwner, CreateGeneral, CreateAborts, vars
  <1>3. PICK r \in Requests : (\E v \in Users : Begin(r, v)) \/ Continue(r) \/ Abort(r)
    BY <1>2 DEF Next
  <1> QED
    BY <1>1, <1>3, RequestTables

(* Whoever was removed comes back as a plain member. *)
THEOREM ReturnsAsMemberHolds == Spec => ReturnsAsMember
  <1>1. IndInv /\ [Next]_vars =>
          \A u \in Users \ {Owner} : members[u] = {} => members'[u] \subseteq {"member"}
    BY MembersStep
  <1> QED
    BY <1>1, IndInvHolds, PTL DEF Spec, ReturnsAsMember

(* Only the owner hands out admin, to the letter: the request that makes       *)
(* somebody an admin was made by the owner.                                    *)
THEOREM AdminsByOwnerHolds == Spec => AdminsByOwner
  <1> DEFINE ByOwner(u) ==
        \E r \in Requests :
          req[r].pc = "role" /\ req[r].actor = Owner /\ req[r].target = u /\ req'[r] # req[r]
  <1>1. ASSUME IndInv, [Next]_vars, NEW u \in Users, "admin" \in members'[u] \ members[u]
        PROVE  ByOwner(u)
    <2>1. u # Owner
      <3>1. OwnerSafe /\ phase \notin {"owned", "done", "stuckOwned"} => members[Owner] = {}
        BY <1>1 DEF IndInv
      <3>2. IndInv'
        BY <1>1, NextInd
      <3>3. "admin" \notin members'[Owner]
        BY <3>2 DEF IndInv, OwnerSafe
      <3> QED
        BY <1>1, <3>3
    <2>2. PICK r \in Requests :
            /\ (\E v \in Users : Begin(r, v)) \/ Continue(r) \/ Abort(r)
            /\ req[r].pc = "role" /\ req[r].target = u /\ req[r].role = "admin"
      BY <1>1, <2>1, MembersStep
    <2>3. Sound(req[r]) /\ req[r] \in Request
      BY <1>1 DEF IndInv, TypeOK
    <2>4. req[r].rank = 4 /\ req[r].actor = Owner
      BY <2>2, <2>3, RankFacts DEF Sound, Request
    <2>5. End(r)
      BY <2>2
      DEF Begin, Join, JoinByInvite, Leave, InviteRead, Unban, AuthorityActor, Continue, JoinBanCheck,
          InviteMemberCheck, JoinInvite, JoinEnter, AddServerMember, LeaveRemove, AuthorityTarget, SetRole,
          RemoveFromRooms, RemoveServerMember, BanServerMember, UnbanServerMember, InviteRole,
          SetServerInviteCode, Abort
    <2>6. req'[r] # req[r]
      BY <1>1, <2>2, <2>5, IdleFacts DEF End, IndInv, TypeOK
    <2> QED
      BY <2>2, <2>4, <2>6
  <1>2. IndInv /\ [Next]_vars =>
          \A u \in Users : "admin" \in members'[u] \ members[u] => ByOwner(u)
    BY <1>1
  <1> QED
    BY <1>2, IndInvHolds, PTL DEF Spec, AdminsByOwner

(* A ban that caught its target outside keeps it outside until it is lifted.   *)
THEOREM BanIsFinalHolds == Spec => BanIsFinal
  <1> DEFINE Late == {"inviteMember", "joinRooms", "joinEnter", "joinAdd"}
  <1>1. ASSUME IndInv, [Next]_vars, NEW u \in Users, u \in bans, Out(u) PROVE Out(u)'
    <2>1. u # Owner /\ TypeOK /\ \A r \in Requests : req[r].actor = u => req[r].pc \notin Late
      BY <1>1 DEF IndInv, OwnerSafe, Out
    <2>2. members'[u] = {}
      <3>1. members[u] = {}
        BY <1>1 DEF Out
      <3> QED
        BY <1>1, <2>1, <3>1, MembersStep
    <2>3. ASSUME NEW r \in Requests, req'[r].actor = u PROVE req'[r].pc \notin Late
      <3>1. CASE req'[r] = req[r] \/ req'[r] = Idle
        BY <2>1, <2>3, <3>1, IdleFacts
      <3>2. ASSUME NEW s \in Requests, (\E v \in Users : Begin(s, v)) \/ Continue(s) \/ Abort(s), s # r
            PROVE  req'[r] = req[r]
        <4>1. PICK q \in Request : req' = [req EXCEPT ![s] = q]
          BY <1>1, <3>2, BeginSound, ContinueSound
        <4> QED
          BY <2>1, <3>2, <4>1 DEF TypeOK
      <3>3. CASE Create \/ UNCHANGED vars
        <4>1. req' = req
          BY <3>3 DEF Create, CreateServer, CreateOwner, CreateGeneral, CreateAborts, vars
        <4> QED
          BY <3>1, <4>1
      <3>4. ASSUME NEW v \in Users, Begin(r, v) PROVE req'[r].pc \notin Late
        <4>1. CASE JoinByInvite(r, v)
          <5>1. req'[r].actor = v /\ v \notin bans
            BY <2>1, <4>1 DEF JoinByInvite, TypeOK, Idle
          <5> QED
            BY <1>1, <2>3, <5>1
        <4>2. CASE ~JoinByInvite(r, v)
          <5>1. req'[r].pc \in {"joinBan", "leaving", "codeRole", "unban", "target"}
            BY <2>1, <3>4, <4>2
            DEF Begin, Join, Leave, InviteRead, Unban, AuthorityActor, TypeOK, Idle
          <5> QED
            BY <5>1
        <4> QED
          BY <4>1, <4>2
      <3>5. ASSUME Continue(r) \/ Abort(r) PROVE req'[r].pc \notin Late
        <4>1. req[r] \in Request /\ req \in [Requests -> Request]
          BY <2>1 DEF TypeOK
        <4>2. CASE End(r)
          BY <3>1, <4>1, <4>2 DEF End
        <4>3. ASSUME NEW step, Goto(r, step) PROVE req'[r].pc = step /\ req'[r].actor = req[r].actor
          BY <4>1, <4>3 DEF Goto, Request
        <4>4. CASE JoinBanCheck(r)
          BY <1>1, <2>1, <2>3, <4>2, <4>3, <4>4 DEF JoinBanCheck
        <4>5. CASE InviteMemberCheck(r) \/ JoinInvite(r) \/ JoinEnter(r)
          BY <2>1, <2>3, <4>2, <4>3, <4>5 DEF InviteMemberCheck, JoinInvite, JoinEnter
        <4>6. CASE AuthorityTarget(r) \/ RemoveFromRooms(r) \/ RemoveServerMember(r) \/ InviteRole(r)
          BY <4>2, <4>3, <4>6 DEF AuthorityTarget, RemoveFromRooms, RemoveServerMember, InviteRole
        <4> QED
          BY <3>5, <4>2, <4>4, <4>5, <4>6
          DEF Continue, Abort, AddServerMember, LeaveRemove, SetRole, BanServerMember, UnbanServerMember,
              SetServerInviteCode
      <3> QED
        BY <1>1, <3>1, <3>2, <3>3, <3>4, <3>5 DEF Next
    <2> QED
      BY <2>2, <2>3 DEF Out
  <1>2. IndInv /\ [Next]_vars => \A u \in Users : u \in bans /\ Out(u) => u \notin bans' \/ Out(u)'
    BY <1>1
  <1> QED
    BY <1>2, IndInvHolds, PTL DEF Spec, BanIsFinal

-------------------------------------------------------------------------------
(* Rooms *)

Roles == {"none", "member", "moderator", "admin", "owner"}
Grades == {0, 50, 75, 100}
Ids == Matrix!ServerRoomIds

Call == [at : Matrix!Steps \union Matrix!Rooms,
         kind : {"none", "channel", "join", "leave", "role", "kick", "ban"},
         actor : Users, target : Users, role : Roles, rooms : SUBSET Matrix!Rooms,
         read : [Users -> Grades], raced : BOOLEAN, clean : BOOLEAN]

RoomTypes ==
  /\ role \in [Users -> Roles] /\ maker \in [Texts -> Users \union {Nobody}] /\ listed \subseteq Texts
  /\ levels \in [Matrix!Rooms -> [Users -> Grades]]
  /\ roomCall \in [Servers -> Call]

Sets(q, u) == roomCall[q].kind = "role" /\ roomCall[q].target = u

(* The request has the room of the user's level still to come. *)
Ahead(q, room) == roomCall[q].at \in {"begun", "list"} \/ room \in roomCall[q].rooms

(* A request goes through rooms that are listed, and what it has read of one is what is       *)
(* there unless it was overtaken.                                                      *)
CallIsRight(c) ==
  /\ c.kind = "role" =>
       /\ c.at \in {"begun", "list", "rooms"} \union Ids /\ c.rooms \subseteq Ids /\ c.role # "none"
       /\ c.at \in Ids => c.at \in c.rooms /\ (c.raced = FALSE => c.read = levels[c.at])
  /\ c.kind = "channel" /\ c.at = "made" => \A t \in c.rooms : t \in Texts /\ maker[t] # Nobody

(* A clean request is the only one that sets its target's role, and the role it wrote       *)
(* stands.                                                                          *)
CleanIsAlone(q) ==
  roomCall[q].kind = "role" /\ roomCall[q].clean = TRUE =>
    /\ \A p \in Servers : Sets(p, roomCall[q].target) => p = q
    /\ role[roomCall[q].target] # "none"
    /\ roomCall[q].at # "begun" => role[roomCall[q].target] = roomCall[q].role

(* A level is adrift, or a request is about to write it, or it is that of the role.          *)
LevelIsRight(room, u) ==
  \/ <<room, u>> \in adrift
  \/ \E q \in Servers : Sets(q, u) /\ Ahead(q, room)
  \/ /\ levels[room][u] = Matrix!POWER_LEVELS[role[u]]
     /\ \A q \in Servers : Sets(q, u) => roomCall[q].clean = TRUE

(* Nobody but the maker has a level in a room that is not listed. *)
UnlistedIsBlank ==
  /\ \A t \in listed : maker[t] # Nobody
  /\ \A room \in Matrix!Rooms \ Ids, u \in Users : <<room, u>> \in adrift \/ levels[room][u] = 0

RoomsInv ==
  /\ RoomTypes
  /\ \A q \in Servers : CallIsRight(roomCall[q]) /\ CleanIsAlone(q)
  /\ UnlistedIsBlank
  /\ \A room \in Ids, u \in Users : LevelIsRight(room, u)

LEMMA RoomsBounds ==
  /\ Owner \in Users /\ Nobody \notin Users /\ General \in Texts /\ Space \notin Texts
  /\ Matrix!Rooms = Texts \union {Space} /\ Space \in Ids
  /\ Matrix!Steps = {"idle", "begun", "made", "list", "rooms"}
  /\ \A room \in Matrix!Rooms : room \notin {"idle", "begun", "made", "list", "rooms"}
  BY PartsAssumption DEF Matrix!RoomsAssumption, Matrix!Rooms, Ids, Matrix!ServerRoomIds, Matrix!Steps

LEMMA LevelFacts ==
  /\ DOMAIN Matrix!Rank = Roles
  /\ Matrix!POWER_LEVELS["none"] = 0 /\ Matrix!POWER_LEVELS["member"] = 0
  /\ \A r \in Roles : Matrix!POWER_LEVELS[r] \in Grades
  /\ \A r \in Roles : Matrix!Rank[r] > Matrix!Rank["member"] \/ r \in {"none", "member"}
  BY DEF Matrix!Rank, Matrix!POWER_LEVELS, Roles, Grades

LEMMA IdsFacts == listed \subseteq Texts => Ids \subseteq Matrix!Rooms
  BY RoomsBounds DEF Ids, Matrix!ServerRoomIds

LEMMA IdleCall ==
  /\ Matrix!Idle \in Call /\ Matrix!Idle.kind = "none" /\ Matrix!Idle.at = "idle"
  /\ Matrix!Idle.clean = TRUE /\ Matrix!Idle.raced = FALSE /\ Matrix!Idle.rooms = {}
  /\ Matrix!Idle.read \in [Users -> Grades]
  BY RoomsBounds DEF Matrix!Idle, Call, Roles, Grades

LEMMA RoomsBegin == Matrix!Init => RoomsInv
  <1> SUFFICES ASSUME Matrix!Init PROVE RoomsInv
    OBVIOUS
  <1>1. role \in [Users -> Roles]
    BY LevelFacts DEF Matrix!Init
  <1>2. /\ maker = [c \in Texts |-> IF c = General THEN Owner ELSE Nobody]
        /\ listed = {General} /\ roomCall = [q \in Servers |-> Matrix!Idle]
        /\ levels = [r \in Matrix!Rooms |-> [u \in Users |->
                       IF r \in {Space, General} THEN Matrix!POWER_LEVELS[role[u]] ELSE 0]]
    BY DEF Matrix!Init
  <1>3. /\ maker \in [Texts -> Users \union {Nobody}] /\ listed \subseteq Texts
        /\ roomCall \in [Servers -> Call] /\ \A q \in Servers : roomCall[q] = Matrix!Idle
    BY <1>2, RoomsBounds, IdleCall
  <1>4. levels \in [Matrix!Rooms -> [Users -> Grades]]
    <2>1. 0 \in Grades /\ \A u \in Users : Matrix!POWER_LEVELS[role[u]] \in Grades
      BY <1>1, LevelFacts DEF Grades
    <2> QED
      BY <1>2, <2>1
  <1>5. Ids = {Space, General}
    BY <1>2 DEF Ids, Matrix!ServerRoomIds
  <1>6. /\ \A room \in Ids, u \in Users : levels[room][u] = Matrix!POWER_LEVELS[role[u]]
        /\ \A room \in Matrix!Rooms \ Ids, u \in Users : levels[room][u] = 0
    BY <1>2, <1>5, RoomsBounds
  <1>7. UnlistedIsBlank
    BY <1>2, <1>6, RoomsBounds DEF UnlistedIsBlank
  <1>8. \A q \in Servers : CallIsRight(roomCall[q]) /\ CleanIsAlone(q)
    BY <1>3, IdleCall DEF CallIsRight, CleanIsAlone
  <1>9. \A room \in Ids, u \in Users : LevelIsRight(room, u)
    BY <1>3, <1>6, IdleCall DEF LevelIsRight, Sets
  <1> QED
    BY <1>1, <1>3, <1>4, <1>7, <1>8, <1>9 DEF RoomsInv, RoomTypes

(* A request that sets no role moves. *)
LEMMA OtherMoves ==
  ASSUME RoomsInv, UNCHANGED <<role, maker, listed, levels, adrift>>,
         NEW q \in Servers, NEW c \in Call, roomCall' = [roomCall EXCEPT ![q] = c],
         roomCall[q].kind # "role", c.kind # "role", c.kind = "channel" => c.at # "made"
  PROVE  RoomsInv'
  <1>1. RoomTypes' /\ Ids' = Ids
    BY DEF RoomsInv, RoomTypes, Ids, Matrix!ServerRoomIds
  <1>2. roomCall'[q] = c /\ \A p \in Servers : p # q => roomCall'[p] = roomCall[p]
    BY DEF RoomsInv, RoomTypes
  <1>3. \A p \in Servers, u \in Users : (Sets(p, u) <=> Sets(p, u)')
    BY <1>2 DEF Sets
  <1>4. \A p \in Servers : CallIsRight(roomCall[p])'
    BY <1>1, <1>2 DEF RoomsInv, CallIsRight
  <1>5. \A p \in Servers : CleanIsAlone(p)'
    BY <1>2 DEF RoomsInv, CleanIsAlone, Sets
  <1>6. UnlistedIsBlank'
    BY <1>1 DEF RoomsInv, UnlistedIsBlank
  <1>7. ASSUME NEW room \in Ids, NEW u \in Users PROVE LevelIsRight(room, u)'
    <2>1. \A p \in Servers : Sets(p, u) => roomCall'[p] = roomCall[p]
      BY <1>2 DEF Sets
    <2> QED
      BY <1>3, <2>1 DEF RoomsInv, LevelIsRight, Ahead
  <1> QED
    BY <1>1, <1>4, <1>5, <1>6, <1>7 DEF RoomsInv

(* A request that sets a role moves, and marks the room it is done with if that went wrong. *)
LEMMA OwnMove ==
  ASSUME RoomsInv, UNCHANGED <<role, maker, listed, levels>>, adrift \subseteq adrift',
         NEW q \in Servers, NEW c \in Call, roomCall' = [roomCall EXCEPT ![q] = c],
         roomCall[q].kind = "role", roomCall[q].at # "begun", c.kind = "role", c.at # "begun",
         c.target = roomCall[q].target, c.role = roomCall[q].role, c.clean = roomCall[q].clean,
         CallIsRight(c),
         \A room \in Ids : Ahead(q, room) =>
           Ahead(q, room)' \/ <<room, c.target>> \in adrift'
  PROVE  RoomsInv'
  <1>1. RoomTypes' /\ Ids' = Ids
    BY DEF RoomsInv, RoomTypes, Ids, Matrix!ServerRoomIds
  <1>2. roomCall'[q] = c /\ \A p \in Servers : p # q => roomCall'[p] = roomCall[p]
    BY DEF RoomsInv, RoomTypes
  <1>3. \A p \in Servers, u \in Users : (Sets(p, u) <=> Sets(p, u)')
    BY <1>2 DEF Sets
  <1>4. \A p \in Servers : CallIsRight(roomCall[p])'
    BY <1>1, <1>2 DEF RoomsInv, CallIsRight
  <1>5. \A p \in Servers : CleanIsAlone(p)'
    BY <1>2 DEF RoomsInv, CleanIsAlone, Sets
  <1>6. UnlistedIsBlank'
    BY <1>1 DEF RoomsInv, UnlistedIsBlank
  <1>7. ASSUME NEW room \in Ids, NEW u \in Users PROVE LevelIsRight(room, u)'
    <2>1. \A p \in Servers : p # q => (Ahead(p, room) <=> Ahead(p, room)')
      BY <1>2 DEF Ahead
    <2>2. \A p \in Servers : roomCall'[p].clean = roomCall[p].clean
      BY <1>2
    <2>3. Sets(q, u) /\ Ahead(q, room) => Ahead(q, room)' \/ <<room, u>> \in adrift'
      BY DEF Sets
    <2> QED
      BY <1>3, <2>1, <2>2, <2>3 DEF RoomsInv, LevelIsRight
  <1> QED
    BY <1>1, <1>4, <1>5, <1>6, <1>7 DEF RoomsInv

(* A request to set a role ends, having marked what it left undone. *)
LEMMA OwnEnd ==
  ASSUME RoomsInv, UNCHANGED <<role, maker, listed, levels>>, adrift \subseteq adrift',
         NEW q \in Servers, roomCall' = [roomCall EXCEPT ![q] = Matrix!Idle],
         roomCall[q].kind = "role",
         \A room \in Ids : Ahead(q, room) => <<room, roomCall[q].target>> \in adrift'
  PROVE  RoomsInv'
  <1>1. RoomTypes' /\ Ids' = Ids
    BY IdleCall DEF RoomsInv, RoomTypes, Ids, Matrix!ServerRoomIds
  <1>2. roomCall'[q].kind = "none" /\ \A p \in Servers : p # q => roomCall'[p] = roomCall[p]
    BY IdleCall DEF RoomsInv, RoomTypes
  <1>3. \A p \in Servers, u \in Users : (Sets(p, u)' <=> p # q /\ Sets(p, u))
    BY <1>2 DEF Sets
  <1>4. \A p \in Servers : CallIsRight(roomCall[p])'
    BY <1>1, <1>2 DEF RoomsInv, CallIsRight
  <1>5. \A p \in Servers : CleanIsAlone(p)'
    BY <1>2 DEF RoomsInv, CleanIsAlone, Sets
  <1>6. UnlistedIsBlank'
    BY <1>1 DEF RoomsInv, UnlistedIsBlank
  <1>7. ASSUME NEW room \in Ids, NEW u \in Users PROVE LevelIsRight(room, u)'
    <2>1. \A p \in Servers : p # q => (Ahead(p, room) <=> Ahead(p, room)') /\ roomCall'[p].clean = roomCall[p].clean
      BY <1>2 DEF Ahead
    <2>2. Sets(q, u) /\ Ahead(q, room) => <<room, u>> \in adrift'
      BY DEF Sets
    <2> QED
      BY <1>3, <2>1, <2>2 DEF RoomsInv, LevelIsRight
  <1> QED
    BY <1>1, <1>4, <1>5, <1>6, <1>7 DEF RoomsInv

LEMMA CallOf ==
  ASSUME RoomsInv, NEW q \in Servers
  PROVE  /\ roomCall \in [Servers -> Call] /\ roomCall[q] \in Call
         /\ roomCall[q].actor \in Users /\ roomCall[q].target \in Users /\ roomCall[q].role \in Roles
         /\ roomCall[q].clean \in BOOLEAN /\ roomCall[q].raced \in BOOLEAN
  BY DEF RoomsInv, RoomTypes, Call

LEMMA EndFacts ==
  ASSUME RoomsInv, NEW q \in Servers, Matrix!End(q)
  PROVE  roomCall' = [roomCall EXCEPT ![q] = Matrix!Idle]
  BY DEF Matrix!End

LEMMA BeginFacts ==
  ASSUME RoomsInv, NEW q \in Servers, NEW actor \in Users, NEW target \in Users,
         NEW kind \in {"channel", "join", "leave", "kick", "ban"}, Matrix!Begin(q, kind, actor, target)
  PROVE  /\ roomCall[q].kind # "role" \/ roomCall[q].at \in Matrix!Steps \ {"begun", "list", "rooms"}
         /\ \E c \in Call : roomCall' = [roomCall EXCEPT ![q] = c] /\ c.kind = kind /\ c.at = "begun"
  <1> DEFINE c == [Matrix!Idle EXCEPT !.at = "begun", !.kind = kind, !.actor = actor, !.target = target]
  <1>1. c \in Call /\ c.kind = kind /\ c.at = "begun"
    BY IdleCall, RoomsBounds DEF Call
  <1>2. roomCall' = [roomCall EXCEPT ![q] = c] /\ roomCall[q].at = "idle"
    BY DEF Matrix!Begin
  <1> QED
    BY <1>1, <1>2, RoomsBounds

(* A slot that is free serves no request. *)
LEMMA FreeSlot ==
  ASSUME RoomsInv, NEW q \in Servers, roomCall[q].at = "idle"
  PROVE  roomCall[q].kind # "role"
  <1>1. Ids \subseteq Matrix!Rooms
    BY IdsFacts DEF RoomsInv, RoomTypes
  <1> QED
    BY <1>1, RoomsBounds DEF RoomsInv, CallIsRight

LEMMA NextRoomFacts ==
  ASSUME RoomsInv, NEW q \in Servers, NEW room, Matrix!NextRoom(q, room)
  PROVE  \E c \in Call :
           /\ roomCall' = [roomCall EXCEPT ![q] = c]
           /\ c.at = "rooms" /\ c.rooms = roomCall[q].rooms \ {room}
           /\ c.kind = roomCall[q].kind /\ c.target = roomCall[q].target
           /\ c.role = roomCall[q].role /\ c.clean = roomCall[q].clean
  <1> DEFINE c == [roomCall[q] EXCEPT !.rooms = @ \ {room}, !.read = Matrix!Idle.read, !.raced = FALSE,
                                      !.at = "rooms"]
  <1>1. roomCall[q] \in Call /\ roomCall \in [Servers -> Call]
    BY CallOf
  <1>2. /\ c \in Call /\ c.at = "rooms" /\ c.rooms = roomCall[q].rooms \ {room}
        /\ c.kind = roomCall[q].kind /\ c.target = roomCall[q].target
        /\ c.role = roomCall[q].role /\ c.clean = roomCall[q].clean
    BY <1>1, IdleCall, RoomsBounds DEF Call
  <1>3. roomCall' = [roomCall EXCEPT ![q] = c]
    BY <1>1 DEF Matrix!NextRoom
  <1> QED
    BY <1>2, <1>3

LEMMA RoomsStay ==
  ASSUME RoomsInv, UNCHANGED <<role, maker, listed, levels, roomCall, adrift>>
  PROVE  RoomsInv'
  BY DEF RoomsInv, RoomTypes, CallIsRight, CleanIsAlone, UnlistedIsBlank, LevelIsRight, Sets, Ahead, Ids,
         Matrix!ServerRoomIds

(* Whoever enters, leaves or is removed changes no level. *)
LEMMA PeopleMove ==
  ASSUME RoomsInv, NEW q \in Servers,
         \/ Matrix!JoinSpace(q)
         \/ Matrix!ListRooms(q) /\ roomCall[q].kind # "role"
         \/ \E room \in Matrix!Rooms :
              Matrix!JoinRoom(q, room) \/ Matrix!LeaveRoom(q, room) \/ Matrix!RemoveFromRoom(q, room)
         \/ \E u \in Users : Matrix!CreateChannel(q, u) \/ Matrix!Join(q, u) \/ Matrix!Leave(q, u)
         \/ \E u, v \in Users : \E kind \in {"kick", "ban"} : Matrix!Remove(q, kind, u, v)
         \/ Matrix!Abort(q) /\ roomCall[q].kind # "role"
  PROVE  RoomsInv'
  <1>1. UNCHANGED <<role, maker, listed, levels, adrift>>
    BY DEF Matrix!JoinSpace, Matrix!ListRooms, Matrix!JoinRoom, Matrix!LeaveRoom, Matrix!RemoveFromRoom,
           Matrix!CreateChannel, Matrix!Join, Matrix!Leave, Matrix!Remove, Matrix!Abort, Matrix!app, Matrix!matrix
  <1>2. ASSUME NEW u \in Users, NEW v \in Users, NEW kind \in {"channel", "join", "leave", "kick", "ban"},
               Matrix!Begin(q, kind, u, v)
        PROVE  RoomsInv'
    <2>1. roomCall[q].kind # "role"
      BY <1>2, FreeSlot DEF Matrix!Begin
    <2>2. PICK c \in Call : roomCall' = [roomCall EXCEPT ![q] = c] /\ c.kind = kind /\ c.at = "begun"
      BY <1>2, BeginFacts
    <2> QED
      BY <1>1, <2>1, <2>2, OtherMoves
  <1>3. ASSUME NEW room, Matrix!NextRoom(q, room), roomCall[q].kind # "role" PROVE RoomsInv'
    <2>1. PICK c \in Call : /\ roomCall' = [roomCall EXCEPT ![q] = c]
                            /\ c.at = "rooms" /\ c.kind = roomCall[q].kind
      BY <1>3, NextRoomFacts
    <2> QED
      BY <1>1, <1>3, <2>1, OtherMoves
  <1>4. ASSUME roomCall[q].kind # "role", Matrix!End(q) PROVE RoomsInv'
    BY <1>1, <1>4, EndFacts, IdleCall, OtherMoves
  <1>5. ASSUME roomCall[q].kind # "role", NEW left \in SUBSET Matrix!Rooms,
               roomCall' = [roomCall EXCEPT ![q].at = "rooms", ![q].rooms = left]
        PROVE  RoomsInv'
    <2> DEFINE c == [roomCall[q] EXCEPT !.at = "rooms", !.rooms = left]
    <2>1. roomCall[q] \in Call /\ roomCall \in [Servers -> Call]
      BY CallOf
    <2>2. c \in Call /\ c.kind = roomCall[q].kind /\ c.at = "rooms"
      BY <2>1, RoomsBounds DEF Call
    <2>3. roomCall' = [roomCall EXCEPT ![q] = c]
      BY <1>5, <2>1
    <2> HIDE DEF c
    <2> QED
      BY <1>1, <1>5, <2>2, <2>3, OtherMoves
  <1>6. listed \in SUBSET Matrix!Rooms /\ Ids \in SUBSET Matrix!Rooms
    BY IdsFacts, RoomsBounds DEF RoomsInv, RoomTypes
  <1>7. CASE Matrix!JoinSpace(q)
    BY <1>4, <1>5, <1>6, <1>7 DEF Matrix!JoinSpace
  <1>8. CASE Matrix!ListRooms(q) /\ roomCall[q].kind # "role"
    BY <1>5, <1>6, <1>8 DEF Matrix!ListRooms, Ids
  <1>9. ASSUME NEW room \in Matrix!Rooms,
               Matrix!JoinRoom(q, room) \/ Matrix!LeaveRoom(q, room) \/ Matrix!RemoveFromRoom(q, room)
        PROVE  RoomsInv'
    BY <1>3, <1>9 DEF Matrix!JoinRoom, Matrix!LeaveRoom, Matrix!RemoveFromRoom
  <1>10. ASSUME NEW u \in Users, Matrix!CreateChannel(q, u) \/ Matrix!Join(q, u) \/ Matrix!Leave(q, u)
         PROVE  RoomsInv'
    BY <1>2, <1>10 DEF Matrix!CreateChannel, Matrix!Join, Matrix!Leave
  <1>11. ASSUME NEW u \in Users, NEW v \in Users, NEW kind \in {"kick", "ban"}, Matrix!Remove(q, kind, u, v)
         PROVE  RoomsInv'
    BY <1>2, <1>11 DEF Matrix!Remove
  <1>12. CASE Matrix!Abort(q) /\ roomCall[q].kind # "role"
    BY <1>4, <1>12 DEF Matrix!Abort
  <1> QED
    BY <1>7, <1>8, <1>9, <1>10, <1>11, <1>12

(* A member's level is that of a stranger. *)
LEMMA AddServerMemberStep ==
  ASSUME RoomsInv, NEW q \in Servers, Matrix!AddServerMember(q)
  PROVE  RoomsInv'
  <1> PICK u : u = roomCall[q].actor
    OBVIOUS
  <1>1. /\ u \in Users /\ roomCall[q].kind = "join" /\ UNCHANGED <<maker, listed, levels, adrift>>
        /\ roomCall' = [roomCall EXCEPT ![q] = Matrix!Idle]
        /\ role' = [role EXCEPT ![u] = IF @ = "none" THEN "member" ELSE @]
    BY CallOf DEF Matrix!AddServerMember, Matrix!End, Matrix!matrix
  <1>2. RoomTypes' /\ Ids' = Ids
    BY <1>1, IdleCall DEF RoomsInv, RoomTypes, Ids, Matrix!ServerRoomIds, Roles
  <1>3. /\ roomCall'[q].kind = "none" /\ \A p \in Servers : p # q => roomCall'[p] = roomCall[p]
        /\ \A v \in Users : role'[v] = role[v] \/ (role[v] = "none" /\ role'[v] = "member")
    BY <1>1, IdleCall DEF RoomsInv, RoomTypes
  <1>4. \A p \in Servers, v \in Users : (Sets(p, v) <=> Sets(p, v)')
    BY <1>1, <1>3 DEF Sets
  <1>5. \A p \in Servers : CallIsRight(roomCall[p])'
    BY <1>1, <1>2, <1>3 DEF RoomsInv, CallIsRight
  <1>6. ASSUME NEW p \in Servers PROVE CleanIsAlone(p)'
    <2>1. roomCall[p].target \in Users
      BY CallOf
    <2> QED
      BY <1>1, <1>3, <2>1 DEF RoomsInv, CleanIsAlone, Sets
  <1>7. UnlistedIsBlank'
    BY <1>1, <1>2 DEF RoomsInv, UnlistedIsBlank
  <1>8. ASSUME NEW room \in Ids, NEW v \in Users PROVE LevelIsRight(room, v)'
    <2>1. \A p \in Servers : Sets(p, v) => roomCall'[p] = roomCall[p]
      BY <1>1, <1>3 DEF Sets
    <2>2. Matrix!POWER_LEVELS[role'[v]] = Matrix!POWER_LEVELS[role[v]]
      BY <1>3, LevelFacts
    <2> QED
      BY <1>1, <1>4, <2>1, <2>2 DEF RoomsInv, LevelIsRight, Ahead
  <1> QED
    BY <1>2, <1>5, <1>6, <1>7, <1>8 DEF RoomsInv

(* Nothing is known of the levels of a room that is new. *)
LEMMA CreateChannelRoomStep ==
  ASSUME RoomsInv, NEW q \in Servers, Matrix!CreateChannelRoom(q)
  PROVE  RoomsInv'
  <1> PICK actor : actor = roomCall[q].actor
    OBVIOUS
  <1>1. PICK t \in Texts :
          /\ maker[t] = Nobody /\ maker' = [maker EXCEPT ![t] = actor]
          /\ levels' = [levels EXCEPT ![t][actor] = 100]
          /\ \/ roomCall' = [roomCall EXCEPT ![q].at = "made", ![q].rooms = {t}]
             \/ roomCall' = [roomCall EXCEPT ![q] = Matrix!Idle]
          /\ adrift \subseteq adrift' /\ <<t, actor>> \in adrift'
    <2>1. PICK t \in Texts :
            /\ maker[t] = Nobody /\ maker' = [maker EXCEPT ![t] = actor]
            /\ levels' = [levels EXCEPT ![t][actor] = 100]
            /\ IF Matrix!In(actor, Space) /\ levels[Space][actor] >= 50
               THEN roomCall' = [roomCall EXCEPT ![q].at = "made", ![q].rooms = {t}] ELSE Matrix!End(q)
            /\ adrift' = adrift \union {<<t, u>> : u \in {v \in Users :
                           v = actor \/ Matrix!Rank[role[v]] > Matrix!Rank["member"] \/ Matrix!Setting(v) # {}}}
      BY DEF Matrix!CreateChannelRoom
    <2>2. actor \in Users
      BY CallOf
    <2> QED
      BY <2>1, <2>2 DEF Matrix!End
  <1>2. /\ UNCHANGED <<role, listed>> /\ roomCall[q].kind = "channel" /\ actor \in Users
        /\ actor # Nobody
    BY CallOf, RoomsBounds DEF Matrix!CreateChannelRoom, Matrix!app
  <1>3. PICK c \in Call : /\ roomCall' = [roomCall EXCEPT ![q] = c] /\ c.kind # "role"
                          /\ c.kind = "channel" => c.at = "made" /\ c.rooms = {t}
    <2> DEFINE c == [roomCall[q] EXCEPT !.at = "made", !.rooms = {t}]
    <2>1. roomCall[q] \in Call /\ roomCall \in [Servers -> Call]
      BY CallOf
    <2>2. c \in Call /\ c.kind = "channel" /\ c.at = "made" /\ c.rooms = {t}
      BY <1>2, <2>1, RoomsBounds DEF Call
    <2>3. \/ roomCall' = [roomCall EXCEPT ![q] = c]
          \/ roomCall' = [roomCall EXCEPT ![q] = Matrix!Idle]
      BY <1>1, <2>1
    <2> HIDE DEF c
    <2> QED
      BY <2>2, <2>3, IdleCall
  <1>4. /\ t \notin Ids /\ t \in Matrix!Rooms /\ Ids' = Ids
    BY <1>1, <1>2, RoomsBounds DEF RoomsInv, UnlistedIsBlank, Ids, Matrix!ServerRoomIds
  <1>5. RoomTypes'
    <2>1. levels' \in [Matrix!Rooms -> [Users -> Grades]]
      BY <1>1, <1>2, <1>4 DEF RoomsInv, RoomTypes, Grades
    <2> QED
      BY <1>1, <1>2, <1>3, <2>1 DEF RoomsInv, RoomTypes
  <1>6. /\ \A room \in Matrix!Rooms, u \in Users :
             <<room, u>> \in adrift' \/ (<<room, u>> \notin adrift /\ levels'[room][u] = levels[room][u])
        /\ \A room \in Matrix!Rooms : room # t => levels'[room] = levels[room]
    BY <1>1, <1>2, <1>4 DEF RoomsInv, RoomTypes
  <1>7. roomCall'[q] = c /\ \A p \in Servers : p # q => roomCall'[p] = roomCall[p]
    BY <1>3 DEF RoomsInv, RoomTypes
  <1>8. \A p \in Servers, u \in Users : (Sets(p, u) <=> Sets(p, u)')
    BY <1>2, <1>3, <1>7 DEF Sets
  <1>9. maker'[t] # Nobody /\ \A d \in Texts : maker[d] # Nobody => maker'[d] # Nobody
    BY <1>1, <1>2 DEF RoomsInv, RoomTypes
  <1>10. ASSUME NEW p \in Servers PROVE CallIsRight(roomCall[p])'
    <2>1. CASE p = q
      BY <1>1, <1>3, <1>7, <1>9, <2>1 DEF CallIsRight
    <2>2. CASE p # q
      <3>1. \A room \in Ids : levels'[room] = levels[room]
        BY <1>4, <1>6, IdsFacts DEF RoomsInv, RoomTypes
      <3> QED
        BY <1>4, <1>7, <1>9, <2>2, <3>1 DEF RoomsInv, CallIsRight
    <2> QED
      BY <2>1, <2>2
  <1>11. ASSUME NEW p \in Servers PROVE CleanIsAlone(p)'
    <2>1. roomCall[p].target \in Users
      BY CallOf
    <2> QED
      BY <1>2, <1>3, <1>7, <1>8, <2>1 DEF RoomsInv, CleanIsAlone, Sets
  <1>12. UnlistedIsBlank'
    BY <1>2, <1>4, <1>5, <1>6, <1>9 DEF RoomsInv, RoomTypes, UnlistedIsBlank
  <1>13. ASSUME NEW room \in Ids, NEW u \in Users PROVE LevelIsRight(room, u)'
    <2>1. room \in Matrix!Rooms /\ room # t /\ levels'[room] = levels[room]
      BY <1>4, <1>6, IdsFacts DEF RoomsInv, RoomTypes
    <2>2. \A p \in Servers : Sets(p, u) => roomCall'[p] = roomCall[p]
      BY <1>2, <1>7 DEF Sets
    <2> QED
      BY <1>1, <1>2, <1>8, <2>1, <2>2 DEF RoomsInv, LevelIsRight, Ahead
  <1> QED
    BY <1>4, <1>5, <1>10, <1>11, <1>12, <1>13 DEF RoomsInv

(* Of a room that is listed, the levels are those of plain members, or adrift. *)
LEMMA ListChannelStep ==
  ASSUME RoomsInv, NEW q \in Servers, Matrix!ListChannel(q)
  PROVE  RoomsInv'
  <1> PICK new : new = roomCall[q].rooms
    OBVIOUS
  <1>1. /\ UNCHANGED <<role, maker, levels>> /\ listed' = listed \union new
        /\ roomCall' = [roomCall EXCEPT ![q] = Matrix!Idle] /\ roomCall[q].kind = "channel"
        /\ roomCall[q].at = "made"
        /\ adrift' = adrift \union (new \X {u \in Users :
             Matrix!Rank[role[u]] > Matrix!Rank["member"] \/ Matrix!Setting(u) # {}})
    BY DEF Matrix!ListChannel, Matrix!End, Matrix!app
  <1>2. \A t \in new : t \in Texts /\ maker[t] # Nobody
    BY <1>1 DEF RoomsInv, CallIsRight
  <1>3. RoomTypes' /\ Ids' = Ids \union new
    BY <1>1, <1>2, IdleCall DEF RoomsInv, RoomTypes, Ids, Matrix!ServerRoomIds
  <1>4. /\ Ids \subseteq Matrix!Rooms /\ Ids' \subseteq Matrix!Rooms
        /\ Ids' \intersect {"begun", "list", "rooms"} = {}
    <2>1. Ids \subseteq Matrix!Rooms
      BY IdsFacts DEF RoomsInv, RoomTypes
    <2>2. new \subseteq Matrix!Rooms
      BY <1>2, RoomsBounds
    <2> QED
      BY <1>3, <2>1, <2>2, RoomsBounds
  <1>5. /\ roomCall'[q].kind = "none" /\ \A p \in Servers : p # q => roomCall'[p] = roomCall[p]
    BY <1>1, IdleCall DEF RoomsInv, RoomTypes
  <1>6. \A p \in Servers, u \in Users : (Sets(p, u) <=> Sets(p, u)')
    BY <1>1, <1>5 DEF Sets
  <1>7. ASSUME NEW p \in Servers PROVE CallIsRight(roomCall[p])'
    <2>1. CASE p = q
      BY <1>5, <2>1 DEF CallIsRight
    <2>2. CASE p # q
      BY <1>1, <1>3, <1>4, <1>5, <2>2 DEF RoomsInv, CallIsRight
    <2> QED
      BY <2>1, <2>2
  <1>8. ASSUME NEW p \in Servers PROVE CleanIsAlone(p)'
    <2>1. roomCall[p].target \in Users
      BY CallOf
    <2> QED
      BY <1>1, <1>5, <1>6, <2>1 DEF RoomsInv, CleanIsAlone, Sets
  <1>9. UnlistedIsBlank'
    BY <1>1, <1>2, <1>3 DEF RoomsInv, UnlistedIsBlank
  <1>10. ASSUME NEW room \in Ids', NEW u \in Users PROVE LevelIsRight(room, u)'
    <2>1. \A p \in Servers : Sets(p, u) => roomCall'[p] = roomCall[p]
      BY <1>1, <1>5 DEF Sets
    <2>2. CASE room \in Ids
      BY <1>1, <1>6, <2>1, <2>2 DEF RoomsInv, LevelIsRight, Ahead
    <2>3. CASE room \notin Ids /\ <<room, u>> \in adrift'
      BY <2>3 DEF LevelIsRight
    <2>4. CASE room \notin Ids /\ <<room, u>> \notin adrift'
      <3>1. room \in new /\ room \in Matrix!Rooms /\ <<room, u>> \notin adrift
        BY <1>1, <1>3, <1>4, <2>4
      <3>2. ~(Matrix!Rank[role[u]] > Matrix!Rank["member"]) /\ Matrix!Setting(u) = {}
        BY <1>1, <2>4, <3>1
      <3>3. role[u] \in {"none", "member"}
        BY <3>2, LevelFacts DEF RoomsInv, RoomTypes
      <3>4. levels[room][u] = 0
        BY <2>4, <3>1 DEF RoomsInv, UnlistedIsBlank
      <3>5. \A p \in Servers : ~Sets(p, u)
        BY <3>2 DEF Matrix!Setting, Sets
      <3>6. levels'[room][u] = Matrix!POWER_LEVELS[role'[u]]
        BY <1>1, <3>3, <3>4, LevelFacts
      <3>7. \A p \in Servers : ~Sets(p, u)'
        BY <1>6, <3>5
      <3> QED
        BY <3>6, <3>7 DEF LevelIsRight
    <2> QED
      BY <2>2, <2>3, <2>4
  <1> QED
    BY <1>3, <1>7, <1>8, <1>9, <1>10 DEF RoomsInv

(* What a request for a role makes of those for the same user is that they are not clean, *)
(* and every level of the user is still to come.                                       *)
LEMMA SetRoleStep ==
  ASSUME RoomsInv, NEW q \in Servers, NEW actor \in Users, NEW target \in Users,
         NEW granted \in {"member", "moderator", "admin"}, Matrix!SetRole(q, actor, target, granted)
  PROVE  RoomsInv'
  <1>1. /\ UNCHANGED <<role, maker, listed, levels, adrift>> /\ roomCall[q].at = "idle"
        /\ role[target] # "none"
    BY DEF Matrix!SetRole, Matrix!AuthorityOver, Matrix!app, Matrix!matrix
  <1>2. PICK c \in Call : /\ c.kind = "role" /\ c.target = target /\ c.at = "begun" /\ c.role = granted
                          /\ c.rooms = {} /\ (c.clean = TRUE => Matrix!Setting(target) = {})
                          /\ roomCall'[q] = c
    <2> DEFINE c == [Matrix!Idle EXCEPT !.at = "begun", !.kind = "role", !.actor = actor,
                       !.target = target, !.role = granted, !.clean = Matrix!Setting(target) = {}]
    <2>1. /\ c \in Call /\ c.kind = "role" /\ c.target = target /\ c.at = "begun" /\ c.role = granted
          /\ c.rooms = {}
      BY IdleCall, RoomsBounds DEF Call, Roles
    <2>2. c.clean = TRUE => Matrix!Setting(target) = {}
      BY IdleCall DEF Call
    <2>3. roomCall'[q] = c
      BY DEF Matrix!SetRole
    <2> HIDE DEF c
    <2> QED
      BY <2>1, <2>2, <2>3
  <1>3. \A p \in Servers : p # q =>
          roomCall'[p] = IF Sets(p, target) THEN [roomCall[p] EXCEPT !.clean = FALSE] ELSE roomCall[p]
    BY DEF Matrix!SetRole, Matrix!Setting, Sets
  <1>4. \A p \in Servers : p # q =>
          /\ roomCall'[p] \in Call /\ roomCall'[p].at = roomCall[p].at /\ roomCall'[p].kind = roomCall[p].kind
          /\ roomCall'[p].target = roomCall[p].target /\ roomCall'[p].role = roomCall[p].role
          /\ roomCall'[p].rooms = roomCall[p].rooms /\ roomCall'[p].read = roomCall[p].read
          /\ roomCall'[p].raced = roomCall[p].raced
          /\ Sets(p, target) => roomCall'[p].clean = FALSE
          /\ ~Sets(p, target) => roomCall'[p] = roomCall[p]
    <2> SUFFICES ASSUME NEW p \in Servers, p # q
                 PROVE  /\ roomCall'[p] \in Call /\ roomCall'[p].at = roomCall[p].at
                        /\ roomCall'[p].kind = roomCall[p].kind
                        /\ roomCall'[p].target = roomCall[p].target /\ roomCall'[p].role = roomCall[p].role
                        /\ roomCall'[p].rooms = roomCall[p].rooms /\ roomCall'[p].read = roomCall[p].read
                        /\ roomCall'[p].raced = roomCall[p].raced
                        /\ Sets(p, target) => roomCall'[p].clean = FALSE
                        /\ ~Sets(p, target) => roomCall'[p] = roomCall[p]
      OBVIOUS
    <2>1. roomCall[p] \in Call
      BY CallOf
    <2> QED
      BY <1>3, <2>1 DEF Call
  <1>5. \A p \in Servers, u \in Users : Sets(p, u)' <=> Sets(p, u) \/ (p = q /\ u = target)
    <2>1. ~(roomCall[q].kind = "role")
      BY <1>1, FreeSlot
    <2> QED
      BY <1>2, <1>4, <2>1 DEF Sets
  <1>6. RoomTypes' /\ Ids' = Ids
    <2>1. roomCall' \in [Servers -> Call]
      <3>1. DOMAIN roomCall' = Servers /\ roomCall' = [p \in Servers |-> roomCall'[p]]
        BY DEF Matrix!SetRole
      <3>2. \A p \in Servers : roomCall'[p] \in Call
        BY <1>2, <1>4
      <3> QED
        BY <3>1, <3>2
    <2> QED
      BY <1>1, <2>1 DEF RoomsInv, RoomTypes, Ids, Matrix!ServerRoomIds
  <1>7. ASSUME NEW p \in Servers PROVE CallIsRight(roomCall[p])'
    <2>1. CASE p = q
      <3>1. "begun" \notin Ids
        BY IdsFacts, RoomsBounds DEF RoomsInv, RoomTypes
      <3> QED
        BY <1>2, <1>6, <2>1, <3>1 DEF CallIsRight
    <2>2. CASE p # q
      BY <1>1, <1>4, <1>6, <2>2 DEF RoomsInv, CallIsRight
    <2> QED
      BY <2>1, <2>2
  <1>8. ASSUME NEW p \in Servers PROVE CleanIsAlone(p)'
    <2>1. CASE p = q
      BY <1>1, <1>2, <1>5, <2>1 DEF CleanIsAlone, Matrix!Setting, Sets
    <2>2. CASE p # q /\ roomCall'[p].kind = "role" /\ roomCall'[p].clean = TRUE
      <3>1. ~Sets(p, target) /\ roomCall'[p] = roomCall[p]
        BY <1>4, <2>2
      <3>2. roomCall[p].target \in Users /\ roomCall[p].target # target
        BY <2>2, <3>1, CallOf DEF Sets
      <3>3. \A o \in Servers : Sets(o, roomCall[p].target)' <=> Sets(o, roomCall[p].target)
        BY <1>5, <3>1, <3>2
      <3> QED
        BY <1>1, <2>2, <3>1, <3>3 DEF RoomsInv, CleanIsAlone, Sets
    <2> QED
      BY <2>1, <2>2 DEF CleanIsAlone
  <1>9. UnlistedIsBlank'
    BY <1>1, <1>6 DEF RoomsInv, UnlistedIsBlank
  <1>10. ASSUME NEW room \in Ids, NEW u \in Users PROVE LevelIsRight(room, u)'
    <2>1. CASE u = target
      BY <1>2, <1>5, <2>1 DEF LevelIsRight, Ahead
    <2>2. CASE u # target
      <3>1. \A p \in Servers : Sets(p, u)' <=> Sets(p, u)
        BY <1>5, <2>2
      <3>2. \A p \in Servers : Sets(p, u) => roomCall'[p] = roomCall[p]
        BY <1>1, <1>4, <2>2, FreeSlot DEF Sets
      <3> QED
        BY <1>1, <3>1, <3>2 DEF RoomsInv, LevelIsRight, Ahead
    <2> QED
      BY <2>1, <2>2
  <1> QED
    BY <1>6, <1>7, <1>8, <1>9, <1>10 DEF RoomsInv

(* The row is written before the first of the levels. *)
LEMMA SetServerMemberRoleStep ==
  ASSUME RoomsInv, NEW q \in Servers, Matrix!SetServerMemberRole(q)
  PROVE  RoomsInv'
  <1> PICK target : target = roomCall[q].target
    OBVIOUS
  <1>1. /\ UNCHANGED <<maker, listed, levels, adrift>> /\ roomCall[q].kind = "role" /\ roomCall[q].at = "begun"
        /\ role' = [role EXCEPT ![target] = IF @ = "none" THEN @ ELSE roomCall[q].role]
        /\ roomCall' = [roomCall EXCEPT ![q].at = "list"]
    BY DEF Matrix!SetServerMemberRole, Matrix!matrix
  <1>2. /\ roomCall[q] \in Call /\ roomCall \in [Servers -> Call] /\ target \in Users
        /\ roomCall[q].role \in Roles /\ roomCall[q].role # "none"
    BY <1>1, CallOf DEF RoomsInv, CallIsRight
  <1>3. /\ roomCall'[q] \in Call /\ roomCall'[q].at = "list"
        /\ roomCall'[q].kind = "role" /\ roomCall'[q].target = target
        /\ roomCall'[q].role = roomCall[q].role /\ roomCall'[q].clean = roomCall[q].clean
        /\ roomCall'[q].rooms = roomCall[q].rooms
        /\ \A p \in Servers : p # q => roomCall'[p] = roomCall[p]
    BY <1>1, <1>2, RoomsBounds DEF Call
  <1>4. RoomTypes' /\ Ids' = Ids
    <2>1. roomCall' \in [Servers -> Call]
      BY <1>1, <1>2, <1>3
    <2>2. role' \in [Users -> Roles]
      BY <1>1, <1>2 DEF RoomsInv, RoomTypes
    <2> QED
      BY <1>1, <2>1, <2>2 DEF RoomsInv, RoomTypes, Ids, Matrix!ServerRoomIds
  <1>5. \A p \in Servers, u \in Users : (Sets(p, u) <=> Sets(p, u)')
    BY <1>1, <1>3 DEF Sets
  <1>6. /\ \A u \in Users : u # target => role'[u] = role[u]
        /\ role'[target] = IF role[target] = "none" THEN "none" ELSE roomCall[q].role
    BY <1>1, <1>2 DEF RoomsInv, RoomTypes
  <1>7. ASSUME NEW p \in Servers PROVE CallIsRight(roomCall[p])'
    <2>1. CASE p = q
      <3>1. "list" \notin Ids
        BY IdsFacts, RoomsBounds DEF RoomsInv, RoomTypes
      <3> QED
        BY <1>1, <1>2, <1>3, <1>4, <2>1, <3>1 DEF RoomsInv, CallIsRight
    <2>2. CASE p # q
      BY <1>1, <1>3, <1>4, <2>2 DEF RoomsInv, CallIsRight
    <2> QED
      BY <2>1, <2>2
  <1>8. ASSUME NEW p \in Servers PROVE CleanIsAlone(p)'
    <2>1. CASE p = q
      BY <1>1, <1>2, <1>3, <1>5, <1>6, <2>1 DEF RoomsInv, CleanIsAlone
    <2>2. CASE p # q /\ roomCall[p].kind = "role" /\ roomCall[p].clean = TRUE
      <3>1. roomCall[p].target \in Users /\ roomCall'[p] = roomCall[p] /\ Sets(q, target)
        BY <1>1, <1>3, <2>2, CallOf DEF Sets
      <3>2. roomCall[p].target # target
        BY <2>2, <3>1 DEF RoomsInv, CleanIsAlone
      <3>3. role'[roomCall[p].target] = role[roomCall[p].target]
        BY <1>6, <3>1, <3>2
      <3>4. \A o \in Servers : Sets(o, roomCall[p].target)' <=> Sets(o, roomCall[p].target)
        BY <1>5, <3>1
      <3> QED
        BY <2>2, <3>1, <3>3, <3>4 DEF RoomsInv, CleanIsAlone, Sets
    <2> QED
      BY <1>3, <2>1, <2>2 DEF CleanIsAlone
  <1>9. UnlistedIsBlank'
    BY <1>1, <1>4 DEF RoomsInv, UnlistedIsBlank
  <1>10. ASSUME NEW room \in Ids, NEW u \in Users PROVE LevelIsRight(room, u)'
    <2>1. CASE u = target
      BY <1>2, <1>3, <2>1 DEF LevelIsRight, Ahead, Sets
    <2>2. CASE u # target
      <3>1. \A p \in Servers : Sets(p, u) => roomCall'[p] = roomCall[p]
        BY <1>3, <2>2, <1>1 DEF Sets
      <3> QED
        BY <1>1, <1>5, <1>6, <2>2, <3>1 DEF RoomsInv, LevelIsRight, Ahead
    <2> QED
      BY <2>1, <2>2
  <1> QED
    BY <1>4, <1>7, <1>8, <1>9, <1>10 DEF RoomsInv

LEMMA ListRoomsOfRoleStep ==
  ASSUME RoomsInv, NEW q \in Servers, Matrix!ListRooms(q), roomCall[q].kind = "role"
  PROVE  RoomsInv'
  <1> DEFINE c == [roomCall[q] EXCEPT !.at = "rooms", !.rooms = Ids]
  <1>1. /\ UNCHANGED <<role, maker, listed, levels, adrift>> /\ roomCall[q].at = "list"
        /\ roomCall' = [roomCall EXCEPT ![q].at = "rooms", ![q].rooms = Ids]
    BY DEF Matrix!ListRooms, Matrix!app, Matrix!matrix, Ids
  <1>2. roomCall[q] \in Call /\ roomCall \in [Servers -> Call] /\ Ids \subseteq Matrix!Rooms
    BY CallOf, IdsFacts DEF RoomsInv, RoomTypes
  <1>3. /\ c \in Call /\ c.at = "rooms" /\ c.rooms = Ids /\ c.kind = "role"
        /\ c.target = roomCall[q].target /\ c.role = roomCall[q].role /\ c.clean = roomCall[q].clean
    BY <1>2, RoomsBounds DEF Call
  <1>4. roomCall' = [roomCall EXCEPT ![q] = c]
    BY <1>1, <1>2
  <1> HIDE DEF c
  <1>5. "rooms" \notin Ids
    BY <1>2, RoomsBounds
  <1>6. CallIsRight(c)
    BY <1>3, <1>5 DEF RoomsInv, CallIsRight
  <1>7. \A room \in Ids : Ahead(q, room)'
    BY <1>2, <1>3, <1>4 DEF Ahead
  <1> QED
    BY <1>1, <1>3, <1>4, <1>6, <1>7, OwnMove

LEMMA ReadLevelsStep ==
  ASSUME RoomsInv, NEW q \in Servers, NEW room \in Matrix!Rooms, Matrix!ReadLevels(q, room)
  PROVE  RoomsInv'
  <1>1. /\ UNCHANGED <<role, maker, listed, levels>> /\ roomCall[q].kind = "role"
        /\ roomCall[q].at = "rooms" /\ room \in roomCall[q].rooms
    BY DEF Matrix!ReadLevels, Matrix!app, Matrix!matrix
  <1>2. /\ roomCall[q] \in Call /\ roomCall \in [Servers -> Call] /\ levels[room] \in [Users -> Grades]
        /\ room \in Ids /\ room \notin {"begun", "list", "rooms"} /\ roomCall[q].role # "none"
        /\ roomCall[q].rooms \subseteq Ids /\ "rooms" \notin Ids
    <2>1. /\ roomCall[q] \in Call /\ roomCall \in [Servers -> Call] /\ levels[room] \in [Users -> Grades]
          /\ Ids \subseteq Matrix!Rooms
      BY CallOf, IdsFacts DEF RoomsInv, RoomTypes
    <2>2. room \notin {"begun", "list", "rooms"} /\ "rooms" \notin Matrix!Rooms
      BY RoomsBounds
    <2>3. roomCall[q].rooms \subseteq Ids /\ roomCall[q].role # "none"
      BY <1>1 DEF RoomsInv, CallIsRight
    <2> QED
      BY <1>1, <2>1, <2>2, <2>3
  <1>3. CASE roomCall' = [roomCall EXCEPT ![q].at = room, ![q].read = levels[room]] /\ UNCHANGED adrift
    <2> DEFINE c == [roomCall[q] EXCEPT !.at = room, !.read = levels[room]]
    <2>1. /\ c \in Call /\ c.at = room /\ c.read = levels[room] /\ c.kind = "role"
          /\ c.target = roomCall[q].target /\ c.role = roomCall[q].role /\ c.clean = roomCall[q].clean
          /\ c.rooms = roomCall[q].rooms
      BY <1>1, <1>2 DEF Call
    <2>2. roomCall' = [roomCall EXCEPT ![q] = c]
      BY <1>2, <1>3
    <2> HIDE DEF c
    <2>3. CallIsRight(c)
      BY <1>1, <1>2, <2>1 DEF CallIsRight
    <2>4. \A r \in Ids : Ahead(q, r) => Ahead(q, r)'
      BY <1>1, <1>2, <2>1, <2>2 DEF Ahead
    <2>5. c.at # "begun"
      BY <1>2, <2>1
    <2> QED
      BY <1>1, <1>3, <2>1, <2>2, <2>3, <2>4, <2>5, OwnMove
  <1>4. CASE Matrix!NextRoom(q, room) /\ adrift' = adrift \union {<<room, roomCall[q].target>>}
    <2>1. PICK c \in Call :
            /\ roomCall' = [roomCall EXCEPT ![q] = c]
            /\ c.at = "rooms" /\ c.rooms = roomCall[q].rooms \ {room}
            /\ c.kind = roomCall[q].kind /\ c.target = roomCall[q].target
            /\ c.role = roomCall[q].role /\ c.clean = roomCall[q].clean
      BY <1>4, NextRoomFacts
    <2>2. CallIsRight(c)
      BY <1>1, <1>2, <2>1 DEF CallIsRight
    <2>3. \A r \in Ids : Ahead(q, r) => Ahead(q, r)' \/ <<r, c.target>> \in adrift'
      BY <1>1, <1>2, <1>4, <2>1 DEF Ahead
    <2> QED
      BY <1>1, <1>4, <2>1, <2>2, <2>3, OwnMove
  <1> QED
    BY <1>3, <1>4 DEF Matrix!ReadLevels

(* What is written is what was read, but for the target's level: undisturbed, it settles  *)
(* that one and leaves the rest as it is; overtaken, it puts the room in doubt.         *)
LEMMA WriteLevelsStep ==
  ASSUME RoomsInv, NEW q \in Servers, NEW room \in Matrix!Rooms, Matrix!WriteLevels(q, room)
  PROVE  RoomsInv'
  <1> PICK target : target = roomCall[q].target
    OBVIOUS
  <1>1. /\ UNCHANGED <<role, maker, listed>> /\ roomCall[q].kind = "role" /\ roomCall[q].at = room
    BY DEF Matrix!WriteLevels, Matrix!app
  <1>2. /\ roomCall[q] \in Call /\ roomCall \in [Servers -> Call] /\ target \in Users
        /\ roomCall[q].role \in Roles /\ roomCall[q].read \in [Users -> Grades]
    <2>1. roomCall[q] \in Call /\ roomCall \in [Servers -> Call]
      BY CallOf
    <2> QED
      BY <2>1 DEF Call
  <1>3. /\ room \in Ids /\ room \in roomCall[q].rooms /\ roomCall[q].rooms \subseteq Ids
        /\ roomCall[q].raced = FALSE => roomCall[q].read = levels[room]
        /\ roomCall[q].role # "none" /\ "rooms" \notin Ids /\ Ids \subseteq Matrix!Rooms
        /\ roomCall[q].at \notin {"begun", "list", "rooms"}
    <2>1. roomCall[q].at \notin {"begun", "list", "rooms"}
      BY <1>1, RoomsBounds
    <2>2. CallIsRight(roomCall[q]) /\ Ids \subseteq Matrix!Rooms
      BY IdsFacts DEF RoomsInv, RoomTypes
    <2>3. "rooms" \notin Ids
      BY <2>2, RoomsBounds
    <2> QED
      BY <1>1, <2>1, <2>2, <2>3 DEF CallIsRight
  <1>4. CASE /\ levels' = [levels EXCEPT ![room] = Matrix!Amended(q)]
             /\ roomCall' = [p \in Servers |->
                  CASE p = q -> [roomCall[q] EXCEPT !.rooms = @ \ {room}, !.read = Matrix!Idle.read,
                                                    !.raced = FALSE, !.at = "rooms"]
                    [] p # q /\ roomCall[p].at = room -> [roomCall[p] EXCEPT !.raced = TRUE]
                    [] OTHER -> roomCall[p]]
             /\ adrift' = CASE roomCall[q].raced -> adrift \union ({room} \X Users)
                            [] ~roomCall[q].raced /\ ~roomCall[q].clean ->
                                 adrift \union {<<room, roomCall[q].target>>}
                            [] OTHER -> adrift \ {<<room, roomCall[q].target>>}
    <2>1. /\ levels' \in [Matrix!Rooms -> [Users -> Grades]]
          /\ \A r \in Matrix!Rooms : r # room => levels'[r] = levels[r]
          /\ \A u \in Users : u # target => levels'[room][u] = roomCall[q].read[u]
          /\ levels'[room][target] = Matrix!POWER_LEVELS[roomCall[q].role]
      <3>1. Matrix!Amended(q) = [roomCall[q].read EXCEPT ![target] = Matrix!POWER_LEVELS[roomCall[q].role]]
        BY DEF Matrix!Amended
      <3>2. Matrix!POWER_LEVELS[roomCall[q].role] \in Grades
        BY <1>2, LevelFacts
      <3>3. Matrix!Amended(q) \in [Users -> Grades]
        BY <1>2, <3>1, <3>2
      <3> QED
        BY <1>2, <1>4, <3>1, <3>3 DEF RoomsInv, RoomTypes
    <2>2. /\ roomCall'[q] \in Call /\ roomCall'[q].at = "rooms"
          /\ roomCall'[q].rooms = roomCall[q].rooms \ {room}
          /\ roomCall'[q].kind = "role" /\ roomCall'[q].target = target
          /\ roomCall'[q].role = roomCall[q].role /\ roomCall'[q].clean = roomCall[q].clean
      <3> DEFINE c == [roomCall[q] EXCEPT !.rooms = @ \ {room}, !.read = Matrix!Idle.read,
                                          !.raced = FALSE, !.at = "rooms"]
      <3>1. /\ c \in Call /\ c.at = "rooms" /\ c.rooms = roomCall[q].rooms \ {room}
            /\ c.kind = roomCall[q].kind /\ c.target = roomCall[q].target
            /\ c.role = roomCall[q].role /\ c.clean = roomCall[q].clean
        BY <1>2, IdleCall, RoomsBounds DEF Call
      <3>2. roomCall'[q] = c
        BY <1>4
      <3> HIDE DEF c
      <3> QED
        BY <1>1, <3>1, <3>2
    <2>3. ASSUME NEW p \in Servers, p # q
          PROVE  /\ roomCall'[p] \in Call /\ roomCall'[p].at = roomCall[p].at
                 /\ roomCall'[p].kind = roomCall[p].kind /\ roomCall'[p].target = roomCall[p].target
                 /\ roomCall'[p].role = roomCall[p].role /\ roomCall'[p].rooms = roomCall[p].rooms
                 /\ roomCall'[p].read = roomCall[p].read /\ roomCall'[p].clean = roomCall[p].clean
                 /\ roomCall[p].at = room => roomCall'[p].raced = TRUE
                 /\ roomCall[p].at # room => roomCall'[p] = roomCall[p]
      <3>1. roomCall[p] \in Call
        BY CallOf
      <3>2. roomCall'[p] = IF roomCall[p].at = room THEN [roomCall[p] EXCEPT !.raced = TRUE] ELSE roomCall[p]
        BY <1>4, <2>3
      <3> QED
        BY <3>1, <3>2 DEF Call
    <2>4. RoomTypes' /\ Ids' = Ids
      <3>1. roomCall' \in [Servers -> Call]
        <4>1. roomCall' = [p \in Servers |-> roomCall'[p]]
          BY <1>4
        <4>2. \A p \in Servers : roomCall'[p] \in Call
          BY <2>2, <2>3
        <4> QED
          BY <4>1, <4>2
      <3> QED
        BY <1>1, <2>1, <3>1 DEF RoomsInv, RoomTypes, Ids, Matrix!ServerRoomIds
    <2>5. \A p \in Servers, u \in Users : (Sets(p, u) <=> Sets(p, u)')
      <3>1. \A p \in Servers : roomCall'[p].kind = roomCall[p].kind /\ roomCall'[p].target = roomCall[p].target
        BY <1>1, <2>2, <2>3
      <3> QED
        BY <3>1 DEF Sets
    <2>6. /\ \A r \in Matrix!Rooms, u \in Users : r # room => (<<r, u>> \in adrift' <=> <<r, u>> \in adrift)
          /\ roomCall[q].raced = TRUE => \A u \in Users : <<room, u>> \in adrift'
          /\ roomCall[q].raced = FALSE /\ roomCall[q].clean = FALSE => <<room, target>> \in adrift'
          /\ \A u \in Users : u # target /\ <<room, u>> \in adrift => <<room, u>> \in adrift'
      <3>1. roomCall[q].raced \in BOOLEAN /\ roomCall[q].clean \in BOOLEAN
        BY CallOf
      <3>2. CASE roomCall[q].raced = TRUE
        <4>1. adrift' = adrift \union ({room} \X Users)
          BY <1>4, <3>2
        <4> QED
          BY <3>2, <4>1
      <3>3. CASE roomCall[q].raced = FALSE /\ roomCall[q].clean = FALSE
        <4>1. adrift' = adrift \union {<<room, target>>}
          BY <1>4, <3>3
        <4> QED
          BY <3>3, <4>1
      <3>4. CASE roomCall[q].raced = FALSE /\ roomCall[q].clean = TRUE
        <4>1. adrift' = adrift \ {<<room, target>>}
          BY <1>4, <3>4
        <4> QED
          BY <3>4, <4>1
      <3> QED
        BY <3>1, <3>2, <3>3, <3>4
    <2>7. ASSUME NEW p \in Servers PROVE CallIsRight(roomCall[p])'
      <3>1. CASE p = q
        BY <1>3, <2>2, <2>4, <3>1 DEF CallIsRight
      <3>2. CASE p # q /\ roomCall[p].at = room
        <4>1. /\ roomCall'[p].raced = TRUE /\ roomCall'[p].at = room /\ roomCall'[p].kind = roomCall[p].kind
              /\ roomCall'[p].role = roomCall[p].role /\ roomCall'[p].rooms = roomCall[p].rooms
          BY <2>3, <3>2
        <4>2. room # "made"
          BY RoomsBounds
        <4> QED
          BY <2>4, <3>2, <4>1, <4>2 DEF RoomsInv, CallIsRight
      <3>3. CASE p # q /\ roomCall[p].at # room
        <4>1. roomCall'[p] = roomCall[p]
          BY <2>3, <3>3
        <4>2. roomCall[p].at \in Ids => levels'[roomCall[p].at] = levels[roomCall[p].at]
          BY <1>3, <2>1, <3>3
        <4> QED
          BY <1>1, <2>4, <4>1, <4>2 DEF RoomsInv, CallIsRight
      <3> QED
        BY <3>1, <3>2, <3>3
    <2>8. ASSUME NEW p \in Servers PROVE CleanIsAlone(p)'
      <3>1. /\ roomCall'[p].kind = roomCall[p].kind /\ roomCall'[p].target = roomCall[p].target
            /\ roomCall'[p].role = roomCall[p].role /\ roomCall'[p].clean = roomCall[p].clean
            /\ roomCall[p].kind = "role" /\ roomCall'[p].at # "begun" => roomCall[p].at # "begun"
            /\ roomCall[p].target \in Users
        BY <1>1, <1>3, <2>2, <2>3, CallOf
      <3> QED
        BY <1>1, <2>5, <3>1 DEF RoomsInv, CleanIsAlone, Sets
    <2>9. UnlistedIsBlank'
      BY <1>1, <1>3, <2>1, <2>4, <2>6 DEF RoomsInv, UnlistedIsBlank
    <2>10. ASSUME NEW r \in Ids, NEW u \in Users PROVE LevelIsRight(r, u)'
      <3>1. \A p \in Servers : p # q => (Ahead(p, r)' <=> Ahead(p, r))
        BY <2>3 DEF Ahead
      <3>2. \A p \in Servers : roomCall'[p].clean = roomCall[p].clean
        BY <2>2, <2>3
      <3>3. CASE r # room
        <4>1. Ahead(q, r)' <=> Ahead(q, r)
          BY <1>3, <2>2, <3>3 DEF Ahead
        <4>2. levels'[r] = levels[r] /\ (<<r, u>> \in adrift' <=> <<r, u>> \in adrift)
          BY <1>3, <2>1, <2>6, <3>3
        <4> QED
          BY <1>1, <2>5, <3>1, <3>2, <4>1, <4>2 DEF RoomsInv, LevelIsRight
      <3>4. CASE r = room /\ roomCall[q].raced = TRUE
        BY <2>6, <3>4 DEF LevelIsRight
      <3>5. CASE r = room /\ roomCall[q].raced = FALSE /\ u # target
        <4>1. levels'[room][u] = levels[room][u] /\ (<<room, u>> \in adrift => <<room, u>> \in adrift')
          BY <1>3, <2>1, <2>6, <3>5
        <4>2. ~Sets(q, u)
          BY <3>5 DEF Sets
        <4> QED
          BY <1>1, <2>5, <3>1, <3>2, <3>5, <4>1, <4>2 DEF RoomsInv, LevelIsRight
      <3>6. CASE r = room /\ roomCall[q].raced = FALSE /\ u = target /\ roomCall[q].clean = FALSE
        BY <2>6, <3>6 DEF LevelIsRight
      <3>7. CASE r = room /\ roomCall[q].raced = FALSE /\ u = target /\ roomCall[q].clean = TRUE
        <4>1. role[target] = roomCall[q].role /\ \A p \in Servers : Sets(p, target) => p = q
          BY <1>1, <1>3, <3>7 DEF RoomsInv, CleanIsAlone
        <4>2. levels'[room][target] = Matrix!POWER_LEVELS[role'[target]]
          BY <1>1, <2>1, <4>1
        <4>3. \A p \in Servers : Sets(p, target)' => roomCall'[p].clean = TRUE
          BY <1>2, <2>5, <3>2, <3>7, <4>1
        <4> QED
          BY <3>7, <4>2, <4>3 DEF LevelIsRight
      <3>8. roomCall[q].raced \in BOOLEAN /\ roomCall[q].clean \in BOOLEAN
        BY CallOf
      <3> QED
        BY <3>3, <3>4, <3>5, <3>6, <3>7, <3>8
    <2> QED
      BY <2>4, <2>7, <2>8, <2>9, <2>10 DEF RoomsInv
  <1>5. CASE Matrix!NextRoom(q, room) /\ adrift' = adrift \union {<<room, target>>} /\ UNCHANGED levels
    <2>1. PICK c \in Call :
            /\ roomCall' = [roomCall EXCEPT ![q] = c]
            /\ c.at = "rooms" /\ c.rooms = roomCall[q].rooms \ {room}
            /\ c.kind = roomCall[q].kind /\ c.target = roomCall[q].target
            /\ c.role = roomCall[q].role /\ c.clean = roomCall[q].clean
      BY <1>5, NextRoomFacts
    <2>2. CallIsRight(c)
      BY <1>1, <1>3, <2>1 DEF CallIsRight
    <2>3. \A r \in Ids : Ahead(q, r) => Ahead(q, r)' \/ <<r, c.target>> \in adrift'
      BY <1>2, <1>3, <1>5, <2>1 DEF Ahead
    <2>4. roomCall[q].at # "begun" /\ adrift \subseteq adrift'
      BY <1>3, <1>5
    <2> QED
      BY <1>1, <1>5, <2>1, <2>2, <2>3, <2>4, OwnMove
  <1> QED
    BY <1>4, <1>5 DEF Matrix!WriteLevels

LEMMA EndSetRoleStep ==
  ASSUME RoomsInv, NEW q \in Servers, Matrix!EndSetRole(q)
  PROVE  RoomsInv'
  <1>1. /\ UNCHANGED <<role, maker, listed, levels, adrift>> /\ roomCall[q].kind = "role"
        /\ roomCall[q].at = "rooms" /\ roomCall[q].rooms = {}
        /\ roomCall' = [roomCall EXCEPT ![q] = Matrix!Idle]
    BY DEF Matrix!EndSetRole, Matrix!End, Matrix!app, Matrix!matrix
  <1>2. \A room \in Ids : ~Ahead(q, room)
    BY <1>1 DEF Ahead
  <1> QED
    BY <1>1, <1>2, OwnEnd

LEMMA AbortOfRoleStep ==
  ASSUME RoomsInv, NEW q \in Servers, Matrix!Abort(q), roomCall[q].kind = "role"
  PROVE  RoomsInv'
  <1>1. /\ UNCHANGED <<role, maker, listed, levels>>
        /\ roomCall' = [roomCall EXCEPT ![q] = Matrix!Idle]
        /\ adrift' = adrift \union (Matrix!Rooms \X {roomCall[q].target})
    BY DEF Matrix!Abort, Matrix!End, Matrix!app, Matrix!matrix
  <1>2. \A room \in Ids : <<room, roomCall[q].target>> \in adrift'
    BY <1>1, IdsFacts DEF RoomsInv, RoomTypes
  <1> QED
    BY <1>1, <1>2, OwnEnd

(* Whoever is gone has a stranger's level, unless it is adrift. *)
LEMMA RemoveServerMemberStep ==
  ASSUME RoomsInv, NEW q \in Servers, Matrix!RemoveServerMember(q)
  PROVE  RoomsInv'
  <1> PICK target : target = roomCall[q].target
    OBVIOUS
  <1>1. /\ UNCHANGED <<maker, listed, levels>> /\ roomCall[q].kind # "role" /\ target \in Users
        /\ role' = [role EXCEPT ![target] = "none"]
        /\ adrift' = IF Matrix!Rank[role[target]] > Matrix!Rank["member"] \/ Matrix!Setting(target) # {}
                     THEN adrift \union (Matrix!Rooms \X {target}) ELSE adrift
    BY CallOf DEF Matrix!RemoveServerMember, Matrix!matrix
  <1>2. roomCall'[q] = Matrix!Idle
    BY DEF Matrix!RemoveServerMember
  <1>3. ASSUME NEW p \in Servers, p # q
        PROVE  /\ roomCall'[p] \in Call /\ roomCall'[p].at = roomCall[p].at
               /\ roomCall'[p].kind = roomCall[p].kind /\ roomCall'[p].target = roomCall[p].target
               /\ roomCall'[p].role = roomCall[p].role /\ roomCall'[p].rooms = roomCall[p].rooms
               /\ roomCall'[p].read = roomCall[p].read /\ roomCall'[p].raced = roomCall[p].raced
               /\ Sets(p, target) => roomCall'[p].clean = FALSE
               /\ ~Sets(p, target) => roomCall'[p] = roomCall[p]
    <2>1. roomCall[p] \in Call
      BY CallOf
    <2>2. roomCall'[p] = IF Sets(p, target) THEN [roomCall[p] EXCEPT !.clean = FALSE] ELSE roomCall[p]
      BY <1>3 DEF Matrix!RemoveServerMember, Matrix!Setting, Sets
    <2> QED
      BY <2>1, <2>2 DEF Call
  <1>4. RoomTypes' /\ Ids' = Ids
    <2>1. roomCall' \in [Servers -> Call]
      <3>1. roomCall' = [p \in Servers |-> roomCall'[p]]
        BY DEF Matrix!RemoveServerMember
      <3>2. \A p \in Servers : roomCall'[p] \in Call
        BY <1>2, <1>3, IdleCall
      <3> QED
        BY <3>1, <3>2
    <2>2. role' \in [Users -> Roles]
      BY <1>1 DEF RoomsInv, RoomTypes, Roles
    <2> QED
      BY <1>1, <2>1, <2>2 DEF RoomsInv, RoomTypes, Ids, Matrix!ServerRoomIds
  <1>5. \A p \in Servers, u \in Users : (Sets(p, u) <=> Sets(p, u)')
    <2>1. roomCall'[q].kind # "role"
      BY <1>2, IdleCall
    <2> QED
      BY <1>1, <1>3, <2>1 DEF Sets
  <1>6. role'[target] = "none" /\ \A u \in Users : u # target => role'[u] = role[u]
    BY <1>1 DEF RoomsInv, RoomTypes
  <1>7. adrift \subseteq adrift'
    BY <1>1
  <1>8. ASSUME NEW p \in Servers PROVE CallIsRight(roomCall[p])'
    <2>1. CASE p = q
      BY <1>2, <2>1, IdleCall DEF CallIsRight
    <2>2. CASE p # q
      BY <1>1, <1>3, <1>4, <2>2 DEF RoomsInv, CallIsRight
    <2> QED
      BY <2>1, <2>2
  <1>9. ASSUME NEW p \in Servers PROVE CleanIsAlone(p)'
    <2>1. CASE p = q
      BY <1>2, <2>1, IdleCall DEF CleanIsAlone
    <2>2. CASE p # q /\ roomCall'[p].kind = "role" /\ roomCall'[p].clean = TRUE
      <3>1. ~Sets(p, target) /\ roomCall'[p] = roomCall[p]
        BY <1>3, <2>2
      <3>2. roomCall[p].target \in Users /\ roomCall[p].target # target
        BY <2>2, <3>1, CallOf DEF Sets
      <3>3. \A o \in Servers : Sets(o, roomCall[p].target)' <=> Sets(o, roomCall[p].target)
        BY <1>5, <3>1, <3>2
      <3>4. role'[roomCall[p].target] = role[roomCall[p].target]
        BY <1>6, <3>2
      <3> QED
        BY <2>2, <3>1, <3>3, <3>4 DEF RoomsInv, CleanIsAlone, Sets
    <2> QED
      BY <2>1, <2>2 DEF CleanIsAlone
  <1>10. UnlistedIsBlank'
    BY <1>1, <1>4, <1>7 DEF RoomsInv, UnlistedIsBlank
  <1>11. ASSUME NEW room \in Ids, NEW u \in Users PROVE LevelIsRight(room, u)'
    <2>1. CASE u # target
      <3>1. \A p \in Servers : Sets(p, u) => roomCall'[p] = roomCall[p]
        BY <1>1, <1>3, <2>1 DEF Sets
      <3> QED
        BY <1>1, <1>5, <1>6, <1>7, <2>1, <3>1 DEF RoomsInv, LevelIsRight, Ahead
    <2>2. CASE u = target /\ <<room, u>> \in adrift'
      BY <2>2 DEF LevelIsRight
    <2>3. CASE u = target /\ <<room, u>> \notin adrift'
      <3>1. room \in Matrix!Rooms
        BY IdsFacts DEF RoomsInv, RoomTypes
      <3>2. ~(Matrix!Rank[role[target]] > Matrix!Rank["member"]) /\ Matrix!Setting(target) = {}
        BY <1>1, <2>3, <3>1
      <3>3. \A p \in Servers : ~Sets(p, u)
        BY <2>3, <3>2 DEF Matrix!Setting, Sets
      <3>4. role[u] \in {"none", "member"}
        BY <1>1, <2>3, <3>2, LevelFacts DEF RoomsInv, RoomTypes
      <3>5. levels[room][u] = 0
        BY <1>7, <2>3, <3>3, <3>4, LevelFacts DEF RoomsInv, LevelIsRight
      <3>6. levels'[room][u] = Matrix!POWER_LEVELS[role'[u]]
        BY <1>1, <1>6, <2>3, <3>5, LevelFacts
      <3>7. \A p \in Servers : ~Sets(p, u)'
        BY <1>5, <3>3
      <3> QED
        BY <3>6, <3>7 DEF LevelIsRight
    <2> QED
      BY <2>1, <2>2, <2>3
  <1> QED
    BY <1>4, <1>8, <1>9, <1>10, <1>11 DEF RoomsInv

LEMMA RoomsStep == RoomsInv /\ Matrix!Next => RoomsInv'
  <1> SUFFICES ASSUME RoomsInv, Matrix!Next PROVE RoomsInv'
    OBVIOUS
  <1>1. ASSUME NEW q \in Servers,
               \/ Matrix!CreateChannelRoom(q) \/ Matrix!ListChannel(q) \/ Matrix!AddServerMember(q)
               \/ Matrix!SetServerMemberRole(q) \/ Matrix!EndSetRole(q) \/ Matrix!RemoveServerMember(q)
        PROVE  RoomsInv'
    BY <1>1, CreateChannelRoomStep, ListChannelStep, AddServerMemberStep, SetServerMemberRoleStep,
       EndSetRoleStep, RemoveServerMemberStep
  <1>2. ASSUME NEW q \in Servers, Matrix!JoinSpace(q) \/ Matrix!ListRooms(q) \/ Matrix!Abort(q)
        PROVE  RoomsInv'
    BY <1>2, PeopleMove, ListRoomsOfRoleStep, AbortOfRoleStep
  <1>3. ASSUME NEW q \in Servers, NEW room \in Matrix!Rooms,
               \/ Matrix!JoinRoom(q, room) \/ Matrix!LeaveRoom(q, room) \/ Matrix!ReadLevels(q, room)
               \/ Matrix!WriteLevels(q, room) \/ Matrix!RemoveFromRoom(q, room)
        PROVE  RoomsInv'
    BY <1>3, PeopleMove, ReadLevelsStep, WriteLevelsStep
  <1>4. ASSUME NEW q \in Servers, NEW u \in Users,
               Matrix!CreateChannel(q, u) \/ Matrix!Join(q, u) \/ Matrix!Leave(q, u)
        PROVE  RoomsInv'
    BY <1>4, PeopleMove
  <1>5. ASSUME NEW q \in Servers, NEW u \in Users, NEW v \in Users,
               \/ \E kind \in {"kick", "ban"} : Matrix!Remove(q, kind, u, v)
               \/ \E granted \in {"member", "moderator", "admin"} : Matrix!SetRole(q, u, v, granted)
        PROVE  RoomsInv'
    BY <1>5, PeopleMove, SetRoleStep
  <1>6. ASSUME NEW u \in Users,
               (\E c \in Texts : Matrix!ClientEnters(u, c)) \/ \E v \in Users : Matrix!Unban(u, v)
        PROVE  RoomsInv'
    BY <1>6, RoomsStay DEF Matrix!ClientEnters, Matrix!Unban, Matrix!app, Matrix!matrix
  <1> QED
    BY <1>1, <1>2, <1>3, <1>4, <1>5, <1>6 DEF Matrix!Next

RoomsPart == part = "rooms" => RoomsInv

(* A level that nothing is known to have kept from being written is the role's          *)
(* (syncPowerLevels).                                                               *)
THEOREM LevelsFollowHolds == CommunitySpec => []LevelsFollow
  <1>1. CommunityInit => RoomsPart
    BY RoomsBegin DEF CommunityInit, RoomsInit, RoomsPart
  <1>2. RoomsPart /\ [CommunityNext]_communityVars => RoomsPart'
    <2> SUFFICES ASSUME RoomsPart, [CommunityNext]_communityVars, part' = "rooms" PROVE RoomsInv'
      BY DEF RoomsPart
    <2>1. CASE CommunityNext
      <3>1. part = "rooms" /\ Matrix!Next
        BY <2>1 DEF CommunityNext
      <3> QED
        BY <3>1, RoomsStep DEF RoomsPart
    <2>2. CASE UNCHANGED communityVars
      <3>1. part = "rooms" /\ UNCHANGED <<role, maker, listed, levels, roomCall, adrift>>
        BY <2>2 DEF communityVars, roomVars
      <3> QED
        BY <3>1, RoomsStay DEF RoomsPart
    <2> QED
      BY <2>1, <2>2
  <1>3. RoomsPart => LevelsFollow
    <2> SUFFICES ASSUME RoomsInv, NEW room \in Ids, NEW u \in Users,
                        Matrix!Setting(u) = {}, <<room, u>> \notin adrift
                 PROVE  levels[room][u] = Matrix!POWER_LEVELS[role[u]]
      BY DEF RoomsPart, LevelsFollow, Matrix!LevelsFollow, Ids
    <2>1. \A q \in Servers : ~Sets(q, u)
      BY DEF Matrix!Setting, Sets
    <2> QED
      BY <2>1 DEF RoomsInv, LevelIsRight
  <1> QED
    BY <1>1, <1>2, <1>3, PTL DEF CommunitySpec

-------------------------------------------------------------------------------
(* Dashboard *)

Kinds == Screen!OfServer \union Screen!OfChannel \union {"create", "join", "none"}
Job == [kind : Kinds, s : Servers \union {NoServer}, c : Channels \union {NoChannel},
        grant : 0..Screen!Admin, at : {"none", "sent", "done", "refused"}, clean : BOOLEAN]

ScreenTypes ==
  /\ rank \in [Servers -> Screen!Place] /\ ranks \in [Servers -> Screen!Place]
  /\ home \in [Channels -> Servers \union {NoServer}]
  /\ message \in [in : Channels, whose : {"mine", "theirs"}, there : BOOLEAN] /\ seen \in BOOLEAN
  /\ list \subseteq Servers /\ channels \in [Servers -> SUBSET Channels]
  /\ server \in Servers \union {NoServer} /\ channel \in Channels \union {NoChannel}
  /\ job \in Job

(* A channel stays in the community it was made in. *)
ListsAreRight == \A s \in Servers : \A c \in channels[s] : home[c] = s

ShownIsListed == server \in Servers /\ channels[server] # {} => channel \in channels[server]

EditIsSealed == job.kind = "edit" /\ job.c \in sealed

(* A change that was asked for on a true picture, which nothing has disturbed since, will   *)
(* be accepted, and what it was refused for is there to stay.                          *)
JobIsRight ==
  /\ job.at = "sent" /\ job.clean = TRUE =>
       /\ Screen!Accepted(job) \/ EditIsSealed
       /\ job.kind \in Screen!OfChannel => job.c \in Channels /\ home[job.c] = job.s
       /\ job.kind \in Screen!OfMessage => job.c = message.in
       /\ job.kind \notin {"join", "none"} /\ (job.kind # "create" => job.s \in Servers)
  /\ job.at = "refused" /\ job.clean = TRUE => EditIsSealed

ScreenInv == ScreenTypes /\ ListsAreRight /\ ShownIsListed /\ JobIsRight

LEMMA ScreenBounds ==
  /\ Places \subseteq Screen!Place /\ NoServer \notin Servers /\ NoChannel \notin Channels
  /\ Screen!Banned = 0 - 1 /\ Screen!Outsider = 0 /\ Screen!Moderator = 2 /\ Screen!Admin = 3
  /\ Screen!OwnerRank = 4
  BY PartsAssumption
  DEF Screen!DashboardAssumption, Screen!Banned, Screen!Outsider, Screen!Moderator, Screen!Admin, Screen!OwnerRank

LEMMA PlaceFacts ==
  \A p \in Screen!Place : /\ p.me \in (0 - 1)..4 /\ p.other \in 0..4
                          /\ \A r \in (0 - 1)..4 : [p EXCEPT !.me = r] \in Screen!Place
                          /\ \A r \in 0..4 : [p EXCEPT !.other = r] \in Screen!Place
  BY DEF Screen!Place, Screen!Ranks, Screen!Banned, Screen!Outsider, Screen!OwnerRank

LEMMA NoneFacts == Screen!None \in Job /\ Screen!None.at = "none"
  BY ScreenBounds DEF Screen!None, Job, Kinds

LEMMA ScreenBegins == ScreenInit => ScreenInv
  <1> SUFFICES ASSUME Screen!Init PROVE ScreenInv
    BY DEF ScreenInit
  <1>1. [me |-> Screen!Outsider, other |-> Screen!Outsider] \in Screen!Place
    BY ScreenBounds DEF Screen!Place, Screen!Ranks
  <1>2. rank \in [Servers -> Screen!Place] /\ ranks \in [Servers -> Screen!Place]
    BY <1>1, ScreenBounds DEF Screen!Init
  <1>3. /\ channels \in [Servers -> SUBSET Channels] /\ \A s \in Servers : channels[s] = {}
        /\ home \in [Channels -> Servers \union {NoServer}]
        /\ seen = FALSE /\ list = {} /\ server = NoServer /\ channel = NoChannel
        /\ job = Screen!None
    BY DEF Screen!Init
  <1>4. message \in [in : Channels, whose : {"mine", "theirs"}, there : BOOLEAN]
    BY DEF Screen!Init
  <1> QED
    BY <1>2, <1>3, <1>4, NoneFacts DEF ScreenInv, ScreenTypes, ListsAreRight, ShownIsListed, JobIsRight

(* The two effects leave a channel of the community on screen selected. *)
LEMMA SettleFacts ==
  ASSUME ScreenInv, channels' \in [Servers -> SUBSET Channels],
         NEW s \in Servers \union {NoServer}, NEW c \in Channels \union {NoChannel}, Screen!Settle(s, c)
  PROVE  /\ server' \in Servers \union {NoServer} /\ channel' \in Channels \union {NoChannel}
         /\ ShownIsListed'
  <1>1. server' \in Servers \union {NoServer}
    BY DEF Screen!Settle, ScreenInv, ScreenTypes
  <1>2. /\ server' # NoServer /\ channels'[server'] # {} /\ c \notin channels'[server'] =>
             channel' \in channels'[server']
        /\ ~(server' # NoServer /\ channels'[server'] # {} /\ c \notin channels'[server']) => channel' = c
    BY DEF Screen!Settle, Screen!Strays
  <1>3. NoServer \notin Servers
    BY ScreenBounds
  <1> QED
    BY <1>1, <1>2, <1>3 DEF ShownIsListed

LEMMA SettleListedFacts ==
  ASSUME ScreenInv, UNCHANGED channels, list' \subseteq Servers, Screen!SettleListed
  PROVE  /\ server' \in Servers \union {NoServer} /\ channel' \in Channels \union {NoChannel}
         /\ ShownIsListed'
  <1>1. server' \in Servers \union {NoServer}
    BY DEF Screen!SettleListed, ScreenInv, ScreenTypes
  <1>2. /\ server' # server /\ channels[server'] # {} => channel' \in channels[server']
        /\ ~(server' # server /\ channels[server'] # {}) => channel' = channel
    BY DEF Screen!SettleListed
  <1>3. server' # server => server' \in Servers
    BY DEF Screen!SettleListed, ScreenInv, ScreenTypes
  <1> QED
    BY <1>1, <1>2, <1>3 DEF ShownIsListed, ScreenInv, ScreenTypes

LEMMA ReadChannelsFacts ==
  ASSUME ScreenInv, UNCHANGED home, NEW s \in Servers \union {NoServer}, Screen!ReadChannels(s)
  PROVE  channels' \in [Servers -> SUBSET Channels] /\ ListsAreRight'
  BY ScreenBounds DEF Screen!ReadChannels, Screen!ChannelsOf, ScreenInv, ScreenTypes, ListsAreRight

LEMMA ReadMembersFacts ==
  ASSUME ScreenInv, NEW s \in Servers \union {NoServer}, Screen!ReadMembers(s)
  PROVE  ranks' \in [Servers -> Screen!Place]
  <1>1. CASE UNCHANGED ranks
    BY <1>1 DEF ScreenInv, ScreenTypes
  <1>2. CASE s \in Servers /\ ranks' = [ranks EXCEPT ![s].other = rank[s].other]
    <2>1. ranks[s] \in Screen!Place /\ rank[s].other \in 0..4
      BY <1>2, PlaceFacts DEF ScreenInv, ScreenTypes
    <2>2. [ranks[s] EXCEPT !.other = rank[s].other] \in Screen!Place
      BY <2>1, PlaceFacts
    <2> QED
      BY <1>2, <2>2 DEF ScreenInv, ScreenTypes
  <1> QED
    BY <1>1, <1>2 DEF Screen!ReadMembers

LEMMA ReadMessagesFacts ==
  ASSUME ScreenInv, NEW c, Screen!ReadMessages(c)
  PROVE  seen' \in BOOLEAN
  BY DEF Screen!ReadMessages, ScreenInv, ScreenTypes

(* What is to be answered depends on nothing but the truth. *)
LEMMA JobStays ==
  ASSUME ScreenInv, UNCHANGED <<rank, home, sealed, message>>, job' = job \/ job' = Screen!None
  PROVE  job' \in Job /\ JobIsRight'
  <1>1. CASE job' = job
    BY <1>1 DEF ScreenInv, ScreenTypes, JobIsRight, EditIsSealed, Screen!Accepted, Screen!AuthorityOver, Screen!Member
  <1>2. CASE job' = Screen!None
    BY <1>2, NoneFacts DEF JobIsRight
  <1> QED
    BY <1>1, <1>2

LEMMA RefetchStep ==
  ASSUME ScreenInv, Screen!Refetch
  PROVE  ScreenInv'
  <1>1. UNCHANGED <<rank, home, sealed, message, job>>
    BY DEF Screen!Refetch, Screen!truth
  <1>2. job' \in Job /\ JobIsRight'
    BY <1>1, JobStays
  <1>3. CASE Screen!RefetchList
    <2>1. list' \subseteq Servers /\ UNCHANGED <<ranks, channels, seen>> /\ Screen!SettleListed
      BY <1>3 DEF Screen!RefetchList, Screen!Mine
    <2> QED
      BY <1>1, <1>2, <2>1, SettleListedFacts DEF ScreenInv, ScreenTypes, ListsAreRight
  <1>4. CASE Screen!RefetchChannels
    <2>1. Screen!ReadChannels(server) /\ UNCHANGED <<list, ranks, seen>> /\ Screen!Settle(server, channel)
      BY <1>4 DEF Screen!RefetchChannels
    <2>2. server \in Servers \union {NoServer} /\ channel \in Channels \union {NoChannel}
      BY DEF ScreenInv, ScreenTypes
    <2>3. channels' \in [Servers -> SUBSET Channels] /\ ListsAreRight'
      BY <1>1, <2>1, <2>2, ReadChannelsFacts
    <2> QED
      BY <1>1, <1>2, <2>1, <2>2, <2>3, SettleFacts DEF ScreenInv, ScreenTypes
  <1>5. CASE Screen!RefetchRanks
    <2>1. UNCHANGED <<list, channels, seen, server, channel>> /\ server \in Servers
      BY <1>5 DEF Screen!RefetchRanks, ScreenInv, ScreenTypes
    <2>2. ranks' \in [Servers -> Screen!Place]
      <3>1. CASE Screen!ReadMembers(server)
        BY <2>1, <3>1, ReadMembersFacts
      <3>2. CASE ranks' = [ranks EXCEPT ![server].me = IF Screen!Member(server) THEN rank[server].me
                                                       ELSE Screen!Outsider]
        <4>1. PICK mine : mine = IF Screen!Member(server) THEN rank[server].me ELSE Screen!Outsider
          OBVIOUS
        <4>2. rank[server] \in Screen!Place /\ ranks[server] \in Screen!Place
          BY <2>1 DEF ScreenInv, ScreenTypes
        <4>4. rank[server].me \in (0 - 1)..4
          BY <4>2, PlaceFacts
        <4>5. mine \in (0 - 1)..4
          BY <4>1, <4>4, ScreenBounds
        <4>3. [ranks[server] EXCEPT !.me = mine] \in Screen!Place
          BY <4>2, <4>5, PlaceFacts
        <4> QED
          BY <2>1, <3>2, <4>1, <4>3 DEF ScreenInv, ScreenTypes
      <3> QED
        BY <1>5, <3>1, <3>2 DEF Screen!RefetchRanks
    <2> QED
      BY <1>1, <1>2, <2>1, <2>2 DEF ScreenInv, ScreenTypes, ListsAreRight, ShownIsListed
  <1>6. CASE Screen!RefetchMessages
    <2>1. UNCHANGED <<list, ranks, channels, server, channel>> /\ seen' \in BOOLEAN
      BY <1>6, ReadMessagesFacts DEF Screen!RefetchMessages
    <2> QED
      BY <1>1, <1>2, <2>1 DEF ScreenInv, ScreenTypes, ListsAreRight, ShownIsListed
  <1> QED
    BY <1>3, <1>4, <1>5, <1>6 DEF Screen!Refetch

LEMMA SelectStep ==
  ASSUME ScreenInv,
         \/ \E s \in Servers : Screen!SelectServer(s)
         \/ \E c \in Channels : Screen!SelectChannel(c)
  PROVE  ScreenInv'
  <1>1. UNCHANGED <<rank, home, sealed, message, list, ranks, channels, seen, job>>
    BY DEF Screen!SelectServer, Screen!SelectChannel, Screen!truth, Screen!caches
  <1>2. job' \in Job /\ JobIsRight'
    BY <1>1, JobStays
  <1>3. ASSUME NEW s \in Servers, Screen!Settle(s, NoChannel) PROVE ScreenInv'
    BY <1>1, <1>2, <1>3, SettleFacts DEF ScreenInv, ScreenTypes, ListsAreRight
  <1>4. ASSUME NEW c \in Channels, Screen!SelectChannel(c) PROVE ScreenInv'
    BY <1>1, <1>2, <1>4 DEF Screen!SelectChannel, ScreenInv, ScreenTypes, ListsAreRight, ShownIsListed
  <1> QED
    BY <1>3, <1>4 DEF Screen!SelectServer

LEMMA AnswerStep ==
  ASSUME ScreenInv,
         \/ Screen!AnswerServer \/ Screen!AnswerInvite \/ Screen!AnswerChannel \/ Screen!AnswerMember
         \/ Screen!AnswerMessage \/ Screen!LoseAnswer \/ Screen!Refuse
  PROVE  ScreenInv'
  <1>1. UNCHANGED <<rank, home, sealed, message>> /\ job' = Screen!None
    BY DEF Screen!AnswerServer, Screen!AnswerInvite, Screen!AnswerChannel, Screen!AnswerMember,
           Screen!AnswerMessage, Screen!LoseAnswer, Screen!Refuse, Screen!Ends, Screen!truth
  <1>2. job' \in Job /\ JobIsRight'
    BY <1>1, JobStays
  <1>3. /\ server \in Servers \union {NoServer} /\ channel \in Channels \union {NoChannel}
        /\ job.s \in Servers \union {NoServer} /\ job.c \in Channels \union {NoChannel}
    BY DEF ScreenInv, ScreenTypes, Job
  <1>4. CASE Screen!AnswerServer
    <2>1. list' \subseteq Servers /\ UNCHANGED <<ranks, channels, seen>>
      BY <1>4 DEF Screen!AnswerServer, Screen!Mine
    <2>2. CASE Screen!Settle(job.s, job.c) \/ Screen!Settle(NoServer, NoChannel)
      <3>1. channels' \in [Servers -> SUBSET Channels]
        BY <2>1 DEF ScreenInv, ScreenTypes
      <3>2. server' \in Servers \union {NoServer} /\ channel' \in Channels \union {NoChannel} /\ ShownIsListed'
        BY <1>3, <2>2, <3>1, SettleFacts
      <3> QED
        BY <1>1, <1>2, <2>1, <3>2 DEF ScreenInv, ScreenTypes, ListsAreRight
    <2>3. CASE Screen!SettleListed
      BY <1>1, <1>2, <2>1, <2>3, SettleListedFacts DEF ScreenInv, ScreenTypes, ListsAreRight
    <2> QED
      BY <1>4, <2>2, <2>3 DEF Screen!AnswerServer
  <1>5. CASE Screen!AnswerChannel
    <2>1. /\ Screen!ReadChannels(server) /\ UNCHANGED <<list, ranks, seen>>
          /\ Screen!Settle(server, IF job.kind = "encrypt" THEN channel ELSE job.c)
      BY <1>5 DEF Screen!AnswerChannel
    <2>2. channels' \in [Servers -> SUBSET Channels] /\ ListsAreRight'
      BY <1>1, <1>3, <2>1, ReadChannelsFacts
    <2>3. server' \in Servers \union {NoServer} /\ channel' \in Channels \union {NoChannel} /\ ShownIsListed'
      BY <1>3, <2>1, <2>2, SettleFacts
    <2> QED
      BY <1>1, <1>2, <2>1, <2>2, <2>3 DEF ScreenInv, ScreenTypes
  <1>6. CASE Screen!AnswerMember
    <2>1. UNCHANGED <<list, channels, seen, server, channel>> /\ ranks' \in [Servers -> Screen!Place]
      BY <1>3, <1>6, ReadMembersFacts DEF Screen!AnswerMember
    <2> QED
      BY <1>1, <1>2, <2>1 DEF ScreenInv, ScreenTypes, ListsAreRight, ShownIsListed
  <1>7. CASE Screen!AnswerMessage
    <2>1. UNCHANGED <<list, ranks, channels, server, channel>> /\ seen' \in BOOLEAN
      BY <1>7, ReadMessagesFacts DEF Screen!AnswerMessage
    <2> QED
      BY <1>1, <1>2, <2>1 DEF ScreenInv, ScreenTypes, ListsAreRight, ShownIsListed
  <1>8. CASE Screen!AnswerInvite \/ Screen!LoseAnswer \/ Screen!Refuse
    <2>1. UNCHANGED <<list, ranks, channels, seen, server, channel>>
      BY <1>8 DEF Screen!AnswerInvite, Screen!LoseAnswer, Screen!Refuse, Screen!caches
    <2> QED
      BY <1>1, <1>2, <2>1 DEF ScreenInv, ScreenTypes, ListsAreRight, ShownIsListed
  <1> QED
    BY <1>4, <1>5, <1>6, <1>7, <1>8

(* What is offered on a true picture will be accepted: member list, header and message menu   *)
(* ask for what the server asks for.                                                   *)
LEMMA OfferedWillDo ==
  ASSUME ScreenInv, NEW kind \in Screen!OfServer \union Screen!OfChannel \union {"create"},
         NEW grant \in 0..Screen!Admin, Screen!Offered(kind), Screen!Current(kind),
         NEW j, j.kind = kind, j.s = server, j.grant = grant,
         kind \in Screen!OfChannel => j.c = channel
  PROVE  /\ Screen!Accepted(j) \/ (j.kind = "edit" /\ j.c \in sealed)
         /\ kind \in Screen!OfChannel => j.c \in Channels /\ home[j.c] = j.s
         /\ kind \in Screen!OfMessage => j.c = message.in
         /\ kind # "create" => server \in Servers
  <1>1. kind \in {"create", "createInvite", "createChannel", "leave", "kick", "ban", "setRole", "encrypt",
                  "react", "edit", "delete"}
    BY DEF Screen!OfServer, Screen!OfChannel, Screen!OfMessage
  <1>2. server \in Servers => ranks[server] = rank[server] /\ rank[server] \in Screen!Place
    BY ScreenBounds DEF Screen!Current, ScreenInv, ScreenTypes
  <1>3. server \in Servers => rank[server].me \in (0 - 1)..4 /\ rank[server].other \in 0..4
    BY <1>2, PlaceFacts
  <1>4. kind \in Screen!OfChannel =>
          /\ channel \in Channels /\ server \in Servers /\ home[channel] = server /\ Screen!Member(server)
          /\ kind \in Screen!OfMessage => seen = message.there
    BY ScreenBounds
    DEF Screen!Current, Screen!SelectedChannel, Screen!OfChannel, ScreenInv, ScreenTypes, ListsAreRight
  <1>5. server # NoServer => server \in Servers
    BY DEF ScreenInv, ScreenTypes
  <1>6. Screen!MyRank = IF server = NoServer THEN 0 ELSE ranks[server].me
    BY ScreenBounds DEF Screen!MyRank
  <1>7. CASE kind = "create"
    BY <1>7 DEF Screen!Accepted, Screen!OfChannel, Screen!OfMessage
  <1>8. CASE kind \in {"createInvite", "createChannel"}
    <2>1. server \in Servers /\ rank[server].me >= 3
      BY <1>2, <1>3, <1>6, <1>8, ScreenBounds DEF Screen!Offered, Screen!SelectedServer, Screen!CanManageServer, ScreenInv, ScreenTypes
    <2> QED
      BY <1>8, <2>1, ScreenBounds DEF Screen!Accepted, Screen!OfChannel, Screen!OfMessage
  <1>9. CASE kind = "leave"
    BY <1>9 DEF Screen!Offered, Screen!SelectedServer, Screen!Accepted, Screen!OfChannel, Screen!OfMessage, ScreenInv, ScreenTypes
  <1>10. CASE kind \in {"kick", "ban", "setRole"}
    <2>1. /\ server \in Servers /\ Screen!Outranks(rank[server].me, rank[server].other)
          /\ kind = "setRole" => rank[server].me = 4
      BY <1>2, <1>5, <1>6, <1>10, ScreenBounds DEF Screen!Offered
    <2>2. Screen!AuthorityOver(rank[server])
      BY <2>1 DEF Screen!Outranks, Screen!AuthorityOver
    <2>3. kind = "setRole" => j.grant < rank[j.s].me
      BY <2>1, ScreenBounds
    <2>4. Screen!Accepted(j)
      BY <1>10, <2>2, <2>3 DEF Screen!Accepted, Screen!OfMessage
    <2> QED
      BY <1>10, <2>1, <2>4 DEF Screen!OfChannel, Screen!OfMessage
  <1>11. CASE kind = "encrypt"
    <2>1. kind \in Screen!OfChannel /\ kind \notin Screen!OfMessage
      BY <1>11 DEF Screen!OfChannel, Screen!OfMessage
    <2>2. rank[server].me >= 3
      BY <1>2, <1>4, <1>6, <1>11, <2>1, ScreenBounds DEF Screen!Offered, Screen!CanManageServer
    <2> QED
      BY <1>4, <1>11, <2>1, <2>2, ScreenBounds DEF Screen!Accepted
  <1>12. CASE kind \in Screen!OfMessage
    <2>1. kind \in Screen!OfChannel /\ kind \in {"react", "edit", "delete"}
      BY <1>12 DEF Screen!OfChannel, Screen!OfMessage
    <2>2. Screen!SeenHere
      BY <2>1 DEF Screen!Offered
    <2>3. message.there = TRUE /\ channel = message.in
      BY <1>4, <1>12, <2>1, <2>2 DEF Screen!SeenHere, ScreenInv, ScreenTypes
    <2>4. kind = "edit" => message.whose = "mine"
      BY DEF Screen!Offered
    <2>5. kind = "delete" => message.whose = "mine" \/ rank[server].me >= Screen!Moderator
      BY <1>2, <1>4, <1>6, <2>1, ScreenBounds DEF Screen!Offered
    <2>6. Screen!Member(home[j.c]) /\ j.c = channel /\ home[channel] = server
      BY <1>4, <2>1
    <2>7. Screen!Accepted(j) <=>
            /\ message.there /\ Screen!Member(home[j.c])
            /\ kind = "edit" => message.whose = "mine" /\ j.c \notin sealed
            /\ kind = "delete" => message.whose = "mine" \/ rank[home[j.c]].me >= Screen!Moderator
      BY <1>12, <2>1 DEF Screen!Accepted
    <2> QED
      BY <1>4, <2>1, <2>3, <2>4, <2>5, <2>6, <2>7
  <1> QED
    BY <1>1, <1>7, <1>8, <1>9, <1>10, <1>11, <1>12 DEF Screen!OfMessage

LEMMA PressStep ==
  ASSUME ScreenInv,
         \/ \E s \in Servers : Screen!PressJoin(s)
         \/ \E kind \in Screen!OfServer \union Screen!OfChannel \union {"create"}, grant \in 0..Screen!Admin :
              Screen!Press(kind, grant)
  PROVE  ScreenInv'
  <1>1. UNCHANGED <<rank, home, sealed, message, list, ranks, channels, seen, server, channel>>
    BY DEF Screen!PressJoin, Screen!Press, Screen!truth, Screen!caches
  <1>2. ASSUME NEW s \in Servers, Screen!PressJoin(s) PROVE ScreenInv'
    <2>1. job' = [Screen!None EXCEPT !.kind = "join", !.s = s, !.at = "sent", !.clean = FALSE]
      BY <1>2 DEF Screen!PressJoin
    <2>2. job' \in Job /\ job'.clean = FALSE
      BY <2>1, NoneFacts DEF Job, Kinds
    <2> QED
      BY <1>1, <2>2 DEF ScreenInv, ScreenTypes, ListsAreRight, ShownIsListed, JobIsRight
  <1>3. ASSUME NEW kind \in Screen!OfServer \union Screen!OfChannel \union {"create"},
               NEW grant \in 0..Screen!Admin, Screen!Press(kind, grant)
        PROVE  ScreenInv'
    <2>1. /\ job' = [kind |-> kind, s |-> server, c |-> IF kind \in Screen!OfChannel THEN channel ELSE NoChannel,
                     grant |-> grant, at |-> "sent", clean |-> Screen!Current(kind)]
          /\ Screen!Offered(kind)
      BY <1>3 DEF Screen!Press
    <2>2. Screen!Current(kind) \in BOOLEAN
      BY DEF Screen!Current
    <2>3. /\ job'.kind = kind /\ job'.s = server /\ job'.grant = grant /\ job'.at = "sent"
          /\ kind \in Screen!OfChannel => job'.c = channel
          /\ job'.clean = TRUE => Screen!Current(kind)
      BY <2>1, <2>2
    <2>4. job' \in Job
      BY <2>1, <2>2 DEF Job, Kinds, ScreenInv, ScreenTypes
    <2>5. PICK j : j = job'
      OBVIOUS
    <2>6. Screen!Current(kind) =>
            /\ Screen!Accepted(j) \/ (j.kind = "edit" /\ j.c \in sealed)
            /\ kind \in Screen!OfChannel => j.c \in Channels /\ home[j.c] = j.s
            /\ kind \in Screen!OfMessage => j.c = message.in
            /\ kind # "create" => server \in Servers
      BY <2>1, <2>3, <2>5, OfferedWillDo
    <2>7. kind \notin {"join", "none"}
      BY DEF Screen!OfServer, Screen!OfChannel, Screen!OfMessage
    <2>8. Screen!Accepted(j) => Screen!Accepted(job)'
      BY <1>1, <2>5 DEF Screen!Accepted, Screen!AuthorityOver, Screen!Member
    <2>9. JobIsRight'
      BY <1>1, <2>3, <2>5, <2>6, <2>7, <2>8 DEF JobIsRight, EditIsSealed
    <2> QED
      BY <1>1, <2>4, <2>9 DEF ScreenInv, ScreenTypes, ListsAreRight, ShownIsListed
  <1> QED
    BY <1>2, <1>3

(* A new channel is put into a community, and no other changes its own. *)
LEMMA MakeChannelFacts ==
  ASSUME ScreenInv, NEW s \in Servers \union {NoServer}, NEW c \in Channels, Screen!MakeChannel(s, c)
  PROVE  /\ home' \in [Channels -> Servers \union {NoServer}]
         /\ \A t \in Servers : \A d \in channels[t] : home'[d] = t
         /\ job' \in Job /\ job'.at = "done"
  <1>1. home[c] = NoServer /\ home' = [home EXCEPT ![c] = s]
    BY DEF Screen!MakeChannel
  <1>2. job' = [job EXCEPT !.s = s, !.c = c, !.at = "done"]
    BY DEF Screen!MakeChannel
  <1>3. job \in Job
    BY DEF ScreenInv, ScreenTypes
  <1>4. job' \in Job /\ job'.at = "done"
    BY <1>2, <1>3 DEF Job
  <1> QED
    BY <1>1, <1>4, ScreenBounds DEF ScreenInv, ScreenTypes, ListsAreRight

LEMMA ServeStep ==
  ASSUME ScreenInv, Screen!Serve
  PROVE  ScreenInv'
  <1>1. UNCHANGED <<list, ranks, channels, seen, server, channel>> /\ job.at = "sent"
    BY DEF Screen!Serve, Screen!caches
  <1>2. job \in Job /\ job.s \in Servers \union {NoServer} /\ job.grant \in 0..4
    BY ScreenBounds DEF ScreenInv, ScreenTypes, Job
  <1>3. CASE ~Screen!Accepted(job)
    <2>1. job' = [job EXCEPT !.at = "refused"] /\ UNCHANGED <<rank, home, sealed, message>>
      BY <1>3 DEF Screen!Serve, Screen!truth
    <2>2. /\ job' \in Job /\ job'.at = "refused" /\ job'.clean = job.clean /\ job'.kind = job.kind
          /\ job'.c = job.c
      BY <1>2, <2>1 DEF Job
    <2>3. JobIsRight'
      BY <1>1, <1>3, <2>1, <2>2 DEF ScreenInv, JobIsRight, EditIsSealed
    <2> QED
      BY <1>1, <2>1, <2>2, <2>3 DEF ScreenInv, ScreenTypes, ListsAreRight, ShownIsListed
  <1>4. ASSUME rank' \in [Servers -> Screen!Place],
               message' \in [in : Channels, whose : {"mine", "theirs"}, there : BOOLEAN],
               home' \in [Channels -> Servers \union {NoServer}],
               \A t \in Servers : \A d \in channels[t] : home'[d] = t,
               job' \in Job, job'.at = "done"
        PROVE  ScreenInv'
    BY <1>1, <1>4 DEF ScreenInv, ScreenTypes, ListsAreRight, ShownIsListed, JobIsRight
  <1>5. ASSUME NEW s \in Servers, NEW r \in (0 - 1)..4, rank' = [rank EXCEPT ![s].me = r]
        PROVE  rank' \in [Servers -> Screen!Place]
    <2>1. [rank[s] EXCEPT !.me = r] \in Screen!Place
      BY PlaceFacts DEF ScreenInv, ScreenTypes
    <2> QED
      BY <1>5, <2>1 DEF ScreenInv, ScreenTypes
  <1>6. ASSUME NEW s \in Servers, NEW r \in 0..4, rank' = [rank EXCEPT ![s].other = r]
        PROVE  rank' \in [Servers -> Screen!Place]
    <2>1. [rank[s] EXCEPT !.other = r] \in Screen!Place
      BY PlaceFacts DEF ScreenInv, ScreenTypes
    <2> QED
      BY <1>6, <2>1 DEF ScreenInv, ScreenTypes
  <1>7. CASE Screen!Accepted(job) /\ job.kind = "create"
    <2>1. PICK s \in Servers, c \in Channels :
            Screen!MakeChannel(s, c) /\ rank' = [rank EXCEPT ![s].me = Screen!OwnerRank] /\ UNCHANGED message
      BY <1>7 DEF Screen!Serve, Screen!Apply
    <2>2. rank' \in [Servers -> Screen!Place]
      <3>1. 4 \in (0 - 1)..4 /\ rank' = [rank EXCEPT ![s].me = 4]
        BY <2>1, ScreenBounds
      <3> QED
        BY <1>5, <3>1
    <2> QED
      BY <1>4, <2>1, <2>2, MakeChannelFacts DEF ScreenInv, ScreenTypes
  <1>8. CASE Screen!Accepted(job) /\ job.kind = "createChannel"
    <2>1. PICK c \in Channels : Screen!MakeChannel(job.s, c) /\ UNCHANGED <<rank, message>>
      BY <1>8 DEF Screen!Serve, Screen!Apply
    <2> QED
      BY <1>2, <1>4, <2>1, MakeChannelFacts DEF ScreenInv, ScreenTypes
  <1>9. CASE Screen!Accepted(job) /\ job.kind \notin {"create", "createChannel"}
    <2>1. /\ job' = [job EXCEPT !.at = "done"] /\ UNCHANGED home
          /\ message' = [message EXCEPT !.there = @ /\ job.kind # "delete"]
      BY <1>9 DEF Screen!Serve, Screen!Apply
    <2>2. \/ UNCHANGED rank
          \/ rank' = [rank EXCEPT ![job.s].me = 1]
          \/ rank' = [rank EXCEPT ![job.s].me = Screen!Outsider]
          \/ rank' = [rank EXCEPT ![job.s].other = Screen!Outsider]
          \/ rank' = [rank EXCEPT ![job.s].other = job.grant]
      BY <1>9 DEF Screen!Serve, Screen!Apply
    <2>3. rank' \in [Servers -> Screen!Place]
      <3>1. CASE job.s \in Servers
        BY <1>2, <1>5, <1>6, <2>2, <3>1, ScreenBounds DEF ScreenInv, ScreenTypes
      <3>2. CASE job.s \notin Servers
        BY <2>2, <3>2 DEF ScreenInv, ScreenTypes
      <3> QED
        BY <3>1, <3>2
    <2>4. job' \in Job /\ job'.at = "done"
      BY <1>2, <2>1 DEF Job
    <2>5. message' \in [in : Channels, whose : {"mine", "theirs"}, there : BOOLEAN]
      BY <2>1 DEF ScreenInv, ScreenTypes
    <2> QED
      BY <1>4, <2>1, <2>3, <2>4, <2>5 DEF ScreenInv, ScreenTypes, ListsAreRight
  <1> QED
    BY <1>3, <1>7, <1>8, <1>9

(* Others change a community: what the user asked for there is no more on a true picture, and  *)
(* elsewhere nothing changes.                                                         *)
LEMMA ChangeStep ==
  ASSUME ScreenInv, NEW s \in Servers, Screen!Change(s)
  PROVE  ScreenInv'
  <1>1. UNCHANGED <<home, list, ranks, channels, seen, server, channel>>
    BY DEF Screen!Change, Screen!caches
  <1>2. job' = IF job.s = s THEN [job EXCEPT !.clean = FALSE] ELSE job
    BY DEF Screen!Change
  <1>3. job \in Job /\ job.at \in {"none", "sent", "done", "refused"}
    BY DEF ScreenInv, ScreenTypes, Job
  <1>4. rank' \in [Servers -> Screen!Place] /\ \A t \in Servers : t # s => rank'[t] = rank[t]
    <2>1. CASE UNCHANGED rank
      BY <2>1 DEF ScreenInv, ScreenTypes
    <2>2. ASSUME NEW r \in Screen!Banned..Screen!Admin, rank' = [rank EXCEPT ![s].me = r]
          PROVE  rank' \in [Servers -> Screen!Place] /\ \A t \in Servers : t # s => rank'[t] = rank[t]
      <3>1. r \in (0 - 1)..4 /\ rank[s] \in Screen!Place
        BY ScreenBounds DEF ScreenInv, ScreenTypes
      <3>2. [rank[s] EXCEPT !.me = r] \in Screen!Place
        BY <3>1, PlaceFacts
      <3> QED
        BY <2>2, <3>2 DEF ScreenInv, ScreenTypes
    <2>3. ASSUME NEW r \in Screen!Outsider..Screen!Admin, rank' = [rank EXCEPT ![s].other = r]
          PROVE  rank' \in [Servers -> Screen!Place] /\ \A t \in Servers : t # s => rank'[t] = rank[t]
      <3>1. r \in 0..4 /\ rank[s] \in Screen!Place
        BY ScreenBounds DEF ScreenInv, ScreenTypes
      <3>2. [rank[s] EXCEPT !.other = r] \in Screen!Place
        BY <3>1, PlaceFacts
      <3> QED
        BY <2>3, <3>2 DEF ScreenInv, ScreenTypes
    <2> QED
      BY <2>1, <2>2, <2>3 DEF Screen!Change
  <1>5. /\ message' = message \/ home[message.in] = s
        /\ message' \in [in : Channels, whose : {"mine", "theirs"}, there : BOOLEAN]
        /\ message'.in = message.in
        /\ sealed \subseteq sealed' /\ \A c \in Channels : c \in sealed' => c \in sealed \/ home[c] = s
    <2>1. CASE UNCHANGED <<home, sealed, message>>
      BY <2>1 DEF ScreenInv, ScreenTypes
    <2>2. ASSUME NEW c \in Screen!ChannelsOf(s), c = message.in, UNCHANGED sealed,
                 message' = [message EXCEPT !.there = ~@]
          PROVE  /\ message' = message \/ home[message.in] = s
                 /\ message' \in [in : Channels, whose : {"mine", "theirs"}, there : BOOLEAN]
                 /\ message'.in = message.in
                 /\ sealed \subseteq sealed' /\ \A d \in Channels : d \in sealed' => d \in sealed \/ home[d] = s
      BY <2>2 DEF Screen!ChannelsOf, ScreenInv, ScreenTypes
    <2>3. ASSUME NEW c \in Screen!ChannelsOf(s), UNCHANGED message, sealed' = sealed \union {c}
          PROVE  /\ message' = message \/ home[message.in] = s
                 /\ message' \in [in : Channels, whose : {"mine", "theirs"}, there : BOOLEAN]
                 /\ message'.in = message.in
                 /\ sealed \subseteq sealed' /\ \A d \in Channels : d \in sealed' => d \in sealed \/ home[d] = s
      BY <2>3 DEF Screen!ChannelsOf, ScreenInv, ScreenTypes
    <2> QED
      BY <2>1, <2>2, <2>3 DEF Screen!Change
  <1>6. CASE job.s = s
    <2>1. job' \in Job /\ job'.clean = FALSE
      BY <1>2, <1>3, <1>6 DEF Job
    <2> QED
      BY <1>1, <1>4, <1>5, <2>1 DEF ScreenInv, ScreenTypes, ListsAreRight, ShownIsListed, JobIsRight
  <1>7. CASE job.s # s
    <2>1. job' = job
      BY <1>2, <1>7
    <2>2. EditIsSealed => EditIsSealed'
      BY <1>5, <2>1 DEF EditIsSealed
    <2>3. ASSUME job.at = "sent", job.clean = TRUE, Screen!Accepted(job)
          PROVE  Screen!Accepted(job)'
      <3>1. /\ job.kind \in Screen!OfChannel => job.c \in Channels /\ home[job.c] = job.s
            /\ job.kind \in Screen!OfMessage => job.c = message.in
            /\ job.kind \notin {"join", "none"} /\ (job.kind # "create" => job.s \in Servers)
        BY <2>3 DEF ScreenInv, JobIsRight
      <3>2. job.kind # "create" => rank'[job.s] = rank[job.s]
        BY <1>4, <1>7, <3>1
      <3>3. job.kind \in Screen!OfChannel => rank'[home[job.c]] = rank[home[job.c]]
        BY <3>1, <3>2 DEF Screen!OfChannel, Screen!OfMessage
      <3>4. job.kind \in Screen!OfMessage => message' = message /\ (job.c \in sealed' => job.c \in sealed)
        BY <1>5, <1>7, <3>1 DEF Screen!OfChannel
      <3>5. CASE job.kind \in Screen!OfMessage
        <4>1. job.kind \in Screen!OfChannel
          BY <3>5 DEF Screen!OfChannel
        <4> QED
          BY <1>1, <2>1, <2>3, <3>3, <3>4, <3>5, <4>1 DEF Screen!Accepted, Screen!OfMessage, Screen!Member
      <3>6. CASE job.kind = "encrypt"
        BY <1>1, <2>1, <2>3, <3>3, <3>6 DEF Screen!Accepted, Screen!OfMessage, Screen!OfChannel
      <3>7. CASE job.kind \notin Screen!OfMessage \union {"encrypt"}
        <4>1. job.kind \in {"create", "createInvite", "createChannel", "leave", "kick", "ban", "setRole", "none"}
          BY <1>3, <3>1, <3>7 DEF Job, Kinds, Screen!OfServer, Screen!OfChannel, Screen!OfMessage
        <4>2. CASE job.kind = "create"
          BY <2>1, <4>2 DEF Screen!Accepted, Screen!OfMessage
        <4>3. CASE job.kind \in {"createInvite", "createChannel", "leave"}
          BY <2>1, <2>3, <3>2, <4>3 DEF Screen!Accepted, Screen!OfMessage
        <4>4. CASE job.kind \in {"kick", "ban", "setRole"}
          BY <2>1, <2>3, <3>2, <4>4 DEF Screen!Accepted, Screen!AuthorityOver, Screen!OfMessage
        <4>5. job.kind # "none"
          BY <3>1
        <4> QED
          BY <4>1, <4>2, <4>3, <4>4, <4>5
      <3> QED
        BY <3>5, <3>6, <3>7
    <2>4. JobIsRight'
      BY <1>1, <1>5, <2>1, <2>2, <2>3 DEF ScreenInv, JobIsRight
    <2> QED
      BY <1>1, <1>3, <1>4, <1>5, <2>1, <2>4 DEF ScreenInv, ScreenTypes, ListsAreRight, ShownIsListed
  <1> QED
    BY <1>6, <1>7

LEMMA ScreenStep == ScreenInv /\ [Screen!Next]_screenVars => ScreenInv'
  <1> SUFFICES ASSUME ScreenInv, [Screen!Next]_screenVars PROVE ScreenInv'
    OBVIOUS
  <1>1. CASE Screen!Next
    <2>1. CASE Screen!Refetch \/ Screen!Serve
      BY <2>1, RefetchStep, ServeStep
    <2>2. CASE \/ Screen!Refuse \/ Screen!AnswerServer \/ Screen!AnswerInvite \/ Screen!AnswerChannel
               \/ Screen!AnswerMember \/ Screen!AnswerMessage \/ Screen!LoseAnswer
      BY <2>2, AnswerStep
    <2>3. CASE (\E s \in Servers : Screen!SelectServer(s)) \/ (\E c \in Channels : Screen!SelectChannel(c))
      BY <2>3, SelectStep
    <2>4. CASE \/ \E s \in Servers : Screen!PressJoin(s)
               \/ \E kind \in Screen!OfServer \union Screen!OfChannel \union {"create"}, grant \in 0..Screen!Admin :
                    Screen!Press(kind, grant)
      BY <2>4, PressStep
    <2>5. ASSUME NEW s \in Servers, Screen!Change(s) PROVE ScreenInv'
      BY <2>5, ChangeStep
    <2> QED
      BY <1>1, <2>1, <2>2, <2>3, <2>4, <2>5 DEF Screen!Next
  <1>2. CASE UNCHANGED screenVars
    <2>1. UNCHANGED <<rank, home, sealed, message, list, ranks, channels, seen, server, channel, job>>
      BY <1>2 DEF screenVars
    <2>2. job' \in Job /\ JobIsRight'
      BY <2>1, JobStays
    <2> QED
      BY <2>1, <2>2 DEF ScreenInv, ScreenTypes, ListsAreRight, ShownIsListed
  <1> QED
    BY <1>1, <1>2

LEMMA ScreenPart == CommunitySpec => [](part = "dashboard" => ScreenInv)
  <1>1. CommunityInit => (part = "dashboard" => ScreenInv)
    BY ScreenBegins DEF CommunityInit
  <1>2. (part = "dashboard" => ScreenInv) /\ [CommunityNext]_communityVars => (part = "dashboard" => ScreenInv)'
    BY ScreenStep DEF CommunityNext, communityVars
  <1> QED
    BY <1>1, <1>2, PTL DEF CommunitySpec

(* Whatever is answered after the user has turned to another community, the messages on      *)
(* screen are of the community on screen once the list of its channels has come              *)
(* (the effects of Dashboard.tsx).                                                     *)
THEOREM ShownIsOfServerHolds == CommunitySpec => []ShownIsOfServer
  <1>1. (part = "dashboard" => ScreenInv) => ShownIsOfServer
    BY DEF ShownIsOfServer, Screen!ShownIsOfServer, ScreenInv, ScreenTypes, ListsAreRight, ShownIsListed
  <1> QED
    BY <1>1, ScreenPart, PTL

(* A change that the dashboard offered on a true picture is accepted, in whichever order       *)
(* caches are read, others change things and the user goes elsewhere; but for an edit in an    *)
(* encrypted channel (MemberList.tsx and Dashboard.tsx against server/permissions.ts).         *)
THEOREM OfferedIsAcceptedHolds == CommunitySpec => []OfferedIsAccepted
  <1>1. (part = "dashboard" => ScreenInv) => OfferedIsAccepted
    BY DEF OfferedIsAccepted, Screen!OfferedIsAccepted, ScreenInv, ScreenTypes, Job, JobIsRight, EditIsSealed
  <1> QED
    BY <1>1, ScreenPart, PTL

-------------------------------------------------------------------------------
(* Arrival *)

Followed == wanted \in joined \union heard \union {NoServer}

(* The page that a request was made from stays until its answer, and what the link's page   *)
(* shows is so.                                                                     *)
PageIsRight ==
  /\ call.kind = "join" => page.name = "invite" /\ page.code = call.code /\ page.shows = "nothing"
  /\ call.kind = "sso" => page.name = "callback" /\ excused = TRUE
  /\ page.name = "invite" /\ page.shows = "joined" => page.code \in joined
  /\ page.name = "invite" /\ page.shows = "error" => page.code \in heard

(* Until the visitor is in, or was told why not, the code is in the address of the link's  *)
(* page, or waits while the visitor is elsewhere than on the dashboard.                *)
WayInv ==
  /\ page \in [name : Way!Pages, code : Servers \union {NoServer}, shows : {"nothing", "joined", "error"}]
  /\ pending \in Servers \union {NoServer}
  /\ PageIsRight
  /\ excused = FALSE =>
       \/ Followed
       \/ page.name = "invite" /\ page.code = wanted
       \/ page.name \notin {"invite", "dashboard"} /\ pending = wanted

LEMMA WayBegins == Way!Init => WayInv
  BY DEF Way!Init, WayInv, PageIsRight, Followed, Way!NoCall, Way!Pages

(* On the form's page, and where nothing changes but the form. *)
LEMMA FormStep ==
  ASSUME WayInv,
         \/ Way!LearnMe \/ Way!LearnInstance \/ Way!SignIn \/ Way!SessionEnds \/ Way!InstanceChanges
         \/ Way!Authenticate
         \/ \E c \in Servers : Way!TypeCode(c)
         \/ \E token \in BOOLEAN : Way!SignUp(token)
  PROVE  WayInv'
  <1>1. /\ UNCHANGED <<page, wanted, joined, heard, pending, excused>>
        /\ call' = call \/ call'.kind \notin {"join", "sso"}
    BY DEF Way!LearnMe, Way!LearnInstance, Way!SignIn, Way!SessionEnds, Way!InstanceChanges, Way!Authenticate,
           Way!TypeCode, Way!SignUp, Way!Steady, Way!NoCall, Way!SignedIn
  <1> QED
    BY <1>1 DEF WayInv, PageIsRight, Followed

(* From one page to another. *)
LEMMA PageStep ==
  ASSUME WayInv,
         \/ Way!SendToSignIn \/ Way!Land \/ Way!Back \/ Way!Resume \/ Way!GoToDashboard
         \/ Way!SentHome \/ Way!Logout
         \/ \E c \in Servers : Way!OpenLink(c)
  PROVE  WayInv'
  <1>1. CASE Way!SendToSignIn
    BY <1>1
    DEF Way!SendToSignIn, Way!Stash, Way!Go, Way!At, Way!Steady, Way!NoCall, Way!Pages, WayInv, PageIsRight, Followed
  <1>2. CASE Way!Land
    BY <1>2 DEF Way!Land, Way!Go, Way!At, Way!Steady, Way!Pages, WayInv, PageIsRight, Followed
  <1>3. CASE Way!Back
    BY <1>3 DEF Way!Back, Way!Go, Way!Steady, Way!NoCall, Way!Pages, WayInv, PageIsRight, Followed
  <1>4. CASE Way!Resume \/ Way!GoToDashboard
    BY <1>4
    DEF Way!Resume, Way!GoToDashboard, Way!Go, Way!At, Way!Steady, Way!NoCall, Way!Pages, WayInv, PageIsRight, Followed
  <1>5. CASE Way!SentHome \/ Way!Logout
    BY <1>5 DEF Way!SentHome, Way!Logout, Way!Go, Way!At, Way!Steady, Way!Pages, WayInv, PageIsRight, Followed
  <1>6. ASSUME NEW c \in Servers, Way!OpenLink(c) PROVE WayInv'
    BY <1>6 DEF Way!OpenLink, Way!Go, Way!NoCall, Way!Pages, WayInv, PageIsRight, Followed
  <1> QED
    BY <1>1, <1>2, <1>3, <1>4, <1>5, <1>6

(* The request of the link's page, and its answer. *)
LEMMA JoinStep ==
  ASSUME WayInv, Way!Attempt \/ Way!JoinByInvite
  PROVE  WayInv'
  <1>1. CASE Way!Attempt
    BY <1>1 DEF Way!Attempt, Way!At, Way!Steady, Way!NoCall, WayInv, PageIsRight, Followed
  <1>2. CASE Way!JoinByInvite
    <2>1. /\ call.kind = "join" /\ call'.kind = "none"
          /\ page.name = "invite" /\ page.code = call.code
          /\ UNCHANGED <<wanted, pending>>
      BY <1>2 DEF Way!JoinByInvite, Way!Steady, Way!NoCall, WayInv, PageIsRight
    <2>2. CASE page' = [page EXCEPT !.shows = "joined"] /\ joined' = joined \union {call.code}
               /\ UNCHANGED <<heard, excused>>
      BY <2>1, <2>2 DEF WayInv, PageIsRight, Followed
    <2>3. CASE /\ page' = [page EXCEPT !.shows = "error"] /\ heard' = heard \union {call.code}
               /\ joined \subseteq joined' /\ UNCHANGED excused
      BY <2>1, <2>3 DEF WayInv, PageIsRight, Followed
    <2>4. CASE excused' = TRUE /\ Way!Go("home", NoServer)
      BY <2>1, <2>4 DEF WayInv, PageIsRight, Way!Go, Way!Pages
    <2> QED
      BY <1>2, <2>2, <2>3, <2>4 DEF Way!JoinByInvite
  <1> QED
    BY <1>1, <1>2

(* By the provider. *)
LEMMA ProviderStep ==
  ASSUME WayInv, Way!StartSso \/ Way!Sso
  PROVE  WayInv'
  <1>1. excused' = TRUE
    BY DEF Way!StartSso, Way!Sso, WayInv, PageIsRight
  <1>2. CASE Way!StartSso
    BY <1>1, <1>2 DEF Way!StartSso, Way!Go, Way!NoCall, Way!Pages, WayInv, PageIsRight
  <1>3. CASE Way!Sso /\ UNCHANGED pending /\ Way!Go("dashboard", NoServer)
    BY <1>1, <1>3 DEF Way!Sso, Way!Go, Way!NoCall, Way!Pages, WayInv, PageIsRight
  <1>4. CASE Way!Sso /\ page' = [page EXCEPT !.shows = "error"]
    <2>1. UNCHANGED <<joined, heard>> /\ page.name = "callback" /\ call'.kind = "none" /\ UNCHANGED pending
      BY <1>4 DEF Way!Sso, Way!NoCall, WayInv, PageIsRight, Way!Go
    <2> QED
      BY <1>1, <1>4, <2>1 DEF WayInv, PageIsRight
  <1> QED
    BY <1>2, <1>3, <1>4 DEF Way!Sso

LEMMA WayStep == WayInv /\ [Way!Next]_wayVars => WayInv'
  <1> SUFFICES ASSUME WayInv, [Way!Next]_wayVars PROVE WayInv'
    OBVIOUS
  <1>1. CASE Way!Next
    BY <1>1, FormStep, PageStep, JoinStep, ProviderStep DEF Way!Next
  <1>2. CASE UNCHANGED wayVars
    BY <1>2 DEF wayVars, WayInv, PageIsRight, Followed
  <1> QED
    BY <1>1, <1>2

(* Whoever opened an invitation link and has come to the dashboard is in its community, or    *)
(* was told why not, whatever sign-in, sign-up, older code and failed answer came between       *)
(* (Invite.tsx, Home.tsx, AuthContext.tsx).                                              *)
THEOREM InviteFollowedHolds == CommunitySpec => []InviteFollowed
  <1>1. CommunityInit => (part = "arrival" => WayInv)
    BY WayBegins DEF CommunityInit
  <1>2. (part = "arrival" => WayInv) /\ [CommunityNext]_communityVars => (part = "arrival" => WayInv)'
    BY WayStep DEF CommunityNext, communityVars
  <1>3. (part = "arrival" => WayInv) => InviteFollowed
    BY DEF InviteFollowed, Way!InviteFollowed, Way!At, WayInv, Followed
  <1> QED
    BY <1>1, <1>2, <1>3, PTL DEF CommunitySpec
===============================================================================
