------------------------------ MODULE Membership ------------------------------
(*****************************************************************************)
(* Membership of one community ("server" in the code): the serverMembers and  *)
(* serverBans tables, the invite code, and the Matrix Space that mirrors them *)
(* (server/routers.ts, server/permissions.ts, server/matrixBridge.ts).        *)
(*                                                                            *)
(* A request takes one step per awaited statement: one query of the database, *)
(* or the calls it makes to the homeserver for one room.  No statement runs   *)
(* in a transaction with another, so requests interleave between any two.     *)
(* Abort is a statement that throws, and a restart: the request ends there.   *)
(*                                                                            *)
(* serverMembers has no unique key, so a user can hold several rows.  No code *)
(* counts them: a user is abstracted to the set of roles on those rows, and a *)
(* query with "limit 1" reads any one of them.  The rooms and their power     *)
(* levels are the subject of module Rooms; here only the Space's own          *)
(* membership is kept, and any call to the homeserver may fail.               *)
(*****************************************************************************)
EXTENDS Naturals

CONSTANTS
  Users,     \* the accounts of the instance
  Owner,     \* the one who creates the community
  Requests,  \* slots for API requests being served
  MaxCodes   \* bound on the invite codes ever generated

ASSUME OwnerAssumption == Owner \in Users /\ MaxCodes \in Nat

VARIABLES
  phase,     \* how far servers.create went: "stuck..." when it ended there
  members,   \* the roles on each user's rows of serverMembers
  bans,      \* the users in serverBans
  space,     \* each user's membership of the Matrix Space
  codes,     \* invite codes generated; the last one is the community's, 0 is none
  req        \* the API requests

vars == <<phase, members, bans, space, codes, req>>

ServerRole == {"member", "moderator", "admin", "owner"}
Rank(role) == CASE role = "owner" -> 4
                [] role = "admin" -> 3
                [] role = "moderator" -> 2
                [] role = "member" -> 1

Phases == {"none", "inserted", "owned", "done", "stuckInserted", "stuckOwned"}
Exists == phase # "none"

Steps == {"idle", "joinBan", "inviteMember", "joinRooms", "joinEnter", "joinAdd", "leaving",
          "target", "role", "rooms", "remove", "record", "unban", "codeRole", "codeSave"}
Request == [pc: Steps, kind: {"none", "role", "kick", "ban"}, actor: Users, target: Users,
            role: ServerRole, rank: 0..4, code: 0..MaxCodes]
Idle == [pc |-> "idle", kind |-> "none", actor |-> Owner, target |-> Owner,
         role |-> "member", rank |-> 0, code |-> 0]

Init ==
  /\ phase = "none"
  /\ members = [u \in Users |-> {}]
  /\ bans = {}
  /\ space = [u \in Users |-> "out"]
  /\ codes = 0
  /\ req = [r \in Requests |-> Idle]

-----------------------------------------------------------------------------
(* server/permissions.ts *)

(* What getServerRole can answer: the owner column decides for the owner, any  *)
(* row for anybody else.                                                       *)
GetServerRole(u) == IF u = Owner THEN {"owner"} ELSE members[u]
IsServerMember(u) == GetServerRole(u) # {}
AtLeast(u, minimum) == {role \in GetServerRole(u) : Rank(role) \geq Rank(minimum)}

End(r) == req' = [req EXCEPT ![r] = Idle]
Goto(r, step) == req' = [req EXCEPT ![r].pc = step]

-----------------------------------------------------------------------------
(* servers.create: the row of the community is there, and public, before its   *)
(* owner's membership row and its first channel.                               *)

CreateServer ==
  /\ phase = "none"
  /\ phase' = "inserted"
  /\ space' = [space EXCEPT ![Owner] = "in"]
  /\ UNCHANGED <<members, bans, codes, req>>

CreateOwner ==
  /\ phase = "inserted"
  /\ phase' = "owned"
  /\ members' = [members EXCEPT ![Owner] = @ \union {"owner"}]
  /\ UNCHANGED <<bans, space, codes, req>>

CreateGeneral ==
  /\ phase = "owned"
  /\ phase' = "done"
  /\ UNCHANGED <<members, bans, space, codes, req>>

CreateAborts ==
  /\ \/ phase = "inserted" /\ phase' = "stuckInserted"
     \/ phase = "owned" /\ phase' = "stuckOwned"
  /\ UNCHANGED <<members, bans, space, codes, req>>

-----------------------------------------------------------------------------
(* servers.join and servers.joinByInvite *)

(* join asks for membership first and for the ban second ... *)
Join(r, u) ==
  /\ req[r].pc = "idle" /\ Exists
  /\ ~IsServerMember(u)
  /\ req' = [req EXCEPT ![r] = [Idle EXCEPT !.pc = "joinBan", !.actor = u]]
  /\ UNCHANGED <<phase, members, bans, space, codes>>

JoinBanCheck(r) ==
  /\ req[r].pc = "joinBan"
  /\ IF req[r].actor \in bans THEN End(r) ELSE Goto(r, "joinRooms")
  /\ UNCHANGED <<phase, members, bans, space, codes>>

(* Mutant: a code is all it takes. *)
JoinByInviteUnbanned(r, u) ==
  /\ req[r].pc = "idle" /\ codes > 0
  /\ req' = [req EXCEPT ![r] = [Idle EXCEPT !.pc = "inviteMember", !.actor = u]]
  /\ UNCHANGED <<phase, members, bans, space, codes>>

(* ... joinByInvite the other way round. *)
JoinByInvite(r, u) ==
  /\ req[r].pc = "idle" /\ codes > 0
  /\ u \notin bans
  /\ req' = [req EXCEPT ![r] = [Idle EXCEPT !.pc = "inviteMember", !.actor = u]]
  /\ UNCHANGED <<phase, members, bans, space, codes>>

InviteMemberCheck(r) ==
  /\ req[r].pc = "inviteMember"
  /\ IF IsServerMember(req[r].actor) THEN End(r) ELSE Goto(r, "joinRooms")
  /\ UNCHANGED <<phase, members, bans, space, codes>>

(* joinServerRooms: the owner's token invites, best effort; then the joiner    *)
(* enters, or the request fails.                                               *)
JoinInvite(r) ==
  LET u == req[r].actor IN
  /\ req[r].pc = "joinRooms"
  /\ \/ space[u] = "out" /\ space' = [space EXCEPT ![u] = "invited"]
     \/ UNCHANGED space
  /\ Goto(r, "joinEnter")
  /\ UNCHANGED <<phase, members, bans, codes>>

JoinEnter(r) ==
  LET u == req[r].actor IN
  /\ req[r].pc = "joinEnter"
  /\ \/ /\ space[u] \in {"invited", "in"}
        /\ space' = [space EXCEPT ![u] = "in"]
        /\ Goto(r, "joinAdd")
     \/ End(r) /\ UNCHANGED space
  /\ UNCHANGED <<phase, members, bans, codes>>

AddServerMember(r) ==
  /\ req[r].pc = "joinAdd"
  /\ members' = [members EXCEPT ![req[r].actor] = @ \union {"member"}]
  /\ End(r)
  /\ UNCHANGED <<phase, bans, space, codes>>

-----------------------------------------------------------------------------
(* servers.leave: nobody asks whether the caller is a member. *)

(* Mutant: owners leave too. *)
AnyoneLeaves(r, u) ==
  /\ req[r].pc = "idle" /\ Exists
  /\ UNCHANGED space
  /\ req' = [req EXCEPT ![r] = [Idle EXCEPT !.pc = "leaving", !.actor = u]]
  /\ UNCHANGED <<phase, members, bans, codes>>

Leave(r, u) ==
  /\ req[r].pc = "idle" /\ Exists
  /\ u # Owner
  /\ \/ space[u] \in {"invited", "in"} /\ space' = [space EXCEPT ![u] = "out"]
     \/ UNCHANGED space
  /\ req' = [req EXCEPT ![r] = [Idle EXCEPT !.pc = "leaving", !.actor = u]]
  /\ UNCHANGED <<phase, members, bans, codes>>

LeaveRemove(r) ==
  /\ req[r].pc = "leaving"
  /\ members' = [members EXCEPT ![req[r].actor] = {}]
  /\ End(r)
  /\ UNCHANGED <<phase, bans, space, codes>>

-----------------------------------------------------------------------------
(* moderation.setRole, kick and ban *)

(* requireAuthorityOver reads the actor's role, then the target's. *)
AuthorityActor(r, kind, actor, target, role) ==
  /\ req[r].pc = "idle" /\ Exists
  /\ actor # target
  /\ \E own \in AtLeast(actor, "moderator") :
       req' = [req EXCEPT ![r] = [Idle EXCEPT !.pc = "target", !.kind = kind, !.actor = actor,
                                  !.target = target, !.role = role, !.rank = Rank(own)]]
  /\ UNCHANGED <<phase, members, bans, space, codes>>

AuthorityTarget(r) ==
  /\ req[r].pc = "target"
  /\ \/ /\ \E theirs \in GetServerRole(req[r].target) : req[r].rank > Rank(theirs)
        /\ IF req[r].kind # "role"
             THEN Goto(r, "rooms")
             ELSE Rank(req[r].role) < req[r].rank /\ Goto(r, "role")
     \/ /\ \/ GetServerRole(req[r].target) = {}
           \/ \E theirs \in GetServerRole(req[r].target) : req[r].rank \leq Rank(theirs)
           \/ req[r].kind = "role" /\ Rank(req[r].role) \geq req[r].rank
        /\ End(r)
  /\ UNCHANGED <<phase, members, bans, space, codes>>

(* Mutants: the update names the community and not the user; it inserts the row   *)
(* it does not find.                                                            *)
SetRoleOfEveryone(r) ==
  /\ req[r].pc = "role"
  /\ members' = [u \in Users |-> IF members[u] = {} THEN {} ELSE {req[r].role}]
  /\ End(r)
  /\ UNCHANGED <<phase, bans, space, codes>>

SetRoleUpserts(r) ==
  /\ req[r].pc = "role"
  /\ members' = [members EXCEPT ![req[r].target] = {req[r].role}]
  /\ End(r)
  /\ UNCHANGED <<phase, bans, space, codes>>

(* Every row of the target, if there is still one, gets the role. *)
SetRole(r) ==
  LET u == req[r].target IN
  /\ req[r].pc = "role"
  /\ members' = [members EXCEPT ![u] = IF @ = {} THEN {} ELSE {req[r].role}]
  /\ End(r)
  /\ UNCHANGED <<phase, bans, space, codes>>

(* removeFromServerRooms, best effort. *)
RemoveFromRooms(r) ==
  LET u == req[r].target IN
  /\ req[r].pc = "rooms"
  /\ \/ req[r].kind = "kick" /\ space[u] \in {"invited", "in"} /\ space' = [space EXCEPT ![u] = "out"]
     \/ req[r].kind = "ban" /\ space' = [space EXCEPT ![u] = "banned"]
     \/ UNCHANGED space
  /\ Goto(r, "remove")
  /\ UNCHANGED <<phase, members, bans, codes>>

RemoveServerMember(r) ==
  /\ req[r].pc = "remove"
  /\ members' = [members EXCEPT ![req[r].target] = {}]
  /\ IF req[r].kind = "ban" THEN Goto(r, "record") ELSE End(r)
  /\ UNCHANGED <<phase, bans, space, codes>>

BanServerMember(r) ==
  /\ req[r].pc = "record"
  /\ bans' = bans \union {req[r].target}
  /\ End(r)
  /\ UNCHANGED <<phase, members, space, codes>>

(* moderation.unban: the Matrix ban stays. *)
Unban(r, actor, target) ==
  /\ req[r].pc = "idle" /\ Exists
  /\ AtLeast(actor, "moderator") # {}
  /\ req' = [req EXCEPT ![r] = [Idle EXCEPT !.pc = "unban", !.actor = actor, !.target = target]]
  /\ UNCHANGED <<phase, members, bans, space, codes>>

UnbanServerMember(r) ==
  /\ req[r].pc = "unban"
  /\ bans' = bans \ {req[r].target}
  /\ End(r)
  /\ UNCHANGED <<phase, members, space, codes>>

-----------------------------------------------------------------------------
(* servers.createInvite: the code is read before the caller's role is. *)

InviteRead(r, u) ==
  /\ req[r].pc = "idle" /\ Exists
  /\ req' = [req EXCEPT ![r] = [Idle EXCEPT !.pc = "codeRole", !.actor = u, !.code = codes]]
  /\ UNCHANGED <<phase, members, bans, space, codes>>

InviteRole(r) ==
  /\ req[r].pc = "codeRole"
  /\ IF AtLeast(req[r].actor, "admin") # {} /\ req[r].code = 0
       THEN Goto(r, "codeSave")
       ELSE End(r)
  /\ UNCHANGED <<phase, members, bans, space, codes>>

SetServerInviteCode(r) ==
  /\ req[r].pc = "codeSave"
  /\ codes < MaxCodes
  /\ codes' = codes + 1
  /\ End(r)
  /\ UNCHANGED <<phase, members, bans, space>>

-----------------------------------------------------------------------------
Abort(r) ==
  /\ req[r].pc # "idle"
  /\ End(r)
  /\ UNCHANGED <<phase, members, bans, space, codes>>

Create == CreateServer \/ CreateOwner \/ CreateGeneral \/ CreateAborts

Begin(r, u) ==
  \/ Join(r, u) \/ JoinByInvite(r, u) \/ Leave(r, u) \/ InviteRead(r, u)
  \/ \E t \in Users :
       \/ Unban(r, u, t)
       \/ \E role \in ServerRole \ {"owner"} : AuthorityActor(r, "role", u, t, role)
       \/ \E kind \in {"kick", "ban"} : AuthorityActor(r, kind, u, t, "member")

Continue(r) ==
  \/ JoinBanCheck(r) \/ InviteMemberCheck(r) \/ JoinInvite(r) \/ JoinEnter(r) \/ AddServerMember(r)
  \/ LeaveRemove(r) \/ AuthorityTarget(r) \/ SetRole(r) \/ RemoveFromRooms(r)
  \/ RemoveServerMember(r) \/ BanServerMember(r) \/ UnbanServerMember(r)
  \/ InviteRole(r) \/ SetServerInviteCode(r)

Next ==
  \/ Create
  \/ \E r \in Requests : (\E u \in Users : Begin(r, u)) \/ Continue(r) \/ Abort(r)

Spec == Init /\ [][Next]_vars

-----------------------------------------------------------------------------
(* Properties *)

(* Types; roles are sets because nothing keeps a member's row unique. *)
TypeOK ==
  /\ phase \in Phases
  /\ members \in [Users -> SUBSET ServerRole]
  /\ bans \subseteq Users
  /\ space \in [Users -> {"out", "invited", "in", "banned"}]
  /\ codes \in 0..MaxCodes
  /\ req \in [Requests -> Request]

(* Whatever interleaves, the owner is never banned and never loses the owner's *)
(* row, and nobody else gets one (requireAuthorityOver's strictness, leave's   *)
(* refusal, join's early return).                                              *)
OwnerSafe ==
  /\ Owner \notin bans
  /\ phase \in {"owned", "done", "stuckOwned"} => members[Owner] = {"owner"}
  /\ \A u \in Users \ {Owner} : "owner" \notin members[u]

(* "Only the owner hands out admin" (moderation.setRole): whoever becomes an   *)
(* admin does so by a request of the owner, even when the roles the request    *)
(* was checked against have changed since.                                     *)
AdminsByOwner ==
  [][\A u \in Users :
       "admin" \in members'[u] \ members[u] =>
         \E r \in Requests :
           req[r].pc = "role" /\ req[r].actor = Owner /\ req[r].target = u /\ req'[r] # req[r]]_vars

(* No membership of u, and no join of u that the ban can no longer stop.       *)
Out(u) ==
  /\ members[u] = {}
  /\ \A r \in Requests :
       req[r].actor = u => req[r].pc \notin {"inviteMember", "joinRooms", "joinEnter", "joinAdd"}

(* A ban that has caught its target outside keeps it outside until the ban is  *)
(* lifted, by discovery and by invite code.                                    *)
BanIsFinal == [][\A u \in Users : u \in bans /\ Out(u) => u \notin bans' \/ Out(u)']_vars

(* Whoever was removed comes back as a plain member: a rank never survives a   *)
(* removal, whatever setRole was in flight.                                    *)
ReturnsAsMember ==
  [][\A u \in Users \ {Owner} : members[u] = {} => members'[u] \subseteq {"member"}]_vars

(* What the checks a request has passed say about it for good. *)
Sound(q) ==
  /\ q.pc \in {"joinBan", "joinRooms", "joinEnter", "joinAdd", "leaving"} => q.actor # Owner
  /\ q.pc \in {"role", "rooms", "remove", "record"} => q.target # Owner
  /\ q.role # "owner"
  /\ q.pc \in {"target", "role"} /\ q.rank = 4 => q.actor = Owner
  /\ q.pc = "role" => Rank(q.role) < q.rank

(* The inductive invariant of membership (MembershipProofs). *)
IndInv ==
  /\ TypeOK /\ OwnerSafe
  /\ phase \notin {"owned", "done", "stuckOwned"} => members[Owner] = {}
  /\ \A r \in Requests : Sound(req[r])

-----------------------------------------------------------------------------
(* Statements of the documentation that the code does not keep *)

Settled == phase \notin {"inserted", "owned"} /\ \A r \in Requests : req[r].pc = "idle"

(* Bans are recorded "so they can't simply walk back in through discovery or   *)
(* an invite link" (drizzle/schema.ts).                                        *)
BannedStayOut == Settled => \A u \in bans : members[u] = {}

(* "You may only act on someone strictly below you" (requireAuthorityOver):    *)
(* when a role is set or a member removed, the actor outranks the target.      *)
StrictlyBelow ==
  [][\A r \in Requests, u \in Users :
       /\ req[r].pc \in {"role", "remove"} /\ req[r].target = u
       /\ req'[r] # req[r] /\ members'[u] # members[u]
       => \E own \in GetServerRole(req[r].actor), theirs \in members[u] : Rank(own) > Rank(theirs)]_vars

(* createInvite's "create (or return the existing) shareable invite code": the *)
(* codes handed out are all one code.                                          *)
OneCode == codes \leq 1

(* "Every server starts with a #general channel" (servers.create). *)
GeneralExists == Settled /\ Exists => phase = "done"
===============================================================================
