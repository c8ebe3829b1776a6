--------------------------------- MODULE Rooms ---------------------------------
(* The Matrix rooms of one community, its Space and the rooms of its channels,    *)
(* and what the server's handlers make of them (server/routers.ts,                *)
(* server/matrixBridge.ts, server/matrixService.ts): who is inside, and the power  *)
(* levels that mirror the roles.                                                 *)
(*                                                                              *)
(* A mirror goes room by room and one call after the other, with the token of the  *)
(* person who acts; a call that fails is passed over.  A level is set by reading    *)
(* the whole event, changing one user and writing it back.  The rows of a           *)
(* membership, which module Membership takes apart, are one value here.            *)
EXTENDS Naturals

CONSTANTS
  Users, Owner,    \* the accounts, and the one who made the community
  Space, General,  \* its Space, and the room of its first channel
  Channels,        \* the rooms of its channels, the first one included
  Nobody,          \* the maker of a room that is not made
  Requests,        \* slots for API requests being served
  MaxActs,         \* bound on the requests that write
  MaxFaults        \* bound on the calls that fail

(* Where a request is, but for the room it is about. *)
Steps == {"idle", "begun", "made", "list", "rooms"}

RoomsAssumption ==
  /\ Owner \in Users /\ Nobody \notin Users /\ General \in Channels /\ Space \notin Channels
  /\ Steps \intersect (Channels \union {Space}) = {}
  /\ MaxActs \in Nat /\ MaxFaults \in Nat

VARIABLES
  role,       \* each user's role in serverMembers, "none" without a row
  banned,     \* the users in serverBans
  maker,      \* who made each channel's room
  listed,     \* the channels that have a row
  membership, \* each user's membership of each room
  levels,     \* each room's m.room.power_levels, its users
  call,       \* the requests
  adrift,     \* rooms and users whose level has a reason not to be that of the role
  acts, faults

vars == <<role, banned, maker, listed, membership, levels, call, adrift, acts, faults>>
app == <<role, banned>>
matrix == <<maker, listed, membership, levels>>

Rank == [none |-> 0, member |-> 1, moderator |-> 2, admin |-> 3, owner |-> 4]
POWER_LEVELS == [none |-> 0, member |-> 0, moderator |-> 50, admin |-> 75, owner |-> 100]

Rooms == Channels \union {Space}
Made == {Space} \union {c \in Channels : maker[c] # Nobody}

Idle == [at |-> "idle", kind |-> "none", actor |-> Owner, target |-> Owner, role |-> "none",
         rooms |-> {}, read |-> [u \in Users |-> 0], raced |-> FALSE, clean |-> TRUE]

(* servers.create is over: the owner is inside of both rooms, with every power.  Others   *)
(* have joined since, may have been given a role, one after the other, or be banned.   *)
Init ==
  /\ role \in {f \in [Users -> DOMAIN Rank] : \A u \in Users : f[u] = "owner" <=> u = Owner}
  /\ banned \in SUBSET {u \in Users : role[u] = "none"}
  /\ maker = [c \in Channels |-> IF c = General THEN Owner ELSE Nobody]
  /\ listed = {General}
  /\ membership = [r \in Rooms |-> [u \in Users |->
                     IF r \notin {Space, General} THEN "out"
                     ELSE IF u \in banned THEN "banned"
                     ELSE IF role[u] = "none" THEN "out" ELSE "in"]]
  /\ levels = [r \in Rooms |-> [u \in Users |->
                 IF r \in {Space, General} THEN POWER_LEVELS[role[u]] ELSE 0]]
  /\ call = [q \in Requests |-> Idle]
  /\ adrift = {} /\ acts = 0 /\ faults = 0

(* -------------------------------------------------------------- the homeserver *)

In(u, room) == membership[room][u] = "in"

Set(room, u, state) == membership' = [membership EXCEPT ![room][u] = state]

(* Kicks and bans take the moderator's level, and more than the target's.           *)
MayRemove(actor, target, room) ==
  /\ In(actor, room)
  /\ levels[room][actor] >= 50 /\ levels[room][actor] > levels[room][target]

(* Nobody gives more than they have, or takes from whoever has as much; what a level  *)
(* short of the maker's may change at all is the homeserver's to say.               *)
MayWrite(actor, room, new) ==
  /\ In(actor, room) /\ levels[room][actor] >= 50
  /\ \A u \in Users : new[u] # levels[room][u] =>
       /\ new[u] <= levels[room][actor]
       /\ u # actor => levels[room][u] < levels[room][actor]

(* Another Matrix client of somebody who is in the Space enters a channel's room.    *)
ClientEnters(u, c) ==
  /\ maker[c] # Nobody /\ In(u, Space) /\ membership[c][u] = "out"
  /\ Set(c, u, "in")
  /\ UNCHANGED <<app, maker, listed, levels, call, adrift, acts, faults>>

(* ----------------------------------------------------------------- the requests *)

Fault == faults < MaxFaults /\ faults' = faults + 1

(* The requests that set a level of a user, from their check on.                     *)
Setting(u) == {q \in Requests : call[q].kind = "role" /\ call[q].target = u}

Begin(q, kind, actor, target) ==
  /\ call[q].at = "idle" /\ acts < MaxActs /\ acts' = acts + 1
  /\ call' = [call EXCEPT ![q] = [Idle EXCEPT !.at = "begun", !.kind = kind,
                                              !.actor = actor, !.target = target]]

End(q) == call' = [call EXCEPT ![q] = Idle]

(* serverRoomIds: the Space and the channels that are listed by now. *)
ServerRoomIds == {Space} \union listed

(* The request goes on with another room, or with what comes after the last one.      *)
NextRoom(q, room) ==
  call' = [call EXCEPT ![q].rooms = @ \ {room}, ![q].read = Idle.read, ![q].raced = FALSE,
                       ![q].at = "rooms"]

Abort(q) ==
  /\ call[q].at # "idle" /\ Fault
  /\ End(q)
  /\ adrift' = IF call[q].kind = "role" THEN adrift \union (Rooms \X {call[q].target}) ELSE adrift
  /\ UNCHANGED <<app, matrix, acts>>

(* ------------------------------------------------------- channels.create *)

CreateChannel(q, actor) ==
  /\ Begin(q, "channel", actor, actor)
  /\ Rank[role[actor]] >= Rank["admin"]
  /\ UNCHANGED <<app, matrix, adrift, faults>>

(* The maker of a room is its only member, and has every power in it; the Space takes  *)
(* the new child from whoever has a moderator's level there.                         *)
CreateChannelRoom(q) ==
  LET actor == call[q].actor IN
  /\ call[q].kind = "channel" /\ call[q].at = "begun"
  /\ \E c \in Channels :
       /\ maker[c] = Nobody
       /\ maker' = [maker EXCEPT ![c] = actor]
       /\ Set(c, actor, "in")
       /\ levels' = [levels EXCEPT ![c][actor] = 100]
       /\ IF In(actor, Space) /\ levels[Space][actor] >= 50
          THEN call' = [call EXCEPT ![q].at = "made", ![q].rooms = {c}] ELSE End(q)
       /\ adrift' = adrift \union {<<c, u>> : u \in {v \in Users :
                      v = actor \/ Rank[role[v]] > Rank["member"] \/ Setting(v) # {}}}
  /\ UNCHANGED <<app, listed, acts, faults>>

(* Until the channel has its row, no request sees its room.                          *)
ListChannel(q) ==
  /\ call[q].kind = "channel" /\ call[q].at = "made"
  /\ listed' = listed \union call[q].rooms
  /\ End(q)
  /\ adrift' = adrift \union (call[q].rooms \X {u \in Users :
                 Rank[role[u]] > Rank["member"] \/ Setting(u) # {}})
  /\ UNCHANGED <<app, maker, membership, levels, acts, faults>>

(* ------------------------------- servers.join, servers.joinByInvite, servers.leave *)

Join(q, u) ==
  /\ Begin(q, "join", u, u)
  /\ role[u] = "none" /\ u \notin banned
  /\ UNCHANGED <<app, matrix, adrift, faults>>

(* The channels are listed, and the owner's token invites; who cannot enter the Space   *)
(* is not let in.                                                                  *)
JoinSpace(q) ==
  LET u == call[q].actor IN
  /\ call[q].kind = "join" /\ call[q].at = "begun"
  /\ IF membership[Space][u] = "banned" THEN End(q) /\ UNCHANGED membership
     ELSE Set(Space, u, "in") /\ call' = [call EXCEPT ![q].at = "rooms", ![q].rooms = listed]
  /\ UNCHANGED <<app, maker, listed, levels, adrift, acts, faults>>

JoinRoom(q, room) ==
  LET u == call[q].actor IN
  /\ call[q].kind = "join" /\ call[q].at = "rooms" /\ room \in call[q].rooms
  /\ \/ membership[room][u] # "banned" /\ In(u, Space) /\ Set(room, u, "in") /\ UNCHANGED faults
     \/ (membership[room][u] = "banned" \/ ~In(u, Space)) /\ UNCHANGED <<membership, faults>>
     \/ Fault /\ UNCHANGED membership
  /\ NextRoom(q, room)
  /\ UNCHANGED <<app, maker, listed, levels, adrift, acts>>

AddServerMember(q) ==
  LET u == call[q].actor IN
  /\ call[q].kind = "join" /\ call[q].at = "rooms" /\ call[q].rooms = {}
  /\ role' = [role EXCEPT ![u] = IF @ = "none" THEN "member" ELSE @]
  /\ End(q)
  /\ UNCHANGED <<banned, matrix, adrift, acts, faults>>

Leave(q, u) ==
  /\ Begin(q, "leave", u, u)
  /\ u # Owner
  /\ UNCHANGED <<app, matrix, adrift, faults>>

LeaveRoom(q, room) ==
  LET u == call[q].actor IN
  /\ call[q].kind = "leave" /\ call[q].at = "rooms" /\ room \in call[q].rooms
  /\ \/ In(u, room) /\ Set(room, u, "out") /\ UNCHANGED faults
     \/ ~In(u, room) /\ UNCHANGED <<membership, faults>>
     \/ Fault /\ UNCHANGED membership
  /\ NextRoom(q, room)
  /\ UNCHANGED <<app, maker, listed, levels, adrift, acts>>

(* ------------------------------------------------------- setRole, kick, ban, unban *)

(* requireAuthorityOver: strictly below. *)
AuthorityOver(actor, target) ==
  /\ Rank[role[actor]] >= Rank["moderator"]
  /\ role[target] # "none" /\ Rank[role[actor]] > Rank[role[target]]

SetRole(q, actor, target, granted) ==
  /\ call[q].at = "idle" /\ acts < MaxActs /\ acts' = acts + 1
  /\ AuthorityOver(actor, target) /\ Rank[granted] < Rank[role[actor]]
  /\ call' = [p \in Requests |->
       CASE p = q -> [Idle EXCEPT !.at = "begun", !.kind = "role", !.actor = actor,
                                  !.target = target, !.role = granted,
                                  !.clean = Setting(target) = {}]
         [] p # q /\ p \in Setting(target) -> [call[p] EXCEPT !.clean = FALSE]
         [] OTHER -> call[p]]
  /\ UNCHANGED <<app, matrix, adrift, faults>>

Remove(q, kind, actor, target) ==
  /\ Begin(q, kind, actor, target)
  /\ AuthorityOver(actor, target)
  /\ UNCHANGED <<app, matrix, adrift, faults>>

(* The row of a role, then the list of the rooms.  Of a leave, a kick or a ban, the     *)
(* rooms come first.                                                                 *)
SetServerMemberRole(q) ==
  LET target == call[q].target IN
  /\ call[q].kind = "role" /\ call[q].at = "begun"
  /\ role' = [role EXCEPT ![target] = IF @ = "none" THEN @ ELSE call[q].role]
  /\ call' = [call EXCEPT ![q].at = "list"]
  /\ UNCHANGED <<banned, matrix, adrift, acts, faults>>

ListRooms(q) ==
  /\ \/ call[q].kind = "role" /\ call[q].at = "list"
     \/ call[q].kind \in {"leave", "kick", "ban"} /\ call[q].at = "begun"
  /\ call' = [call EXCEPT ![q].at = "rooms", ![q].rooms = ServerRoomIds]
  /\ UNCHANGED <<app, matrix, adrift, acts, faults>>

(* setPowerLevel reads the event; a room the actor is not in gives none.                *)
ReadLevels(q, room) ==
  /\ call[q].kind = "role" /\ call[q].at = "rooms" /\ room \in call[q].rooms
  /\ \/ /\ In(call[q].actor, room)
        /\ call' = [call EXCEPT ![q].at = room, ![q].read = levels[room]]
        /\ UNCHANGED <<adrift, faults>>
     \/ /\ ~In(call[q].actor, room) /\ UNCHANGED faults
        /\ NextRoom(q, room) /\ adrift' = adrift \union {<<room, call[q].target>>}
     \/ /\ Fault
        /\ NextRoom(q, room) /\ adrift' = adrift \union {<<room, call[q].target>>}
  /\ UNCHANGED <<app, matrix, acts>>

(* Plausible bug: the two people of syncPowerLevels are taken for one another. *)
AmendedOfActor(q) == [call[q].read EXCEPT ![call[q].actor] = POWER_LEVELS[call[q].role]]

Amended(q) == [call[q].read EXCEPT ![call[q].target] = POWER_LEVELS[call[q].role]]

(* ... and writes all of it back.  A clean write settles the level of its target; one    *)
(* that was overtaken puts every level of the room in doubt.                          *)
WriteLevels(q, room) ==
  /\ call[q].kind = "role" /\ call[q].at = room
  /\ \/ /\ MayWrite(call[q].actor, room, Amended(q))
        /\ levels' = [levels EXCEPT ![room] = Amended(q)]
        /\ call' = [p \in Requests |->
             CASE p = q -> [call[q] EXCEPT !.rooms = @ \ {room}, !.read = Idle.read,
                                           !.raced = FALSE, !.at = "rooms"]
               [] p # q /\ call[p].at = room -> [call[p] EXCEPT !.raced = TRUE]
               [] OTHER -> call[p]]
        /\ adrift' = CASE call[q].raced -> adrift \union ({room} \X Users)
                       [] ~call[q].raced /\ ~call[q].clean ->
                            adrift \union {<<room, call[q].target>>}
                       [] OTHER -> adrift \ {<<room, call[q].target>>}
        /\ UNCHANGED faults
     \/ /\ \/ UNCHANGED faults /\ \/ ~MayWrite(call[q].actor, room, Amended(q))
                                  \/ levels[room][call[q].actor] < 100
           \/ Fault
        /\ NextRoom(q, room) /\ adrift' = adrift \union {<<room, call[q].target>>}
        /\ UNCHANGED levels
  /\ UNCHANGED <<app, maker, listed, membership, acts>>

EndSetRole(q) ==
  /\ call[q].kind = "role" /\ call[q].at = "rooms" /\ call[q].rooms = {}
  /\ End(q)
  /\ UNCHANGED <<app, matrix, adrift, acts, faults>>

RemoveFromRoom(q, room) ==
  LET target == call[q].target
      done == MayRemove(call[q].actor, target, room)
              /\ (call[q].kind = "ban" \/ In(target, room))
  IN
  /\ call[q].kind \in {"kick", "ban"} /\ call[q].at = "rooms" /\ room \in call[q].rooms
  /\ \/ done /\ Set(room, target, IF call[q].kind = "ban" THEN "banned" ELSE "out")
        /\ UNCHANGED faults
     \/ ~done /\ UNCHANGED <<membership, faults>>
     \/ Fault /\ UNCHANGED membership
  /\ NextRoom(q, room)
  /\ UNCHANGED <<app, maker, listed, levels, adrift, acts>>

(* The row goes, and no level with it.                                                *)
RemoveServerMember(q) ==
  LET target == call[q].target IN
  /\ call[q].kind \in {"leave", "kick", "ban"} /\ call[q].at = "rooms" /\ call[q].rooms = {}
  /\ role' = [role EXCEPT ![target] = "none"]
  /\ banned' = IF call[q].kind = "ban" THEN banned \union {target} ELSE banned
  /\ call' = [p \in Requests |->
       CASE p = q -> Idle
         [] p # q /\ p \in Setting(target) -> [call[p] EXCEPT !.clean = FALSE]
         [] OTHER -> call[p]]
  /\ adrift' = IF Rank[role[target]] > Rank["member"] \/ Setting(target) # {}
               THEN adrift \union (Rooms \X {target}) ELSE adrift
  /\ UNCHANGED <<matrix, acts, faults>>

Unban(actor, target) ==
  /\ Rank[role[actor]] >= Rank["moderator"] /\ target \in banned
  /\ acts < MaxActs /\ acts' = acts + 1
  /\ banned' = banned \ {target}
  /\ UNCHANGED <<role, matrix, call, adrift, faults>>

Next ==
  \/ \E q \in Requests :
       \/ CreateChannelRoom(q) \/ ListChannel(q) \/ JoinSpace(q) \/ AddServerMember(q)
       \/ SetServerMemberRole(q) \/ ListRooms(q) \/ EndSetRole(q) \/ RemoveServerMember(q)
       \/ Abort(q)
       \/ \E room \in Rooms : \/ JoinRoom(q, room) \/ LeaveRoom(q, room)
                              \/ ReadLevels(q, room) \/ WriteLevels(q, room)
                              \/ RemoveFromRoom(q, room)
       \/ \E u \in Users : CreateChannel(q, u) \/ Join(q, u) \/ Leave(q, u)
       \/ \E u, v \in Users :
            \/ \E kind \in {"kick", "ban"} : Remove(q, kind, u, v)
            \/ \E granted \in {"member", "moderator", "admin"} : SetRole(q, u, v, granted)
  \/ \E u \in Users : \/ \E c \in Channels : ClientEnters(u, c)
                      \/ \E v \in Users : Unban(u, v)

Spec == Init /\ [][Next]_vars

(* ---------------------------------------------------------------- properties *)

TypeOK ==
  /\ role \in [Users -> DOMAIN Rank] /\ banned \subseteq Users
  /\ maker \in [Channels -> Users \union {Nobody}] /\ listed \subseteq Channels
  /\ membership \in [Rooms -> [Users -> {"out", "in", "banned"}]]
  /\ levels \in [Rooms -> [Users -> {0, 50, 75, 100}]]
  /\ adrift \subseteq Rooms \X Users /\ acts \in 0..MaxActs /\ faults \in 0..MaxFaults

(* Hazard, two writers of one event: the level a member has in a room is that of the     *)
(* role, once nobody is setting it, unless one of these happened since it was last set   *)
(* undisturbed: the room is newer, or its maker is the member; the call failed or was     *)
(* refused; two requests set the member's role, or wrote in the room, at once; the member *)
(* was gone in between.  (syncPowerLevels mirrors a role onto every room.)               *)
LevelsFollow ==
  \A room \in ServerRoomIds, u \in Users :
    role[u] # "none" /\ Setting(u) = {} /\ <<room, u>> \notin adrift
      => levels[room][u] = POWER_LEVELS[role[u]]

(* Not so: docs/ROADMAP.md:59, "Kick and ban mirror onto Matrix room membership".  In a   *)
(* channel an admin made the owner has no power, and the call that fails is passed over:  *)
(* who was banned stays inside, and a client that syncs for itself goes on reading.      *)
BannedAreOut ==
  (\A q \in Requests : call[q].at = "idle") =>
    \A room \in Made, u \in banned : ~In(u, room)

(* Not so: docs/adr/0008-client-side-matrix.md:163-164, power levels "are already kept in *)
(* sync".  A channel made later knows none of the moderators, and who was removed keeps    *)
(* the levels and has them again when they return as a member.                          *)
LevelsInSync ==
  (\A q \in Requests : call[q].at = "idle") =>
    \A room \in Made, u \in Users : role[u] # "none" => levels[room][u] = POWER_LEVELS[role[u]]

(* Not so: server/matrixService.ts:478-480, "join a community, get its channels".  Nobody   *)
(* but its maker is put into the room of a channel made after they joined, and what they   *)
(* send there through the API the homeserver refuses.                                   *)
MembersAreInside ==
  (\A q \in Requests : call[q].at = "idle") =>
    \A c \in listed, u \in Users : role[u] # "none" => In(u, c)
================================================================================
