----------------------------- MODULE MCCommunity -----------------------------
(* A community for TLC: its members and ranks as the server keeps them, from the      *)
(* making of the community and, with more requests at once, after it; its rooms, what the *)
(* dashboard offers on the ranks, and the way in by an invitation link.  The parts    *)
(* share no state, so a run is about one of them: `part` says which, and the          *)
(* variables of the others stay as they are.                                       *)
(* Communities, invitation codes and slots of requests are the same model values.    *)
EXTENDS Membership, Integers, FiniteSets, TLC

CONSTANTS
  Guest, Space, General, Texts, Nobody, MaxActs, MaxFaults,
  Servers, NoServer, Channels, NoChannel, MaxChanges, MaxPresses, MaxLinks, MaxTroubles

VARIABLES
  part,
  role, banned, maker, listed, membership, levels, roomCall, adrift, acts, faults,
  rank, home, sealed, message, list, ranks, channels, locks, seen, server, channel, job,
  changes, presses,
  policy, empty, works, account, session, joined, page, me, pending, form, call, wanted, heard,
  excused, links, troubles

(* An owner, an admin beside another, a moderator, and somebody banned. *)
Places == {[me |-> 4, other |-> 3], [me |-> 3, other |-> 3],
           [me |-> 2, other |-> 1], [me |-> -1, other |-> 4]}

Matrix == INSTANCE Rooms WITH Channels <- Texts, Requests <- Servers, call <- roomCall
Screen == INSTANCE Dashboard
Way == INSTANCE Arrival WITH Codes <- Servers, NoCode <- NoServer

ASSUME PartsAssumption ==
  Matrix!RoomsAssumption /\ Screen!DashboardAssumption /\ Way!ArrivalAssumption

roomVars ==
  <<role, banned, maker, listed, membership, levels, roomCall, adrift, acts, faults>>
screenVars == <<rank, home, sealed, message, list, ranks, channels, locks, seen, server, channel,
                job, changes, presses>>
wayVars == <<policy, empty, works, account, session, joined, page, me, pending, form, call, wanted,
             heard, excused, links, troubles>>
communityVars == <<part, vars, roomVars, screenVars, wayVars>>

Off == "off"
RoomsOff ==
  /\ role = Off /\ banned = Off /\ maker = Off /\ listed = Off /\ membership = Off
  /\ levels = Off /\ roomCall = Off /\ adrift = Off /\ acts = Off /\ faults = Off
ScreenOff ==
  /\ rank = Off /\ home = Off /\ sealed = Off /\ message = Off /\ list = Off /\ ranks = Off
  /\ channels = Off /\ locks = Off /\ seen = Off /\ server = Off /\ channel = Off /\ job = Off
  /\ changes = Off /\ presses = Off
WayOff ==
  /\ policy = Off /\ empty = Off /\ works = Off /\ account = Off /\ session = Off /\ joined = Off
  /\ page = Off /\ me = Off /\ pending = Off /\ form = Off /\ call = Off /\ wanted = Off
  /\ heard = Off /\ excused = Off /\ links = Off /\ troubles = Off

(* The run begins with one community, of any place but an admin's, or with two the    *)
(* user is an admin of; a second one can be created.  The user changes something twice *)
(* where they own the community, which then starts in plain text, and once elsewhere. *)
ScreenInit ==
  /\ Screen!Init
  /\ \/ /\ Screen!Existing # Servers /\ \A s \in Servers : rank[s] # [me |-> 3, other |-> 3]
        /\ IF \E s \in Servers : rank[s].me = Screen!OwnerRank
           THEN presses = 0 /\ sealed = {} ELSE presses = 1
     \/ /\ sealed # {} /\ \A s \in Servers : rank[s] = [me |-> 3, other |-> 3]
        /\ presses = 1

(* The community is made, there is an invitation code, nobody has joined. *)
Made ==
  /\ phase = "done" /\ bans = {} /\ codes = 1
  /\ members = [u \in Users |-> IF u = Owner THEN {"owner"} ELSE {}]
  /\ space = [u \in Users |-> IF u = Owner THEN "in" ELSE "out"]
  /\ req = [r \in Requests |-> Idle]

(* Nothing tells apart the two who do not own the community: of two starts that swap *)
(* them, one will do.                                                            *)
RoomsInit ==
  /\ Matrix!Init
  /\ \A u \in Users \ {Owner} : Matrix!Rank[role[Guest]] <= Matrix!Rank[role[u]]

Busy == {r \in Requests : req[r].pc # "idle"}

(* One request at a time, of and about everybody. *)
Alone == Cardinality(Busy) <= 1

(* As many requests as there are slots, all of them about one user, and made by that user *)
(* or by the owner.                                                                *)
Crowd ==
  \A r \in Busy :
    /\ req[r].actor \in {Owner, Guest} /\ req[r].pc # "codeRole"
    /\ Guest \in {req[r].actor, req[r].target} /\ (req[r].target = Owner => req[r].kind = "none")

(* A slot that is no community is taken when all others are. *)
LastIsLast == \A r \in Busy' \ Busy : r \notin Servers => Servers \subseteq Busy

CommunityInit ==
  /\ part \in {"ranks", "crowd", "rooms", "dashboard", "arrival"}
  /\ IF part = "crowd" THEN Made ELSE Init
  /\ IF part = "rooms" THEN RoomsInit ELSE RoomsOff
  /\ IF part = "dashboard" THEN ScreenInit ELSE ScreenOff
  /\ IF part = "arrival" THEN Way!Init ELSE WayOff

CommunityNext ==
  /\ UNCHANGED part
  /\ \/ part = "ranks" /\ Next /\ Alone' /\ LastIsLast /\ UNCHANGED <<roomVars, screenVars, wayVars>>
     \/ part = "crowd" /\ Next /\ Crowd' /\ LastIsLast /\ UNCHANGED <<roomVars, screenVars, wayVars>>
     \/ part = "rooms" /\ Matrix!Next /\ UNCHANGED <<vars, screenVars, wayVars>>
     \/ part = "dashboard" /\ Screen!Next /\ UNCHANGED <<vars, roomVars, wayVars>>
     \/ part = "arrival" /\ Way!Next /\ UNCHANGED <<vars, roomVars, screenVars>>

CommunitySpec == CommunityInit /\ [][CommunityNext]_communityVars

(* Every variable of the part has its type. *)
TypesOK ==
  /\ part \in {"ranks", "crowd"} => TypeOK
  /\ part = "rooms" => Matrix!TypeOK
  /\ part = "dashboard" => Screen!TypeOK
  /\ part = "arrival" => Way!TypeOK

(* Rooms: the level of a member is that of the role, unless something is known to     *)
(* have kept it from being written.                                               *)
LevelsFollow == part = "rooms" => Matrix!LevelsFollow

(* Dashboard: the messages on screen are of the community on screen. *)
ShownIsOfServer == part = "dashboard" => Screen!ShownIsOfServer

(* Dashboard: what is offered on a true picture is accepted. *)
OfferedIsAccepted == part = "dashboard" => Screen!OfferedIsAccepted

(* Arrival: who opened a link and signed in is in, or was told why not. *)
InviteFollowed == part = "arrival" => Way!InviteFollowed

Symmetry ==
  Permutations(Servers) \union Permutations(Channels)
==============================================================================
