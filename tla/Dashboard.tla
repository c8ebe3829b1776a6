------------------------------ MODULE Dashboard ------------------------------
(* What the web client's dashboard shows and offers (client/src/pages/            *)
(* Dashboard.tsx, client/src/components/MemberList.tsx), against what the server   *)
(* accepts (server/permissions.ts, server/routers.ts).                            *)
(*                                                                              *)
(* The dashboard decides from caches: the communities the user is in, their         *)
(* channels, the user's rank and the members' ranks, the messages.  A cache is     *)
(* read when what it shows comes on screen, at intervals, and after some of the    *)
(* user's own changes; meanwhile others change what it was read from.  A change     *)
(* the user asks for ends after any number of clicks, and moves the selection.      *)
(* Two effects settle the selection whenever it or a list changes.                 *)
(*                                                                              *)
(* One other member stands for everybody the user may moderate, and there is one    *)
(* message.  All communities are public.                                          *)
EXTENDS Integers, FiniteSets

CONSTANTS
  Servers, NoServer,               \* communities
  Channels, NoChannel,
  Places,                          \* the ranks in a community the run begins with
  MaxChanges,                      \* bound: changes by others, and lost answers
  MaxPresses                       \* bound: changes the user asks for

Banned == -1                       \* nobody's member, and kept out
Outsider == 0                      \* no member
Moderator == 2
Admin == 3
OwnerRank == 4
Ranks == Banned..OwnerRank

Place == [me : Ranks, other : Outsider..OwnerRank]

DashboardAssumption ==
  /\ Places \subseteq Place /\ MaxChanges \in Nat /\ MaxPresses \in Nat
  /\ NoServer \notin Servers /\ NoChannel \notin Channels

VARIABLES
  rank,          \* in each community, the user's and the other's
  home,          \* the community each channel is in
  sealed,        \* the channels that are encrypted
  message,       \* the message: in which channel, whose, and whether it is there
  list,          \* cache: servers.list
  ranks,         \* cache: serverMembers.myRole and serverMembers.list
  channels,      \* cache: channels.listByServer
  locks,         \* ... and which of them it calls encrypted
  seen,          \* cache: messages.listByChannel, whether it has the message
  server,        \* selectedServerId
  channel,       \* selectedChannelId
  job,           \* the change the user asked for
  changes, presses

truth == <<rank, home, sealed, message>>
caches == <<list, ranks, channels, locks, seen>>
vars == <<truth, caches, server, channel, job, changes, presses>>

None == [kind |-> "none", s |-> NoServer, c |-> NoChannel, grant |-> 0, at |-> "none", clean |-> FALSE]

ChannelsOf(s) == {c \in Channels : home[c] = s}
Existing == {s \in Servers : ChannelsOf(s) # {}}
Member(s) == rank[s].me > Outsider

(* A community has a channel; nothing has been read. *)
Init ==
  /\ home \in [Channels -> Servers \union {NoServer}]
  /\ Existing # {} /\ \A s \in Servers : Cardinality(ChannelsOf(s)) <= 1
  /\ rank \in [Servers -> Places \union {[me |-> Outsider, other |-> Outsider]}]
  /\ \A s \in Servers : s \in Existing <=> (rank[s].other > Outsider \/ rank[s].me > Outsider)
  /\ sealed \in {{}, {c \in Channels : home[c] # NoServer}}
  /\ \E c \in Channels, whose \in {"mine", "theirs"} :
       home[c] # NoServer /\ message = [in |-> c, whose |-> whose, there |-> TRUE]
  /\ list = {} /\ locks = {}
  /\ ranks = [s \in Servers |-> [me |-> Outsider, other |-> Outsider]]
  /\ channels = [s \in Servers |-> {}] /\ seen = FALSE
  /\ server = NoServer /\ channel = NoChannel
  /\ job = None /\ changes = 0 /\ presses \in 0..MaxPresses

(* ------------------------------------------------------------- the selection *)

(* Plausible bug: a channel is picked only while none is selected. *)
StraysIfUnset(s, c) == c = NoChannel

(* The selected channel is none of the selected community's. *)
Strays(s, c) == c \notin channels'[s]

(* The two effects: a community when none is selected, its first channel when the    *)
(* selected one is not in its list.  The order of the lists is left open.          *)
Settle(s, c) ==
  /\ server' \in IF s = NoServer /\ list # {} THEN list ELSE {s}
  /\ channel' \in IF server' # NoServer /\ channels'[server'] # {} /\ Strays(server', c)
                  THEN channels'[server'] ELSE {c}

(* ... when the list has just been read. *)
SettleListed ==
  /\ server' \in IF server = NoServer /\ list' # {} THEN list' ELSE {server}
  /\ channel' \in IF server' # server /\ channels'[server'] # {}
                  THEN channels'[server'] ELSE {channel}

SelectServer(s) ==
  /\ s \in list
  /\ UNCHANGED <<truth, caches, job, changes, presses>>
  /\ Settle(s, NoChannel)

SelectChannel(c) ==
  /\ server # NoServer /\ c \in channels[server]
  /\ channel' = c
  /\ UNCHANGED <<truth, caches, server, job, changes, presses>>

(* ----------------------------------------------------------------- the caches *)

Mine == {s \in Servers : Member(s)}

(* A query that is refused leaves the data it had. *)
ReadChannels(s) ==
  IF s # NoServer /\ Member(s)
  THEN /\ channels' = [channels EXCEPT ![s] = ChannelsOf(s)]
       /\ locks' = (locks \ ChannelsOf(s)) \union (sealed \intersect ChannelsOf(s))
  ELSE UNCHANGED <<channels, locks>>

ReadMembers(s) ==
  IF s # NoServer /\ Member(s) THEN ranks' = [ranks EXCEPT ![s].other = rank[s].other]
  ELSE UNCHANGED ranks

ReadMessages(c) ==
  IF c = message.in /\ Member(home[c]) THEN seen' = message.there ELSE UNCHANGED seen

RefetchList ==
  /\ list' = Mine
  /\ UNCHANGED <<ranks, channels, locks, seen>>
  /\ SettleListed

RefetchChannels ==
  /\ server # NoServer /\ ReadChannels(server)
  /\ UNCHANGED <<list, ranks, seen>>
  /\ Settle(server, channel)

RefetchRanks ==
  /\ server # NoServer
  /\ \/ ranks' = [ranks EXCEPT ![server].me = IF Member(server) THEN rank[server].me ELSE Outsider]
     \/ ReadMembers(server)
  /\ UNCHANGED <<list, channels, locks, seen, server, channel>>

RefetchMessages ==
  /\ ReadMessages(channel)
  /\ UNCHANGED <<list, ranks, channels, locks, server, channel>>

Refetch ==
  /\ RefetchList \/ RefetchChannels \/ RefetchRanks \/ RefetchMessages
  /\ UNCHANGED <<truth, job, changes, presses>>

(* ------------------------------------------------------------ what is offered *)

(* The community and the channel the header names. *)
SelectedServer == server \in list
SelectedChannel == server # NoServer /\ channel \in channels[server]

(* Plausible bug: whoever is of the same rank can be moderated. *)
OutranksOrEqual(mine, theirs) == mine >= Moderator /\ theirs > Outsider /\ mine >= theirs

(* canModerate of the member list. *)
Outranks(mine, theirs) == mine >= Moderator /\ theirs > Outsider /\ mine > theirs

MyRank == IF server = NoServer THEN Outsider ELSE ranks[server].me
CanManageServer == MyRank >= Admin

SeenHere == seen /\ channel = message.in

Offered(kind) ==
  CASE kind = "create" -> TRUE
    [] kind \in {"createInvite", "createChannel"} -> SelectedServer /\ CanManageServer
    [] kind = "leave" -> SelectedServer /\ rank[server].me # OwnerRank
    [] kind = "encrypt" -> SelectedChannel /\ channel \notin locks /\ CanManageServer
    [] kind \in {"kick", "ban"} -> server # NoServer /\ Outranks(MyRank, ranks[server].other)
    [] kind = "setRole" -> server # NoServer /\ Outranks(MyRank, ranks[server].other) /\ MyRank = OwnerRank
    [] kind = "react" -> SeenHere
    [] kind = "edit" -> SeenHere /\ message.whose = "mine"
    [] kind = "delete" -> SeenHere /\ (message.whose = "mine" \/ MyRank >= Moderator)

OfServer == {"createInvite", "createChannel", "leave", "kick", "ban", "setRole"}
OfMessage == {"react", "edit", "delete"}
OfChannel == {"encrypt"} \union OfMessage

(* What the control was decided from is as it was read. *)
Current(kind) ==
  /\ server # NoServer => ranks[server] = rank[server]
  /\ kind \in OfChannel => SelectedChannel /\ Member(server)
  /\ kind \in OfMessage => seen = message.there

(* One change at a time: the button waits for its own. *)
Asks == job = None /\ presses < MaxPresses /\ presses' = presses + 1

Press(kind, grant) ==
  /\ Asks /\ Offered(kind)
  /\ kind = "setRole" => ranks[server].other # grant
  /\ job' = [kind |-> kind, s |-> server, c |-> IF kind \in OfChannel THEN channel ELSE NoChannel,
             grant |-> grant, at |-> "sent", clean |-> Current(kind)]
  /\ UNCHANGED <<truth, caches, server, channel, changes>>

(* Discover offers every public community that is not in the list. *)
PressJoin(s) ==
  /\ Asks /\ s \in Existing \ list
  /\ job' = [None EXCEPT !.kind = "join", !.s = s, !.at = "sent", !.clean = FALSE]
  /\ UNCHANGED <<truth, caches, server, channel, changes>>

(* ------------------------------------------------------------- what is accepted *)

(* requireAuthorityOver: strictly below. *)
AuthorityOver(p) == p.me >= Moderator /\ p.other > Outsider /\ p.me > p.other

Accepted(j) ==
  CASE j.kind = "create" -> TRUE
    [] j.kind \in {"createInvite", "createChannel"} -> rank[j.s].me >= Admin
    [] j.kind = "join" -> rank[j.s].me # Banned
    [] j.kind = "leave" -> rank[j.s].me # OwnerRank
    [] j.kind = "encrypt" -> rank[home[j.c]].me >= Admin
    [] j.kind \in {"kick", "ban"} -> AuthorityOver(rank[j.s])
    [] j.kind = "setRole" -> AuthorityOver(rank[j.s]) /\ j.grant < rank[j.s].me
    [] j.kind \in OfMessage ->
         /\ message.there /\ Member(home[j.c])
         /\ j.kind = "edit" => message.whose = "mine" /\ j.c \notin sealed
         /\ j.kind = "delete" => message.whose = "mine" \/ rank[home[j.c]].me >= Moderator

(* A new channel is encrypted when the instance offers encryption. *)
MakeChannel(s, c) ==
  /\ home[c] = NoServer
  /\ home' = [home EXCEPT ![c] = s]
  /\ sealed' \in {sealed, sealed \union {c}}
  /\ job' = [job EXCEPT !.s = s, !.c = c, !.at = "done"]

Apply ==
  CASE job.kind = "create" ->
         \E s \in Servers \ Existing, c \in Channels :
           MakeChannel(s, c) /\ rank' = [rank EXCEPT ![s].me = OwnerRank] /\ UNCHANGED message
    [] job.kind = "createChannel" ->
         \E c \in Channels : MakeChannel(job.s, c) /\ UNCHANGED <<rank, message>>
    [] OTHER ->
         /\ job' = [job EXCEPT !.at = "done"]
         /\ UNCHANGED home
         /\ sealed' = IF job.kind = "encrypt" THEN sealed \union {job.c} ELSE sealed
         /\ message' = [message EXCEPT !.there = @ /\ job.kind # "delete"]
         /\ rank' = CASE job.kind = "join" /\ ~Member(job.s) -> [rank EXCEPT ![job.s].me = 1]
                      [] job.kind = "leave" -> [rank EXCEPT ![job.s].me = Outsider]
                      [] job.kind \in {"kick", "ban"} -> [rank EXCEPT ![job.s].other = Outsider]
                      [] job.kind = "setRole" -> [rank EXCEPT ![job.s].other = job.grant]
                      [] OTHER -> rank

Serve ==
  /\ job.at = "sent"
  /\ IF Accepted(job) THEN Apply
     ELSE job' = [job EXCEPT !.at = "refused"] /\ UNCHANGED truth
  /\ UNCHANGED <<caches, server, channel, changes, presses>>

(* ------------------------------------------------------------------ the answer *)

(* What onSuccess reads again is that of the community and the channel that are       *)
(* selected by then; a refusal reads nothing again.                                *)
Ends(kinds) == job.at = "done" /\ job.kind \in kinds /\ job' = None /\ UNCHANGED <<truth, changes, presses>>

(* The list is read before the new community is selected, and after the one that was   *)
(* left is not any more.                                                            *)
AnswerServer ==
  /\ Ends({"create", "join", "leave"})
  /\ list' = Mine
  /\ UNCHANGED <<ranks, channels, locks, seen>>
  /\ \/ job.kind = "create" /\ Settle(job.s, job.c)
     \/ job.kind = "leave" /\ Settle(NoServer, NoChannel)
     \/ job.kind = "join" /\ SettleListed

AnswerInvite ==
  /\ Ends({"createInvite"})
  /\ UNCHANGED <<caches, server, channel>>

AnswerChannel ==
  /\ Ends({"createChannel", "encrypt"})
  /\ ReadChannels(server)
  /\ UNCHANGED <<list, ranks, seen>>
  /\ Settle(server, IF job.kind = "encrypt" THEN channel ELSE job.c)

AnswerMember ==
  /\ Ends({"kick", "ban", "setRole"})
  /\ ReadMembers(server)
  /\ UNCHANGED <<list, channels, locks, seen, server, channel>>

AnswerMessage ==
  /\ Ends(OfMessage)
  /\ ReadMessages(channel)
  /\ UNCHANGED <<list, ranks, channels, locks, server, channel>>

(* The error is shown. *)
Refuse ==
  /\ job.at = "refused" /\ job' = None
  /\ UNCHANGED <<truth, caches, server, channel, changes, presses>>

(* The answer, or a read that follows it, is lost: the error, or the stale data, stays. *)
LoseAnswer ==
  /\ job.at = "done" /\ changes < MaxChanges /\ changes' = changes + 1
  /\ job' = None
  /\ UNCHANGED <<truth, caches, server, channel, presses>>

(* --------------------------------------------------------------------- others *)

Change(s) ==
  /\ changes < MaxChanges /\ changes' = changes + 1
  /\ s \in Existing
  /\ \/ /\ rank[s].me # OwnerRank
        /\ \E r \in Banned..Admin : r # rank[s].me /\ rank' = [rank EXCEPT ![s].me = r]
        /\ UNCHANGED <<home, sealed, message>>
     \/ /\ rank[s].other # OwnerRank
        /\ \E r \in Outsider..Admin : r # rank[s].other /\ rank' = [rank EXCEPT ![s].other = r]
        /\ UNCHANGED <<home, sealed, message>>
     \/ \E c \in ChannelsOf(s) :
          /\ \/ c = message.in /\ message' = [message EXCEPT !.there = ~@] /\ UNCHANGED sealed
             \/ c \notin sealed /\ sealed' = sealed \union {c} /\ UNCHANGED message
          /\ UNCHANGED <<rank, home>>
  /\ job' = IF job.s = s THEN [job EXCEPT !.clean = FALSE] ELSE job
  /\ UNCHANGED <<caches, server, channel, presses>>

Next ==
  \/ Refetch \/ Serve \/ Refuse
  \/ AnswerServer \/ AnswerInvite \/ AnswerChannel \/ AnswerMember \/ AnswerMessage \/ LoseAnswer
  \/ \E s \in Servers : SelectServer(s) \/ PressJoin(s) \/ Change(s)
  \/ \E c \in Channels : SelectChannel(c)
  \/ \E kind \in OfServer \union OfChannel \union {"create"}, grant \in 0..Admin :
       (kind = "setRole" <=> grant > Outsider) /\ Press(kind, grant)

Spec == Init /\ [][Next]_vars

(* ---------------------------------------------------------------- properties *)

TypeOK ==
  /\ rank \in [Servers -> Place] /\ ranks \in [Servers -> Place]
  /\ home \in [Channels -> Servers \union {NoServer}]
  /\ sealed \subseteq Channels /\ locks \subseteq Channels
  /\ message \in [in : Channels, whose : {"mine", "theirs"}, there : BOOLEAN] /\ seen \in BOOLEAN
  /\ list \subseteq Servers /\ channels \in [Servers -> SUBSET Channels]
  /\ server \in Servers \union {NoServer} /\ channel \in Channels \union {NoChannel}
  /\ job.at \in {"none", "sent", "done", "refused"} /\ changes \in 0..MaxChanges /\ presses \in 0..MaxPresses

(* The messages on screen are those of a channel of the community on screen, once    *)
(* the list of its channels has come: whatever was answered after the user had        *)
(* turned to another community (client/src/pages/Dashboard.tsx:548-562).             *)
ShownIsOfServer ==
  server # NoServer /\ channel # NoChannel /\ channels[server] # {} => home[channel] = server

(* A change the dashboard offered is refused only when what it was offered on had     *)
(* changed since it was read: "Same rule the server enforces"                        *)
(* (client/src/components/MemberList.tsx:81).  An edit in an encrypted channel is       *)
(* offered and always refused.                                                    *)
OfferedIsAccepted ==
  job.at = "refused" /\ job.clean => job.kind = "edit" /\ job.c \in sealed

(* Who has left a community is shown another one, or none.  The code does not keep     *)
(* this: the selection is cleared before the list is read again, and the default is     *)
(* taken from the list that still names the community (Dashboard.tsx:548-552).         *)
NeverStranded ==
  [][(job.kind = "leave" /\ job' = None /\ list' # list) => server' # job.s]_vars

(* What is dropped into an encrypted channel is encrypted before it is sent.  The code  *)
(* does not keep this: while the list of the channels has not come, the channel just     *)
(* created with a community is unknown, and taken for one that is not encrypted         *)
(* (Dashboard.tsx:350-352).                                                        *)
DroppedIsSealed == channel \in sealed /\ server # NoServer => channel \in locks
===============================================================================
