--------------------------- MODULE MCMessageIndex ---------------------------
(* What a channel carries, its messages, its files and the reactions to a message,   *)
(* for TLC.  The three share no state, so a run is about one of them: `part` says    *)
(* which, and the variables of the others stay as they are.  Slots, and people and    *)
(* channels where files are concerned, are interchangeable.                        *)
EXTENDS MessageIndex, TLC

CONSTANTS People, Channels, Cids, Transfers, MaxShares, Emojis, MaxToggles

VARIABLES
  part,
  shares, lastId, pinned, stored, members, uploads, transfer,
  exists, reactions, toggle, room, meant, doubt, silent, toggles

Files == INSTANCE FileShares WITH Users <- People, Requests <- Transfers, req <- transfer
Emoji == INSTANCE Reactions WITH Users <- People, Requests <- Transfers, req <- toggle

ASSUME FilesAssumption == Files!MaxSharesAssumption
ASSUME EmojiAssumption == Emoji!ReactionsAssumption

fileVars == <<shares, lastId, pinned, stored, members, uploads, transfer>>
emojiVars == <<exists, reactions, toggle, room, meant, doubt, silent, toggles>>

Off == "off"
FilesOff ==
  /\ shares = Off /\ lastId = Off /\ pinned = Off /\ stored = Off /\ members = Off
  /\ uploads = Off /\ transfer = Off

EmojiOff ==
  /\ exists = Off /\ reactions = Off /\ toggle = Off /\ room = Off /\ meant = Off
  /\ doubt = Off /\ silent = Off /\ toggles = Off

ChannelInit ==
  /\ part \in {"messages", "files", "reactions"} /\ Init
  /\ IF part = "files" THEN Files!Init ELSE FilesOff
  /\ IF part = "reactions" THEN Emoji!Init ELSE EmojiOff

ChannelNext ==
  /\ UNCHANGED part
  /\ \/ part = "messages" /\ Next /\ UNCHANGED <<fileVars, emojiVars>>
     \/ part = "files" /\ Files!Next /\ UNCHANGED <<vars, emojiVars>>
     \/ part = "reactions" /\ Emoji!Next /\ UNCHANGED <<timeline, txnEnd, acked, handler, channel, rows, inserts, req, missed, gone,
                        removed, fileVars>>

ChannelSpec == ChannelInit /\ [][ChannelNext]_<<part, vars, fileVars, emojiVars>>

(* FileShares: bytes given to the node once are kept as long as their share is. *)
FreshBytesKept == part = "files" => Files!FreshBytesKept

(* FileShares: a download is refused only to whom no share entitled all along. *)
RefusedWereNotEntitled == part = "files" => Files!RefusedWereNotEntitled

(* Reactions: a toggle that overlapped with no other stands, and the room is told  *)
(* of every reaction that is stored.                                             *)
ReactionsStand ==
  part = "reactions" => Emoji!ReactionsStand /\ Emoji!ReactionsTold

Symmetry ==
  Permutations(Requests) \union Permutations(Deliveries) \union Permutations(Transfers)
    \union Permutations(People) \union Permutations(Channels)
===============================================================================
