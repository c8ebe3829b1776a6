----------------------------- MODULE MessageIndex -----------------------------
(*****************************************************************************)
(* The message index of one channel: the "messages" table the instance keeps  *)
(* beside the channel's Matrix room.  It has two writers.  The API writes a   *)
(* row next to every call it makes to the homeserver, and the application     *)
(* service ingests the events the homeserver pushes back, in order, with      *)
(* retries (docs/adr/0009).  Members' own Matrix clients write to the room    *)
(* without passing through the API.                                           *)
(*                                                                            *)
(* A handler of server/routers.ts is a request that takes one step per        *)
(* awaited statement: a database statement and an HTTP call to the homeserver *)
(* are each atomic, everything between two of them can be interleaved.  Text  *)
(* is abstracted to the room event that carries it.  The membership check of  *)
(* each handler is the subject of Membership; here every user is a member.    *)
(* A request refused before its first write leaves the state as it was, so a  *)
(* refusal is the absence of the action.                                      *)
(*****************************************************************************)
EXTENDS Naturals, Sequences

CONSTANTS
  Users,       \* the people in the room
  Locals,      \* those with an account on this instance (ADR 0010)
  Moderators,  \* local members ranked moderator or above
  Admins,      \* local members ranked admin or above
  Requests,    \* slots for API requests being served
  Deliveries,  \* slots for appservice transactions being served
  MaxEvents,   \* bound on the room's timeline
  MaxFaults    \* bound on faults: timeouts, lost answers, refused statements, restarts

ASSUME BoundsAssumption == MaxEvents \in Nat /\ MaxFaults \in Nat
ASSUME UsersAssumption ==
  /\ Locals # {} /\ Locals \subseteq Users
  /\ Moderators \subseteq Locals
  /\ Admins \subseteq Moderators

VARIABLES
  timeline,  \* the room's events, in the homeserver's order
  txnEnd,    \* last event of the transaction the homeserver last sent
  acked,     \* events up to here are acknowledged to the homeserver
  handler,   \* the appservice's handlers: next event, last event of the transaction
  channel,   \* the row of the channels table, and how far its creation went
  rows,      \* the messages table, by event id (matrixEventId is unique)
  inserts,   \* rows ever inserted for an event: a row is named by (event, this number)
  req,       \* the API requests
  faults,    \* faults so far
  missed,    \* history: events whose ingest left no trace in the index
  gone,      \* history: events whose row was deleted, by anyone
  removed    \* history: events whose deletion the API confirmed

vars == <<timeline, txnEnd, acked, handler, channel, rows, inserts, req,
          faults, missed, gone, removed>>
apiUnchanged == <<txnEnd, acked, handler, missed>>
roomUnchanged == <<timeline, txnEnd, acked>>

EventIds == 1..MaxEvents

(* A "text" is an m.room.message with a text body, "unstorable" one whose body *)
(* the database refuses.  An m.replace is a "replace" if a member's client      *)
(* posted it and an "edit" if the API did; nothing but this record tells them   *)
(* apart.                                                                     *)
Kinds == {"text", "unstorable", "encrypted", "replace", "edit", "redaction", "encryption"}
Edits == {"replace", "edit"}

Event == [kind: Kinds, target: 0..MaxEvents, sender: Users]

(* What a row's content column shows: nothing, the text of the event itself or *)
(* of a later m.replace (by event number), or words only the index holds.      *)
Blind == 0
Local == MaxEvents + 1
Content == 0..(MaxEvents + 1)

Row == [id: Nat, encrypted: BOOLEAN, content: Content]
NoRow == [id |-> 0, encrypted |-> FALSE, content |-> Blind]
HasRow(i) == rows[i] # NoRow

Steps == {"idle", "sendChecked", "sendPosted", "conflict", "editRead", "editChecked",
          "editPosted", "deleteRead", "deleteRedacted", "enableChecked", "enableApplied"}
Request == [pc: Steps, user: Locals, ev: 0..MaxEvents, id: Nat, content: Content]
IdleRequest == [pc |-> "idle", user |-> CHOOSE u \in Locals : TRUE,
                ev |-> 0, id |-> 0, content |-> Blind]

IdleHandler == [next |-> 1, last |-> 0]
Serving(d) == handler[d].last > 0

Channel == [phase: {"room", "plain", "locked", "done", "orphan"}, encrypted: BOOLEAN]
ChannelExists == channel.phase = "done"

Init ==
  /\ timeline = <<>>
  /\ txnEnd = 0
  /\ acked = 0
  /\ handler = [d \in Deliveries |-> IdleHandler]
  /\ channel = [phase |-> "room", encrypted |-> FALSE]
  /\ rows = [i \in EventIds |-> NoRow]
  /\ inserts = [i \in EventIds |-> 0]
  /\ req = [r \in Requests |-> IdleRequest]
  /\ faults = 0
  /\ missed = {}
  /\ gone = {}
  /\ removed = {}

-----------------------------------------------------------------------------
(* The room *)

NextEvent == Len(timeline) + 1

Post(kind, target, sender) ==
  /\ NextEvent \in EventIds
  /\ timeline' = Append(timeline, [kind |-> kind, target |-> target, sender |-> sender])

IsEncryption(i) == timeline[i].kind = "encryption"
RoomEncrypted == \E i \in DOMAIN timeline : IsEncryption(i)
Redacted(i) == \E j \in DOMAIN timeline : timeline[j].kind = "redaction" /\ timeline[j].target = i

Fault == faults < MaxFaults /\ faults' = faults + 1

(* A member's client: it encrypts in an encrypted room, and redacts what its   *)
(* user wrote or moderates, which the homeserver enforces.  Nobody enforces      *)
(* whose message an m.replace is about: neither the homeserver nor the ingest   *)
(* looks at the author, nor at the room of the message.                        *)
ClientPosts ==
  /\ ChannelExists
  /\ \E u \in Users :
       \/ ~RoomEncrypted /\ (Post("text", 0, u) \/ Post("unstorable", 0, u))
       \/ RoomEncrypted /\ Post("encrypted", 0, u)
       \/ ~RoomEncrypted /\ u \in Admins /\ Post("encryption", 0, u)
       \/ \E i \in DOMAIN timeline :
            /\ ~Redacted(i)
            /\ \/ ~RoomEncrypted /\ timeline[i].kind = "text" /\ Post("replace", i, u)
               \/ /\ timeline[i].kind \in {"text", "encrypted"}
                  /\ timeline[i].sender = u \/ u \in Moderators
                  /\ Post("redaction", i, u)
  /\ UNCHANGED <<apiUnchanged, channel, rows, inserts, req, faults, gone, removed>>

-----------------------------------------------------------------------------
(* Creating the channel: the room exists, encryption is switched on in it, and *)
(* only then is the row of the channels table inserted.                        *)

(* Mutant: the flag is recorded although the homeserver refused. *)
CreateUnencryptedFlagged ==
  /\ channel.phase = "room"
  /\ channel' = [channel EXCEPT !.phase = "locked"]
  /\ UNCHANGED <<timeline, apiUnchanged, rows, inserts, req, faults, gone, removed>>

(* Encryption is unavailable on this deployment, or the homeserver refused it. *)
CreateUnencrypted ==
  /\ channel.phase = "room"
  /\ channel' = [channel EXCEPT !.phase = "plain"]
  /\ UNCHANGED <<timeline, apiUnchanged, rows, inserts, req, faults, gone, removed>>

(* The state event is in the room; its answer reached the handler, or was lost *)
(* and the handler reports the channel as unencrypted.                         *)
CreateEncrypted ==
  /\ channel.phase = "room"
  /\ \E u \in Admins : Post("encryption", 0, u)
  /\ \/ channel' = [channel EXCEPT !.phase = "locked"] /\ UNCHANGED faults
     \/ channel' = [channel EXCEPT !.phase = "plain"] /\ Fault
  /\ UNCHANGED <<apiUnchanged, rows, inserts, req, gone, removed>>

CreateRow ==
  /\ channel.phase \in {"plain", "locked"}
  /\ channel' = [phase |-> "done", encrypted |-> channel.phase = "locked"]
  /\ UNCHANGED <<timeline, apiUnchanged, rows, inserts, req, faults, gone, removed>>

-----------------------------------------------------------------------------
(* messages.send *)

InsertRow(i, encrypted, content) ==
  /\ inserts' = [inserts EXCEPT ![i] = @ + 1]
  /\ rows' = [rows EXCEPT ![i] =
                [id |-> inserts[i] + 1, encrypted |-> encrypted, content |-> content]]

SendCheck(r, u) ==
  /\ req[r].pc = "idle"
  /\ ChannelExists
  /\ ~channel.encrypted
  /\ req' = [req EXCEPT ![r] = [IdleRequest EXCEPT !.pc = "sendChecked", !.user = u]]
  /\ UNCHANGED <<roomUnchanged, handler, channel, rows, inserts, faults, missed, gone, removed>>

(* matrix.sendMessage: the event is in the room, or it is not and the request *)
(* fails, or it is and the answer is lost, which fails the request too.       *)
SendPost(r) ==
  /\ req[r].pc = "sendChecked"
  /\ \/ /\ Post("text", 0, req[r].user)
        /\ req' = [req EXCEPT ![r].pc = "sendPosted", ![r].ev = NextEvent]
        /\ UNCHANGED faults
     \/ /\ Post("text", 0, req[r].user)
        /\ req' = [req EXCEPT ![r] = IdleRequest]
        /\ Fault
     \/ req' = [req EXCEPT ![r] = IdleRequest] /\ UNCHANGED <<timeline, faults>>
  /\ UNCHANGED <<apiUnchanged, channel, rows, inserts, gone, removed>>

(* db.createMessage is a plain insert: it fails on a row that is already there. *)
SendRecord(r) ==
  /\ req[r].pc = "sendPosted"
  /\ \/ /\ ~HasRow(req[r].ev)
        /\ InsertRow(req[r].ev, FALSE, req[r].ev)
        /\ req' = [req EXCEPT ![r] = IdleRequest]
        /\ UNCHANGED faults
     \/ /\ HasRow(req[r].ev)
        /\ req' = [req EXCEPT ![r].pc = "conflict"]
        /\ UNCHANGED <<rows, inserts, faults>>
     \/ /\ Fault
        /\ req' = [req EXCEPT ![r] = IdleRequest]
        /\ UNCHANGED <<rows, inserts>>
  /\ UNCHANGED <<roomUnchanged, handler, channel, missed, gone, removed>>

(* The caller is told that the message could not be sent. *)
SendConflict(r) ==
  /\ req[r].pc = "conflict"
  /\ req' = [req EXCEPT ![r] = IdleRequest]
  /\ UNCHANGED <<roomUnchanged, handler, channel, rows, inserts, faults, missed, gone, removed>>

-----------------------------------------------------------------------------
(* messages.edit *)

(* Mutant: anybody may edit a row that exists. *)
EditReadByAnyone(r, u, i) ==
  /\ req[r].pc = "idle"
  /\ ChannelExists
  /\ HasRow(i)
  /\ req' = [req EXCEPT ![r] = [pc |-> "editRead", user |-> u, ev |-> i,
                                id |-> rows[i].id, content |-> Blind]]
  /\ UNCHANGED <<roomUnchanged, handler, channel, rows, inserts, faults, missed, gone, removed>>

(* The row is read first, and with it its author. *)
EditRead(r, u, i) ==
  /\ req[r].pc = "idle"
  /\ ChannelExists
  /\ HasRow(i)
  /\ timeline[i].sender = u
  /\ req' = [req EXCEPT ![r] = [pc |-> "editRead", user |-> u, ev |-> i,
                                id |-> rows[i].id, content |-> Blind]]
  /\ UNCHANGED <<roomUnchanged, handler, channel, rows, inserts, faults, missed, gone, removed>>

(* Mutant: an edit is let through whatever the flag says. *)
EditUnchecked(r) ==
  /\ req[r].pc = "editRead"
  /\ req' = [req EXCEPT ![r].pc = "editChecked"]
  /\ UNCHANGED <<roomUnchanged, handler, channel, rows, inserts, faults, missed, gone, removed>>

EditCheck(r) ==
  /\ req[r].pc = "editRead"
  /\ IF channel.encrypted
       THEN req' = [req EXCEPT ![r] = IdleRequest]
       ELSE req' = [req EXCEPT ![r].pc = "editChecked"]
  /\ UNCHANGED <<roomUnchanged, handler, channel, rows, inserts, faults, missed, gone, removed>>

(* matrix.editMessage is best effort: whatever it did, the row is written next. *)
EditPost(r) ==
  /\ req[r].pc = "editChecked"
  /\ \/ /\ Post("edit", req[r].ev, req[r].user)
        /\ req' = [req EXCEPT ![r].pc = "editPosted", ![r].content = NextEvent]
     \/ /\ req' = [req EXCEPT ![r].pc = "editPosted", ![r].content = Local]
        /\ UNCHANGED timeline
  /\ UNCHANGED <<apiUnchanged, channel, rows, inserts, faults, gone, removed>>

(* An update by row id: a row deleted or inserted again since is not touched. *)
EditApply(r) ==
  /\ req[r].pc = "editPosted"
  /\ IF HasRow(req[r].ev) /\ rows[req[r].ev].id = req[r].id
       THEN rows' = [rows EXCEPT ![req[r].ev].content = req[r].content]
       ELSE UNCHANGED rows
  /\ req' = [req EXCEPT ![r] = IdleRequest]
  /\ UNCHANGED <<roomUnchanged, handler, channel, inserts, faults, missed, gone, removed>>

-----------------------------------------------------------------------------
(* messages.delete *)

DeleteRead(r, u, i) ==
  /\ req[r].pc = "idle"
  /\ ChannelExists
  /\ HasRow(i)
  /\ timeline[i].sender = u \/ u \in Moderators
  /\ req' = [req EXCEPT ![r] = [pc |-> "deleteRead", user |-> u, ev |-> i,
                                id |-> rows[i].id, content |-> Blind]]
  /\ UNCHANGED <<roomUnchanged, handler, channel, rows, inserts, faults, missed, gone, removed>>

(* matrix.redactEvent is best effort too. *)
DeleteRedact(r) ==
  /\ req[r].pc = "deleteRead"
  /\ Post("redaction", req[r].ev, req[r].user) \/ UNCHANGED timeline
  /\ req' = [req EXCEPT ![r].pc = "deleteRedacted"]
  /\ UNCHANGED <<apiUnchanged, channel, rows, inserts, faults, gone, removed>>

DeleteApply(r) ==
  /\ req[r].pc = "deleteRedacted"
  /\ IF HasRow(req[r].ev) /\ rows[req[r].ev].id = req[r].id
       THEN /\ rows' = [rows EXCEPT ![req[r].ev] = NoRow]
            /\ gone' = gone \union {req[r].ev}
       ELSE UNCHANGED <<rows, gone>>
  /\ removed' = removed \union {req[r].ev}
  /\ req' = [req EXCEPT ![r] = IdleRequest]
  /\ UNCHANGED <<roomUnchanged, handler, channel, inserts, faults, missed>>

-----------------------------------------------------------------------------
(* channels.enableEncryption *)

EnableCheck(r, u) ==
  /\ req[r].pc = "idle"
  /\ ChannelExists
  /\ ~channel.encrypted
  /\ req' = [req EXCEPT ![r] = [IdleRequest EXCEPT !.pc = "enableChecked", !.user = u]]
  /\ UNCHANGED <<roomUnchanged, handler, channel, rows, inserts, faults, missed, gone, removed>>

EnableApply(r) ==
  /\ req[r].pc = "enableChecked"
  /\ \/ /\ Post("encryption", 0, req[r].user)
        /\ req' = [req EXCEPT ![r].pc = "enableApplied"]
        /\ UNCHANGED faults
     \/ /\ Post("encryption", 0, req[r].user)
        /\ req' = [req EXCEPT ![r] = IdleRequest]
        /\ Fault
     \/ req' = [req EXCEPT ![r] = IdleRequest] /\ UNCHANGED <<timeline, faults>>
  /\ UNCHANGED <<apiUnchanged, channel, rows, inserts, gone, removed>>

MarkChannelEncrypted == channel' = [channel EXCEPT !.encrypted = TRUE]

EnableMark(r) ==
  /\ req[r].pc = "enableApplied"
  /\ MarkChannelEncrypted
  /\ req' = [req EXCEPT ![r] = IdleRequest]
  /\ UNCHANGED <<roomUnchanged, handler, rows, inserts, faults, missed, gone, removed>>

-----------------------------------------------------------------------------
(* The homeserver's queue and the appservice that drains it *)

StartHandler(d, last) == handler' = [handler EXCEPT ![d] = [next |-> acked + 1, last |-> last]]

SendTxn(d) ==
  /\ ~Serving(d)
  /\ txnEnd = acked
  /\ \E last \in (acked + 1)..Len(timeline) : txnEnd' = last /\ StartHandler(d, last)
  /\ UNCHANGED <<timeline, acked, channel, rows, inserts, req, faults, missed, gone, removed>>

(* The transaction is not acknowledged and the homeserver sends it again: its  *)
(* handler is gone, or (a fault) it only takes longer than the homeserver      *)
(* waits, and goes on beside the new one.                                      *)
ResendTxn(d) ==
  /\ ~Serving(d)
  /\ txnEnd > acked
  /\ IF \E c \in Deliveries : handler[c].last > acked THEN Fault ELSE UNCHANGED faults
  /\ StartHandler(d, txnEnd)
  /\ UNCHANGED <<roomUnchanged, channel, rows, inserts, req, missed, gone, removed>>

(* What ingestEvent does with event i of the timeline. *)
Miss(i) ==
  /\ missed' = missed \union {i}
  /\ UNCHANGED <<channel, rows, inserts, gone>>

IngestText(i) ==
  /\ timeline[i].kind \in {"text", "encrypted"}
  /\ \/ ~ChannelExists /\ Miss(i)
     \/ /\ ChannelExists
        /\ \/ HasRow(i) /\ UNCHANGED <<rows, inserts>>
           \/ /\ ~HasRow(i)
              /\ IF timeline[i].kind = "encrypted"
                   THEN InsertRow(i, TRUE, Blind)
                   ELSE InsertRow(i, FALSE, i)
        /\ UNCHANGED <<channel, missed, gone>>

IngestReplace(i) ==
  LET target == timeline[i].target IN
  /\ timeline[i].kind \in Edits
  /\ \/ HasRow(target) /\ rows' = [rows EXCEPT ![target].content = i] /\ UNCHANGED missed
     \/ ~HasRow(target) /\ missed' = missed \union {i} /\ UNCHANGED rows
  /\ UNCHANGED <<channel, inserts, gone>>

IngestRedaction(i) ==
  LET target == timeline[i].target IN
  /\ timeline[i].kind = "redaction"
  /\ \/ /\ HasRow(target)
        /\ rows' = [rows EXCEPT ![target] = NoRow]
        /\ gone' = gone \union {target}
        /\ UNCHANGED missed
     \/ ~HasRow(target) /\ missed' = missed \union {i} /\ UNCHANGED <<rows, gone>>
  /\ UNCHANGED <<channel, inserts>>

IngestEncryption(i) ==
  /\ timeline[i].kind = "encryption"
  /\ \/ ~ChannelExists /\ Miss(i)
     \/ ChannelExists /\ MarkChannelEncrypted /\ UNCHANGED <<rows, inserts, missed, gone>>

(* Mutant: an event the database refuses fails the transaction. *)
IngestOrFail(d) ==
  LET i == handler[d].next IN
  /\ i \leq handler[d].last
  /\ IngestText(i) \/ IngestReplace(i) \/ IngestRedaction(i) \/ IngestEncryption(i)
  /\ handler' = [handler EXCEPT ![d].next = i + 1]
  /\ UNCHANGED <<roomUnchanged, req, removed, faults>>

(* Mutant: the exception is caught around the loop, and the rest is passed over. *)
IngestAbandons(d) ==
  LET i == handler[d].next IN
  /\ i \leq handler[d].last
  /\ \/ /\ \/ IngestText(i) \/ IngestReplace(i) \/ IngestRedaction(i) \/ IngestEncryption(i)
           \/ timeline[i].kind = "unstorable" /\ Miss(i)
        /\ handler' = [handler EXCEPT ![d].next = i + 1]
        /\ UNCHANGED faults
     \/ Fault /\ Miss(i) /\ handler' = [handler EXCEPT ![d].next = handler[d].last + 1]
  /\ UNCHANGED <<roomUnchanged, req, removed>>

(* One turn of ingestTransaction's loop.  An exception (the database refuses   *)
(* the body, or fails for a moment) is caught and the event is passed over.    *)
Ingest(d) ==
  LET i == handler[d].next IN
  /\ i \leq handler[d].last
  /\ \/ /\ \/ IngestText(i) \/ IngestReplace(i) \/ IngestRedaction(i) \/ IngestEncryption(i)
           \/ timeline[i].kind = "unstorable" /\ Miss(i)
        /\ UNCHANGED faults
     \/ Fault /\ Miss(i)
  /\ handler' = [handler EXCEPT ![d].next = i + 1]
  /\ UNCHANGED <<roomUnchanged, req, removed>>

(* Mutant: the transaction is acknowledged before it is ingested. *)
AckFirst(d) ==
  /\ Serving(d)
  /\ acked' = (IF handler[d].last > acked THEN handler[d].last ELSE acked)
  /\ handler' = [handler EXCEPT ![d] = IdleHandler]
  /\ UNCHANGED <<timeline, txnEnd, channel, rows, inserts, req, faults, missed, gone, removed>>

(* The handler answers 200.  The answer to a transaction that was already      *)
(* acknowledged means nothing to the homeserver; any answer can be lost.       *)
Ack(d) ==
  /\ Serving(d)
  /\ handler[d].next > handler[d].last
  /\ \/ acked' = (IF handler[d].last > acked THEN handler[d].last ELSE acked) /\ UNCHANGED faults
     \/ handler[d].last > acked /\ Fault /\ UNCHANGED acked
  /\ handler' = [handler EXCEPT ![d] = IdleHandler]
  /\ UNCHANGED <<timeline, txnEnd, channel, rows, inserts, req, missed, gone, removed>>

(* The instance restarts: every request and handler is lost where it stands. *)
Restart ==
  /\ Fault
  /\ handler' = [d \in Deliveries |-> IdleHandler]
  /\ req' = [r \in Requests |-> IdleRequest]
  /\ channel' = [channel EXCEPT !.phase = IF @ = "done" THEN "done" ELSE "orphan"]
  /\ UNCHANGED <<roomUnchanged, rows, inserts, missed, gone, removed>>

-----------------------------------------------------------------------------
CreateChannel == CreateUnencrypted \/ CreateEncrypted \/ CreateRow

ApiStep(r) ==
  \/ \E u \in Locals : SendCheck(r, u)
  \/ SendPost(r) \/ SendRecord(r) \/ SendConflict(r)
  \/ \E u \in Locals, i \in EventIds : EditRead(r, u, i) \/ DeleteRead(r, u, i)
  \/ EditCheck(r) \/ EditPost(r) \/ EditApply(r)
  \/ DeleteRedact(r) \/ DeleteApply(r)
  \/ \E u \in Admins : EnableCheck(r, u)
  \/ EnableApply(r) \/ EnableMark(r)

Next ==
  \/ ClientPosts
  \/ CreateChannel
  \/ \E r \in Requests : ApiStep(r)
  \/ \E d \in Deliveries : SendTxn(d) \/ ResendTxn(d) \/ Ingest(d) \/ Ack(d)
  \/ Restart

Spec == Init /\ [][Next]_vars

(* The homeserver keeps pushing and the handlers keep running. *)
Fairness ==
  /\ WF_vars(\E d \in Deliveries : SendTxn(d))
  /\ WF_vars(\E d \in Deliveries : ResendTxn(d))
  /\ \A d \in Deliveries : WF_vars(Ingest(d)) /\ WF_vars(Ack(d))

FairSpec == Spec /\ Fairness

-----------------------------------------------------------------------------
(* Properties *)

(* Types. *)
TypeOK ==
  /\ timeline \in Seq(Event) /\ Len(timeline) \leq MaxEvents
  /\ acked \in 0..MaxEvents /\ txnEnd \in 0..MaxEvents
  /\ handler \in [Deliveries -> [next: 1..(MaxEvents + 1), last: 0..MaxEvents]]
  /\ channel \in Channel
  /\ rows \in [EventIds -> Row]
  /\ inserts \in [EventIds -> Nat]
  /\ req \in [Requests -> Request]
  /\ faults \in 0..MaxFaults
  /\ missed \subseteq EventIds /\ gone \subseteq EventIds /\ removed \subseteq EventIds

(* createChannel's comment (server/db.ts): the flag must never say encrypted   *)
(* over a room that is not, whichever of the three writers set it.             *)
HonestLock == channel.encrypted => RoomEncrypted

(* No encryption event was passed over by the ingest. *)
EncryptionHeard == \A i \in missed : ~IsEncryption(i)

(* The index is blind to what was encrypted: as long as the ingest heard the   *)
(* room turn encryption on, no edit, however it interleaves with the push,     *)
(* writes words into the row of an encrypted message.                          *)
ContentBlind ==
  EncryptionHeard => \A i \in EventIds : rows[i].encrypted => rows[i].content = Blind

(* Nothing acknowledged is lost silently: each acknowledged message has its    *)
(* row, or a row that was deleted, or was passed over by an ingest that failed. *)
NoSilentLoss ==
  \A i \in 1..acked :
    timeline[i].kind \in {"text", "encrypted"} => HasRow(i) \/ i \in gone \/ i \in missed

(* Nobody else's words by way of the API: whatever order the API, the push and *)
(* re-sent transactions write a row in, the words it shows are its author's, or *)
(* a client posted them as an m.replace.                                       *)
EditsByAuthor ==
  \A i \in EventIds :
    HasRow(i) /\ rows[i].content \in EventIds /\ timeline[rows[i].content].kind # "replace" =>
      timeline[rows[i].content].sender = timeline[i].sender

(* A room that turned encryption on is not taken for a plain one once the      *)
(* homeserver has forgotten the event: the flag is up, whoever put it up first, *)
(* or an ingest that failed, or came before the channel's row, passed it over.  *)
EncryptionNotLost ==
  \A i \in 1..acked : IsEncryption(i) => channel.encrypted \/ i \in missed

(* The queue drains: every event is acknowledged in the end, those the index   *)
(* cannot store included, so none wedges the events behind it.                 *)
QueueDrains == \A i \in EventIds : i \leq Len(timeline) ~> i \leq acked

-----------------------------------------------------------------------------
(* The inductive invariant behind HonestLock, ContentBlind and NoSilentLoss    *)

(* Event i is behind the queue: acknowledged, or past the turn of a handler.   *)
Processed(i) ==
  \/ i \leq acked
  \/ \E d \in Deliveries : Serving(d) /\ i < handler[d].next

IsMessage(i) == timeline[i].kind \in {"text", "encrypted"}
IsEncrypted(i) == timeline[i].kind = "encrypted"
Posted(i) == i \in 1..Len(timeline)

QueueInv ==
  /\ acked \leq txnEnd /\ txnEnd \leq Len(timeline)
  /\ \A d \in Deliveries :
       handler[d].last \leq txnEnd /\ (Serving(d) => handler[d].next \leq handler[d].last + 1)

LockInv ==
  /\ channel.encrypted \/ channel.phase = "locked" => RoomEncrypted
  /\ channel.encrypted => ChannelExists
  /\ \A r \in Requests :
       /\ req[r].pc \in {"enableChecked", "enableApplied"} => ChannelExists
       /\ req[r].pc = "enableApplied" => RoomEncrypted
  /\ \A i \in 1..Len(timeline) :
       IsEncrypted(i) => \E e \in 1..(i - 1) : IsEncryption(e)

(* What the ingest has passed it has heard, or it is in "missed".              *)
HeardInv ==
  /\ missed \subseteq 1..Len(timeline)
  /\ \A i \in 1..Len(timeline) : Processed(i) /\ IsEncryption(i) => channel.encrypted \/ i \in missed

(* Rows are about messages of the room, blind exactly where they should be.    *)
RowsInv ==
  \A i \in EventIds :
    HasRow(i) =>
      /\ Posted(i) /\ IsMessage(i)
      /\ rows[i].encrypted <=> IsEncrypted(i)
      /\ EncryptionHeard /\ IsEncrypted(i) => channel.encrypted /\ rows[i].content = Blind

(* What a request knows of the message it is about.                            *)
RequestsInv ==
  \A r \in Requests :
    /\ req[r].pc \in {"sendPosted", "conflict"} => Posted(req[r].ev) /\ timeline[req[r].ev].kind = "text"
    /\ req[r].pc \in {"editRead", "editChecked", "editPosted", "deleteRead", "deleteRedacted"} =>
         Posted(req[r].ev) /\ IsMessage(req[r].ev)
    /\ EncryptionHeard /\ req[r].pc \in {"editRead", "editChecked", "editPosted"} =>
         ~IsEncrypted(req[r].ev) \/ (req[r].pc = "editRead" /\ channel.encrypted)
    /\ req[r].pc = "editPosted" => req[r].content # Blind

(* Edits and redactions aim at events of the room, no edit at an encrypted one. *)
TargetsInv ==
  \A i \in 1..Len(timeline) :
    /\ timeline[i].kind \in Edits \union {"redaction"} => Posted(timeline[i].target)
    /\ timeline[i].kind \in Edits /\ EncryptionHeard => ~IsEncrypted(timeline[i].target)

LossInv ==
  \A i \in 1..Len(timeline) :
    Processed(i) /\ IsMessage(i) => HasRow(i) \/ i \in gone \/ i \in missed

(* The inductive invariant of the channel's index (MessageIndexProofs).        *)
IndInv ==
  /\ TypeOK /\ QueueInv /\ LockInv /\ HeardInv /\ RowsInv
  /\ RequestsInv /\ TargetsInv /\ LossInv

-----------------------------------------------------------------------------
(* Statements of the documentation that the code does not keep *)

(* "Edit your own message. Moderators can't rewrite what others said." (the     *)
(* comment on messages.edit, server/routers.ts:1185): a row shows words its     *)
(* author wrote.  An m.replace posted by a client is applied whoever sent it.   *)
AuthorsWords ==
  \A i \in EventIds :
    HasRow(i) /\ rows[i].content \in EventIds =>
      timeline[rows[i].content].sender = timeline[i].sender

(* Of the API path and the appservice, "whoever lands second must be a no-op   *)
(* rather than an error" (ingestMessage's comment, server/db.ts).              *)
SecondWriterIsNoOp == \A r \in Requests : req[r].pc # "conflict"

(* Nothing is being served and nothing is left to push. *)
Settled ==
  /\ acked = Len(timeline)
  /\ \A r \in Requests : req[r].pc = "idle"
  /\ \A d \in Deliveries : ~Serving(d)

(* "DB deletion below is authoritative for the app's view" (messages.delete):  *)
(* once all is quiet, a message whose deletion was confirmed is not shown.     *)
DeletedStaysDeleted == Settled => \A i \in removed : ~HasRow(i)

(* "Ordering truth moves to Matrix" (docs/adr/0009): once all is quiet, a      *)
(* message edited in the room shows the edit the room has last.                *)
EditsFollowRoom ==
  Settled /\ missed = {} =>
    \A i \in EventIds, j \in DOMAIN timeline :
      /\ HasRow(i) /\ rows[i].content # Local
      /\ timeline[j].kind \in Edits /\ timeline[j].target = i
      => j \leq rows[i].content

(* The flag is "true when the Matrix room carries m.room.encryption ... learned *)
(* from the appservice push" (drizzle/schema.ts): once the push of the event is *)
(* acknowledged, the row says so.                                              *)
FlagFollowsRoom ==
  ChannelExists /\ (\E i \in 1..acked : IsEncryption(i)) => channel.encrypted

(* "The API refuses to send plaintext into such a room" (drizzle/schema.ts).   *)
(* Members' own clients never send plaintext there either.                     *)
NoPlaintextAfterEncryption ==
  \A i, j \in DOMAIN timeline : i < j /\ IsEncryption(i) => timeline[j].kind # "text"
===============================================================================
