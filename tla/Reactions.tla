------------------------------- MODULE Reactions -------------------------------
(* The reactions to one message (messages.react in server/routers.ts, and          *)
(* toggleMessageReaction in server/db.ts): one JSON column that a request reads,     *)
(* changes and writes back as a whole, and the annotation that tells the room.       *)
(*                                                                              *)
(* The handler reads the row, the toggle reads it again and writes it, and only then *)
(* the room is told, by the first of the two reads.  An undone reaction leaves its    *)
(* annotation in the room.                                                        *)
EXTENDS Naturals

CONSTANTS
  Users,      \* who reacts
  Emojis,
  Requests,   \* slots for calls of messages.react
  MaxToggles, \* bound on the calls
  MaxFaults   \* bound on the calls that end too early, or fail to tell the room

ReactionsAssumption == MaxToggles \in Nat /\ MaxFaults \in Nat

VARIABLES
  exists,    \* whether the message still has its row
  reactions, \* who reacted with each emoji
  req,       \* the calls
  room,      \* the annotations in the room
  meant,     \* what each user's last toggle made of each emoji
  doubt,     \* the reactions that toggles at the same time have put in doubt
  silent,    \* the reactions whose annotation a fault prevented
  toggles, faults

vars == <<exists, reactions, req, room, meant, doubt, silent, toggles, faults>>

NoReactions == [e \in Emojis |-> {}]
Idle == [at |-> "idle"]

Init ==
  /\ exists = TRUE /\ reactions = NoReactions
  /\ req = [q \in Requests |-> Idle]
  /\ room = {} /\ meant = NoReactions /\ doubt = {} /\ silent = {}
  /\ toggles = 0 /\ faults = 0

End(q) == req' = [req EXCEPT ![q] = Idle]

(* messages.react reads the message, and later the channel and the membership. *)
React(q, u, e) ==
  /\ req[q].at = "idle" /\ exists /\ toggles < MaxToggles
  /\ toggles' = toggles + 1
  /\ req' = [req EXCEPT ![q] = [at |-> "reacting", user |-> u, emoji |-> e, raced |-> FALSE,
                                existing |-> reactions, current |-> NoReactions]]
  /\ UNCHANGED <<exists, reactions, room, meant, doubt, silent, faults>>

(* toggleMessageReaction throws for a message that is gone. *)
ToggleRead(q) ==
  /\ req[q].at = "reacting"
  /\ IF exists THEN req' = [req EXCEPT ![q].at = "read", ![q].current = reactions] ELSE End(q)
  /\ UNCHANGED <<exists, reactions, room, meant, doubt, silent, toggles, faults>>

(* Plausible bug: the toggle takes the map that the handler has read. *)
ToggledExisting(q) ==
  [req[q].existing EXCEPT ![req[q].emoji] =
     IF req[q].user \in @ THEN @ \ {req[q].user} ELSE @ \union {req[q].user}]

Toggled(q) ==
  [req[q].current EXCEPT ![req[q].emoji] =
     IF req[q].user \in @ THEN @ \ {req[q].user} ELSE @ \union {req[q].user}]

WasReacted(q) == req[q].user \in req[q].existing[req[q].emoji]

(* setMessageReactions: no row, nothing written.  Whoever has read and not yet written    *)
(* is overtaken.                                                                   *)
SetMessageReactions(q) ==
  LET u == req[q].user
      e == req[q].emoji
  IN
  /\ req[q].at = "read"
  /\ reactions' = IF exists THEN Toggled(q) ELSE reactions
  /\ meant' = [meant EXCEPT ![e] = IF u \in Toggled(q)[e] THEN @ \union {u} ELSE @ \ {u}]
  /\ doubt' = IF req[q].raced THEN Emojis \X Users ELSE doubt \ {<<e, u>>}
  /\ req' = [p \in Requests |->
       CASE p = q -> [req[q] EXCEPT !.at = IF WasReacted(q) THEN "done" ELSE "tell"]
         [] p # q /\ req[p].at = "read" -> [req[p] EXCEPT !.raced = TRUE]
         [] OTHER -> req[p]]
  /\ UNCHANGED <<exists, room, silent, toggles, faults>>

(* Only an addition is told, and a room that does not hear of it is passed over. *)
SendReaction(q) ==
  /\ req[q].at = "tell"
  /\ \/ room' = room \union {<<req[q].emoji, req[q].user>>} /\ UNCHANGED <<silent, faults>>
     \/ /\ faults < MaxFaults /\ faults' = faults + 1 /\ UNCHANGED room
        /\ silent' = silent \union {<<req[q].emoji, req[q].user>>}
  /\ End(q)
  /\ UNCHANGED <<exists, reactions, meant, doubt, toggles>>

Answer(q) ==
  /\ req[q].at = "done" /\ End(q)
  /\ UNCHANGED <<exists, reactions, room, meant, doubt, silent, toggles, faults>>

(* A statement throws, or the instance restarts. *)
Abort(q) ==
  /\ req[q].at # "idle" /\ faults < MaxFaults /\ faults' = faults + 1
  /\ End(q)
  /\ silent' = IF req[q].at = "tell" THEN silent \union {<<req[q].emoji, req[q].user>>} ELSE silent
  /\ UNCHANGED <<exists, reactions, room, meant, doubt, toggles>>

(* messages.delete, or the ingest of a redaction. *)
DeleteMessage ==
  /\ exists /\ exists' = FALSE
  /\ UNCHANGED <<reactions, req, room, meant, doubt, silent, toggles, faults>>

Next ==
  \/ \E q \in Requests :
       \/ \E u \in Users, e \in Emojis : React(q, u, e)
       \/ ToggleRead(q) \/ SetMessageReactions(q) \/ SendReaction(q) \/ Answer(q) \/ Abort(q)
  \/ DeleteMessage

Spec == Init /\ [][Next]_vars

(* ---------------------------------------------------------------- properties *)

TypeOK ==
  /\ exists \in BOOLEAN /\ reactions \in [Emojis -> SUBSET Users]
  /\ room \subseteq Emojis \X Users /\ meant \in [Emojis -> SUBSET Users]
  /\ doubt \subseteq Emojis \X Users /\ silent \subseteq Emojis \X Users
  /\ toggles \in 0..MaxToggles /\ faults \in 0..MaxFaults

(* Hazard, lost updates of one column: a reaction is what its user's last toggle made it,  *)
(* as long as no toggle was written between the read and the write of another since; what *)
(* everybody else does between the handler's read and the toggle's loses nothing.        *)
ReactionsStand ==
  exists => \A e \in Emojis, u \in Users :
    <<e, u>> \notin doubt => (u \in reactions[e] <=> u \in meant[e])

(* Hazard, a check that is stale when used: the room is told by what the handler read     *)
(* before the toggle; still every reaction that is stored is in the room, or is being     *)
(* told, or a fault kept it from the room.                                            *)
ReactionsTold ==
  \A e \in Emojis : \A u \in reactions[e] :
    \/ <<e, u>> \in room \union silent
    \/ \E q \in Requests : req[q].at = "tell" /\ req[q].emoji = e /\ req[q].user = u
===============================================================================
