----------------------------- MODULE ChannelView -----------------------------
(*****************************************************************************)
(* What one open channel shows (client/src/pages/Dashboard.tsx): rows fetched   *)
(* from the instance's index, by polling or when the client's own sync stream    *)
(* brings an event; and, where a row is encrypted, the plaintext that the        *)
(* client's crypto machine recorded (lookup in matrixCrypto.ts).                 *)
(*                                                                            *)
(* The homeserver sends an event to the instance's ingest and to the stream      *)
(* independently.  The SDK emits Decrypted at the end of every attempt, also a   *)
(* failed one, and tries again when the room's key arrives.                      *)
(*                                                                            *)
(* A row carries the timestamp of its event, and a query is answered with the    *)
(* newest rows only.  The clocks of homeservers differ: an event may be older     *)
(* than those already there.                                                    *)
(*****************************************************************************)
EXTENDS Naturals, FiniteSets, SequencesExt

CONSTANTS
  Messages,  \* messages of others
  Limit      \* the rows a query asks for

LimitAssumption == Limit \in Nat \ {0}

VARIABLES
  room,    \* the homeserver's events, in the order of their timestamps
  index,   \* the rows of the instance
  live,    \* syncLive: no polling
  heard,   \* events the stream brought
  tried,   \* events of which a decryption was attempted
  keys,    \* events whose room key is held
  armed,   \* events with a `once(Decrypted)` listener
  read,    \* the map `decrypted`: the events recorded with their plaintext
  fetch,   \* the query listByChannel: where it is, and what the instance read
  shown    \* the rows on screen

vars == <<room, index, live, heard, tried, keys, armed, read, fetch, shown>>

Posted == Range(room)

\* The rows that a query is answered with, among `rows`: the newest.
Newest(rows) ==
  LET Newer(i) == {j \in DOMAIN room : j > i /\ room[j] \in rows} IN
  {room[i] : i \in {j \in DOMAIN room : room[j] \in rows /\ Cardinality(Newer(j)) < Limit}}

TypeOK ==
  /\ Posted \subseteq Messages /\ index \subseteq Posted /\ heard \subseteq Posted
  /\ tried \subseteq heard /\ armed \subseteq heard /\ read \subseteq heard \cap keys
  /\ keys \subseteq Messages /\ shown \subseteq index /\ live \in BOOLEAN
  /\ fetch \in [pc : {"idle", "asked", "read"}, rows : SUBSET Messages]

Idle == [pc |-> "idle", rows |-> {}]
Asked == [pc |-> "asked", rows |-> {}]

Init ==
  /\ room = <<>> /\ index = {} /\ live = FALSE
  /\ heard = {} /\ tried = {} /\ keys = {} /\ armed = {} /\ read = {}
  /\ fetch = Asked /\ shown = {}

crypto == <<heard, tried, keys, armed, read>>

\* Another member's message is in the room, and later in the index.
Post(m) ==
  /\ m \notin Posted
  /\ \E i \in 1 .. Len(room) + 1 : room' = InsertAt(room, i, m)
  /\ UNCHANGED <<index, live, crypto, fetch, shown>>

Ingest(m) ==
  /\ m \in Posted \ index /\ index' = index \cup {m}
  /\ UNCHANGED <<room, live, crypto, fetch, shown>>

\* The session starts; the interval of the query becomes `false`.
GoLive ==
  /\ ~live /\ live' = TRUE
  /\ UNCHANGED <<room, index, crypto, fetch, shown>>

\* The session ends, and the interval is 3 s again.
GoPolling ==
  /\ live /\ live' = FALSE
  /\ UNCHANGED <<room, index, crypto, fetch, shown>>

(* Mutant: the interval stays off once the session has been live. *)
PollBeforeSession ==
  /\ ~live /\ heard = {} /\ fetch.pc = "idle" /\ fetch' = Asked
  /\ UNCHANGED <<room, index, live, crypto, shown>>

Poll ==
  /\ ~live /\ fetch.pc = "idle" /\ fetch' = Asked
  /\ UNCHANGED <<room, index, live, crypto, shown>>

\* onTimeline: record, listen for the decryption, and forward the event, upon
\* which the lists are invalidated: a fetch under way starts again.
Hear(m) ==
  /\ live /\ m \in Posted \ heard
  /\ heard' = heard \cup {m} /\ armed' = armed \cup {m}
  /\ fetch' = Asked
  /\ UNCHANGED <<room, index, live, tried, keys, read, shown>>

Emit(m) ==
  /\ armed' = armed \ {m}
  /\ read' = IF m \in armed /\ m \in keys' THEN read \cup {m} ELSE read

Attempt(m) ==
  /\ m \in heard \ tried /\ tried' = tried \cup {m}
  /\ keys' = keys /\ Emit(m)
  /\ UNCHANGED <<room, index, live, heard, fetch, shown>>

\* A key that comes after the message makes the SDK try again.
KeyArrives(m) ==
  /\ m \notin keys /\ keys' = keys \cup {m}
  /\ IF m \in tried THEN Emit(m) ELSE UNCHANGED <<armed, read>>
  /\ UNCHANGED <<room, index, live, heard, tried, fetch, shown>>

\* backfill, when the channel is opened, and onKeysImported walk the timeline
\* of a session and record every event again.
Rewalk ==
  /\ live /\ read # tried \cap keys /\ read' = tried \cap keys
  /\ UNCHANGED <<room, index, live, heard, tried, keys, armed, fetch, shown>>

\* listByChannel: `ORDER BY createdAt DESC LIMIT 50`.
Serve ==
  /\ fetch.pc = "asked" /\ fetch' = [pc |-> "read", rows |-> Newest(index)]
  /\ UNCHANGED <<room, index, live, crypto, shown>>

Show ==
  /\ fetch.pc = "read" /\ fetch' = Idle /\ shown' = fetch.rows
  /\ UNCHANGED <<room, index, live, crypto>>

Next ==
  \/ \E m \in Messages : Post(m) \/ Ingest(m) \/ Hear(m) \/ Attempt(m) \/ KeyArrives(m)
  \/ GoLive \/ GoPolling \/ Poll \/ Rewalk \/ Serve \/ Show

Spec == Init /\ [][Next]_vars

\* The homeserver delivers to both, the timer fires, and queries are answered.
Fairness ==
  /\ \A m \in Messages : WF_vars(Ingest(m)) /\ WF_vars(Hear(m)) /\ WF_vars(Attempt(m))
  /\ WF_vars(Poll) /\ WF_vars(Serve) /\ WF_vars(Show)

FairSpec == Spec /\ Fairness

-------------------------------------------------------------------------------
(* "the intervals below stay as the fallback" (Dashboard.tsx:160): once a        *)
(* session is over for good, every row that is among the newest of the index       *)
(* comes on screen, if it stays among them, whatever the session had brought or    *)
(* left behind.                                                                  *)
FallbackShows ==
  \A m \in Messages :
    <>[](~live) => [](m \in Newest(index) => <>(m \in shown \/ m \notin Newest(index)))

(* "The row appears via the appservice ingest and the echo returns through       *)
(* /sync." (Dashboard.tsx:629): while the session stays live, a message in the     *)
(* room comes on screen, unless newer ones fill it.  It is violated: the echo       *)
(* fetches the list once, perhaps before the ingest has the row, and nothing        *)
(* fetches it again.                                                             *)
RowAppears ==
  <>[]live => \A m \in Messages :
    (m \in Posted) ~> (m \in shown \/ m \notin Newest(Posted))

(* "The SDK re-decrypts them and fires Decrypted per event, which onTimeline      *)
(* already covers" (matrixCrypto.ts:474): an event that was tried and whose key    *)
(* is held is recorded.  It is violated: the attempt that failed used the          *)
(* listener up.                                                                   *)
LateKeyIsRead == tried \cap keys \subseteq read
===============================================================================
