-------------------------- MODULE MessageIndexProofs --------------------------
(*****************************************************************************)
(* Proofs about MessageIndex, for every set of users, any number of request   *)
(* and handler slots, and timelines and fault budgets of any length; and, as  *)
(* MCMessageIndex composes them, about FileShares and Reactions, for every set *)
(* of people, channels, contents and emojis.                                 *)
(*****************************************************************************)
EXTENDS MCMessageIndex, SequenceTheorems, TLAPS

(* What posting an event does to the timeline. *)
LEMMA PostAppends ==
  ASSUME TypeOK, NEW k \in Kinds, NEW t \in 0..MaxEvents, NEW u \in Users, Post(k, t, u)
  PROVE  /\ timeline' \in Seq(Event)
         /\ Len(timeline') = Len(timeline) + 1
         /\ NextEvent = Len(timeline) + 1
         /\ NextEvent \in EventIds
         /\ Len(timeline') \leq MaxEvents
         /\ \A i \in 1..Len(timeline) : timeline'[i] = timeline[i]
         /\ timeline'[NextEvent] = [kind |-> k, target |-> t, sender |-> u]
  <1> DEFINE e == [kind |-> k, target |-> t, sender |-> u]
  <1>1. e \in Event
    BY DEF Event
  <1>2. timeline \in Seq(Event) /\ timeline' = Append(timeline, e) /\ NextEvent \in EventIds
    BY DEF TypeOK, Post
  <1>3. Len(timeline) \in Nat
    BY <1>2, LenProperties
  <1> HIDE DEF e
  <1>4. /\ timeline' \in Seq(Event)
        /\ Len(timeline') = Len(timeline) + 1
        /\ \A i \in 1..Len(timeline) : timeline'[i] = timeline[i]
        /\ timeline'[Len(timeline) + 1] = e
    BY <1>1, <1>2, <1>3, AppendProperties
  <1> QED
    BY <1>2, <1>3, <1>4, BoundsAssumption DEF e, NextEvent, EventIds

(* The idle request and the empty row are well typed. *)
LEMMA IdleTypes ==
  /\ IdleRequest \in Request
  /\ NoRow \in Row
  /\ IdleHandler \in [next: 1..(MaxEvents + 1), last: 0..MaxEvents]
  BY BoundsAssumption, UsersAssumption DEF IdleRequest, Request, Steps, NoRow, Row, IdleHandler, Blind, Content

LEMMA InitType == Init => TypeOK
  <1> SUFFICES ASSUME Init PROVE TypeOK
    OBVIOUS
  <1>1. timeline \in Seq(Event) /\ Len(timeline) \leq MaxEvents
    BY BoundsAssumption DEF Init
  <1> QED
    BY <1>1, IdleTypes, BoundsAssumption DEF Init, TypeOK, Channel

LEMMA FaultType == ASSUME TypeOK, Fault PROVE faults' \in 0..MaxFaults
  BY BoundsAssumption DEF TypeOK, Fault

LEMMA ClientType == ASSUME TypeOK, ClientPosts PROVE TypeOK'
  <1> USE DEF ClientPosts, apiUnchanged
  <1>1. PICK k \in Kinds, t \in 0..MaxEvents, u \in Users : Post(k, t, u)
    <2>1. \A i \in DOMAIN timeline : i \in 0..MaxEvents
      BY BoundsAssumption DEF TypeOK
    <2> QED
      BY <2>1, BoundsAssumption DEF Kinds, Edits
  <1> QED
    BY <1>1, PostAppends DEF TypeOK

LEMMA CreateType == ASSUME TypeOK, CreateChannel PROVE TypeOK'
  <1> USE DEF apiUnchanged, Channel
  <1>1. CASE CreateUnencrypted
    BY <1>1 DEF CreateUnencrypted, TypeOK
  <1>2. CASE CreateEncrypted
    <2>1. PICK u \in Admins : Post("encryption", 0, u)
      BY <1>2 DEF CreateEncrypted
    <2>2. timeline' \in Seq(Event) /\ Len(timeline') \leq MaxEvents
      <3>1. "encryption" \in Kinds /\ 0 \in 0..MaxEvents /\ u \in Users
        BY UsersAssumption, BoundsAssumption DEF Kinds, Edits
      <3> QED
        BY <2>1, <3>1, PostAppends
    <2>3. faults' \in 0..MaxFaults
      BY <1>2, BoundsAssumption DEF CreateEncrypted, Fault, TypeOK
    <2> QED
      BY <1>2, <2>2, <2>3 DEF CreateEncrypted, TypeOK
  <1>3. CASE CreateRow
    BY <1>3 DEF CreateRow, TypeOK
  <1> QED
    BY <1>1, <1>2, <1>3 DEF CreateChannel

LEMMA InsertType ==
  ASSUME TypeOK, NEW i \in EventIds, NEW b \in BOOLEAN, NEW c \in Content, InsertRow(i, b, c)
  PROVE  rows' \in [EventIds -> Row] /\ inserts' \in [EventIds -> Nat]
  <1>1. inserts[i] + 1 \in Nat
    BY DEF TypeOK
  <1>2. [id |-> inserts[i] + 1, encrypted |-> b, content |-> c] \in Row
    BY <1>1 DEF Row
  <1>3. rows' \in [EventIds -> Row]
    BY <1>2 DEF InsertRow, TypeOK
  <1>4. inserts' \in [EventIds -> Nat]
    BY <1>1 DEF InsertRow, TypeOK
  <1> QED
    BY <1>3, <1>4

LEMMA Numbers ==
  /\ EventIds \subseteq 0..MaxEvents /\ EventIds \subseteq Content
  /\ 0..MaxEvents \subseteq Content /\ Local \in Content /\ Blind \in Content
  BY BoundsAssumption DEF EventIds, Content, Local, Blind

(* The ways a request's record changes. *)
LEMMA RequestMoves ==
  ASSUME TypeOK, NEW r \in Requests,
         \/ req' = [req EXCEPT ![r] = IdleRequest]
         \/ \E s \in Steps : req' = [req EXCEPT ![r].pc = s]
         \/ \E s \in Steps, e \in 0..MaxEvents : req' = [req EXCEPT ![r].pc = s, ![r].ev = e]
         \/ \E s \in Steps, c \in Content : req' = [req EXCEPT ![r].pc = s, ![r].content = c]
         \/ \E s \in Steps, u \in Locals :
              req' = [req EXCEPT ![r] = [IdleRequest EXCEPT !.pc = s, !.user = u]]
         \/ \E s \in Steps, u \in Locals, e \in 0..MaxEvents, n \in Nat :
              req' = [req EXCEPT ![r] = [pc |-> s, user |-> u, ev |-> e, id |-> n, content |-> Blind]]
  PROVE  req' \in [Requests -> Request]
  <1>1. req \in [Requests -> Request] /\ req[r] \in Request
    BY DEF TypeOK
  <1>2. \E q \in Request : req' = [req EXCEPT ![r] = q]
    <2>1. CASE req' = [req EXCEPT ![r] = IdleRequest]
      BY <2>1, IdleTypes
    <2>2. ASSUME NEW s \in Steps, req' = [req EXCEPT ![r].pc = s]
          PROVE  \E q \in Request : req' = [req EXCEPT ![r] = q]
      <3>1. [req[r] EXCEPT !.pc = s] \in Request
        BY <1>1 DEF Request
      <3> QED
        BY <2>2, <3>1
    <2>3. ASSUME NEW s \in Steps, NEW e \in 0..MaxEvents, req' = [req EXCEPT ![r].pc = s, ![r].ev = e]
          PROVE  \E q \in Request : req' = [req EXCEPT ![r] = q]
      <3>1. [req[r] EXCEPT !.pc = s, !.ev = e] \in Request
        BY <1>1 DEF Request
      <3>2. req' = [req EXCEPT ![r] = [req[r] EXCEPT !.pc = s, !.ev = e]]
        BY <1>1, <2>3
      <3> QED
        BY <3>1, <3>2
    <2>4. ASSUME NEW s \in Steps, NEW c \in Content, req' = [req EXCEPT ![r].pc = s, ![r].content = c]
          PROVE  \E q \in Request : req' = [req EXCEPT ![r] = q]
      <3>1. [req[r] EXCEPT !.pc = s, !.content = c] \in Request
        BY <1>1 DEF Request
      <3>2. req' = [req EXCEPT ![r] = [req[r] EXCEPT !.pc = s, !.content = c]]
        BY <1>1, <2>4
      <3> QED
        BY <3>1, <3>2
    <2>5. ASSUME NEW s \in Steps, NEW u \in Locals,
                 req' = [req EXCEPT ![r] = [IdleRequest EXCEPT !.pc = s, !.user = u]]
          PROVE  \E q \in Request : req' = [req EXCEPT ![r] = q]
      <3>1. [IdleRequest EXCEPT !.pc = s, !.user = u] \in Request
        BY IdleTypes DEF Request
      <3> QED
        BY <2>5, <3>1
    <2>6. ASSUME NEW s \in Steps, NEW u \in Locals, NEW e \in 0..MaxEvents, NEW n \in Nat,
                 req' = [req EXCEPT ![r] = [pc |-> s, user |-> u, ev |-> e, id |-> n, content |-> Blind]]
          PROVE  \E q \in Request : req' = [req EXCEPT ![r] = q]
      <3>1. [pc |-> s, user |-> u, ev |-> e, id |-> n, content |-> Blind] \in Request
        BY Numbers DEF Request
      <3> QED
        BY <2>6, <3>1
    <2> QED
      BY <2>1, <2>2, <2>3, <2>4, <2>5, <2>6
  <1> QED
    BY <1>1, <1>2

(* A call to the homeserver on behalf of a request. *)
LEMMA RequestPosts ==
  ASSUME TypeOK, NEW r \in Requests, NEW k \in Kinds,
         Post(k, req[r].ev, req[r].user) \/ Post(k, 0, req[r].user)
  PROVE  timeline' \in Seq(Event) /\ Len(timeline') \leq MaxEvents /\ NextEvent \in EventIds
  <1>1. req[r].user \in Users /\ req[r].ev \in 0..MaxEvents /\ 0 \in 0..MaxEvents
    BY UsersAssumption, BoundsAssumption DEF TypeOK, Request
  <1> QED
    BY <1>1, PostAppends

LEMMA RequestEvents ==
  ASSUME TypeOK, RequestsInv, NEW r \in Requests,
         req[r].pc \in {"sendPosted", "conflict", "editRead", "editChecked", "editPosted",
                       "deleteRead", "deleteRedacted"}
  PROVE  req[r].ev \in EventIds
  BY BoundsAssumption DEF RequestsInv, Posted, TypeOK, EventIds

LEMMA ApiType == ASSUME TypeOK, RequestsInv, NEW r \in Requests, ApiStep(r) PROVE TypeOK'
  <1>1. ASSUME NEW u \in Locals, SendCheck(r, u) PROVE TypeOK'
    <2>1. req' \in [Requests -> Request]
      BY <1>1, RequestMoves DEF SendCheck, Steps
    <2> QED
      BY <1>1, <2>1 DEF SendCheck, roomUnchanged, TypeOK
  <1>2. CASE SendPost(r)
    <2>1. CASE Post("text", 0, req[r].user)
      <3>1. timeline' \in Seq(Event) /\ Len(timeline') \leq MaxEvents /\ NextEvent \in 0..MaxEvents
        BY <2>1, RequestPosts, Numbers DEF Kinds, Edits
      <3>2. req' \in [Requests -> Request]
        BY <1>2, <3>1, RequestMoves DEF SendPost, Steps
      <3>3. faults' \in 0..MaxFaults
        BY <1>2, FaultType DEF SendPost, TypeOK
      <3> QED
        BY <1>2, <3>1, <3>2, <3>3 DEF SendPost, apiUnchanged, TypeOK
    <2>2. CASE UNCHANGED <<timeline, faults>> /\ req' = [req EXCEPT ![r] = IdleRequest]
      BY <1>2, <2>2, RequestMoves DEF SendPost, apiUnchanged, TypeOK
    <2> QED
      BY <1>2, <2>1, <2>2 DEF SendPost
  <1>3. CASE SendRecord(r)
    <2>1. req' \in [Requests -> Request]
      BY <1>3, RequestMoves DEF SendRecord, Steps
    <2>2. faults' \in 0..MaxFaults
      BY <1>3, FaultType DEF SendRecord, TypeOK
    <2>3. req[r].ev \in EventIds /\ req[r].ev \in Content
      BY <1>3, RequestEvents, Numbers DEF SendRecord
    <2>4. rows' \in [EventIds -> Row] /\ inserts' \in [EventIds -> Nat]
      BY <1>3, <2>3, InsertType DEF SendRecord, TypeOK
    <2> QED
      BY <1>3, <2>1, <2>2, <2>4 DEF SendRecord, roomUnchanged, TypeOK
  <1>4. CASE SendConflict(r)
    <2>1. req' \in [Requests -> Request]
      BY <1>4, RequestMoves DEF SendConflict
    <2> QED
      BY <1>4, <2>1 DEF SendConflict, roomUnchanged, TypeOK
  <1>5. ASSUME NEW u \in Locals, NEW i \in EventIds, EditRead(r, u, i) PROVE TypeOK'
    <2>1. rows[i].id \in Nat /\ i \in 0..MaxEvents
      BY Numbers DEF TypeOK, Row
    <2>2. req' \in [Requests -> Request]
      BY <1>5, <2>1, RequestMoves DEF EditRead, Steps
    <2> QED
      BY <1>5, <2>2 DEF EditRead, roomUnchanged, TypeOK
  <1>6. ASSUME NEW u \in Locals, NEW i \in EventIds, DeleteRead(r, u, i) PROVE TypeOK'
    <2>1. rows[i].id \in Nat /\ i \in 0..MaxEvents
      BY Numbers DEF TypeOK, Row
    <2>2. req' \in [Requests -> Request]
      BY <1>6, <2>1, RequestMoves DEF DeleteRead, Steps
    <2> QED
      BY <1>6, <2>2 DEF DeleteRead, roomUnchanged, TypeOK
  <1>7. CASE EditCheck(r)
    <2>1. req' \in [Requests -> Request]
      BY <1>7, RequestMoves DEF EditCheck, Steps
    <2> QED
      BY <1>7, <2>1 DEF EditCheck, roomUnchanged, TypeOK
  <1>8. CASE EditPost(r)
    <2>1. CASE /\ Post("edit", req[r].ev, req[r].user)
               /\ req' = [req EXCEPT ![r].pc = "editPosted", ![r].content = NextEvent]
      <3>1. timeline' \in Seq(Event) /\ Len(timeline') \leq MaxEvents /\ NextEvent \in Content
        BY <2>1, RequestPosts, Numbers DEF Kinds, Edits
      <3>2. req' \in [Requests -> Request]
        BY <2>1, <3>1, RequestMoves DEF Steps
      <3> QED
        BY <1>8, <3>1, <3>2 DEF EditPost, apiUnchanged, TypeOK
    <2>2. CASE /\ req' = [req EXCEPT ![r].pc = "editPosted", ![r].content = Local]
               /\ UNCHANGED timeline
      <3>1. req' \in [Requests -> Request]
        BY <2>2, Numbers, RequestMoves DEF Steps
      <3> QED
        BY <1>8, <2>2, <3>1 DEF EditPost, apiUnchanged, TypeOK
    <2> QED
      BY <1>8, <2>1, <2>2 DEF EditPost
  <1>9. CASE EditApply(r)
    <2>1. req' \in [Requests -> Request]
      BY <1>9, RequestMoves DEF EditApply
    <2>2. rows' \in [EventIds -> Row]
      <3>1. req[r].ev \in EventIds /\ req[r].content \in Content
        BY <1>9, RequestEvents DEF EditApply, TypeOK, Request
      <3>2. [rows[req[r].ev] EXCEPT !.content = req[r].content] \in Row
        BY <3>1 DEF TypeOK, Row
      <3> QED
        BY <1>9, <3>1, <3>2 DEF EditApply, TypeOK
    <2> QED
      BY <1>9, <2>1, <2>2 DEF EditApply, roomUnchanged, TypeOK
  <1>10. CASE DeleteRedact(r)
    <2>1. req' \in [Requests -> Request]
      BY <1>10, RequestMoves DEF DeleteRedact, Steps
    <2>2. timeline' \in Seq(Event) /\ Len(timeline') \leq MaxEvents
      BY <1>10, RequestPosts DEF DeleteRedact, Kinds, TypeOK
    <2> QED
      BY <1>10, <2>1, <2>2 DEF DeleteRedact, apiUnchanged, TypeOK
  <1>11. CASE DeleteApply(r)
    <2>1. req' \in [Requests -> Request]
      BY <1>11, RequestMoves DEF DeleteApply
    <2>2. req[r].ev \in EventIds
      BY <1>11, RequestEvents DEF DeleteApply
    <2>3. rows' \in [EventIds -> Row] /\ gone' \subseteq EventIds /\ removed' \subseteq EventIds
      BY <1>11, <2>2, IdleTypes DEF DeleteApply, TypeOK
    <2> QED
      BY <1>11, <2>1, <2>3 DEF DeleteApply, roomUnchanged, TypeOK
  <1>12. ASSUME NEW u \in Admins, EnableCheck(r, u) PROVE TypeOK'
    <2>1. req' \in [Requests -> Request]
      BY <1>12, UsersAssumption, RequestMoves DEF EnableCheck, Steps
    <2> QED
      BY <1>12, <2>1 DEF EnableCheck, roomUnchanged, TypeOK
  <1>13. CASE EnableApply(r)
    <2>1. req' \in [Requests -> Request]
      BY <1>13, RequestMoves DEF EnableApply, Steps
    <2>2. timeline' \in Seq(Event) /\ Len(timeline') \leq MaxEvents
      BY <1>13, RequestPosts DEF EnableApply, Kinds, TypeOK
    <2>3. faults' \in 0..MaxFaults
      BY <1>13, FaultType DEF EnableApply, TypeOK
    <2> QED
      BY <1>13, <2>1, <2>2, <2>3 DEF EnableApply, apiUnchanged, TypeOK
  <1>14. CASE EnableMark(r)
    <2>1. req' \in [Requests -> Request]
      BY <1>14, RequestMoves DEF EnableMark
    <2> QED
      BY <1>14, <2>1 DEF EnableMark, MarkChannelEncrypted, roomUnchanged, TypeOK, Channel
  <1> QED
    BY <1>1, <1>2, <1>3, <1>4, <1>5, <1>6, <1>7, <1>8, <1>9, <1>10, <1>11, <1>12, <1>13, <1>14
    DEF ApiStep

LEMMA QueueType ==
  ASSUME TypeOK, QueueInv, TargetsInv, NEW d \in Deliveries,
         SendTxn(d) \/ ResendTxn(d) \/ Ingest(d) \/ Ack(d)
  PROVE  TypeOK'
  <1> DEFINE Handler == [next: 1..(MaxEvents + 1), last: 0..MaxEvents]
  <1>1. ASSUME NEW last \in 0..MaxEvents, StartHandler(d, last)
        PROVE  handler' \in [Deliveries -> Handler]
    <2>1. [next |-> acked + 1, last |-> last] \in Handler
      BY BoundsAssumption DEF TypeOK
    <2> QED
      BY <1>1, <2>1 DEF StartHandler, TypeOK
  <1>2. CASE SendTxn(d)
    <2>1. PICK last \in (acked + 1)..Len(timeline) : txnEnd' = last /\ StartHandler(d, last)
      BY <1>2 DEF SendTxn
    <2>2. last \in 0..MaxEvents
      BY <2>1, BoundsAssumption DEF TypeOK
    <2> QED
      BY <1>1, <1>2, <2>1, <2>2 DEF SendTxn, TypeOK
  <1>3. CASE ResendTxn(d)
    <2>1. handler' \in [Deliveries -> Handler]
      BY <1>1, <1>3 DEF ResendTxn, TypeOK
    <2>2. faults' \in 0..MaxFaults
      BY <1>3, FaultType DEF ResendTxn, TypeOK
    <2> QED
      BY <1>3, <2>1, <2>2 DEF ResendTxn, roomUnchanged, TypeOK
  <1>4. CASE Ingest(d)
    <2> DEFINE i == handler[d].next
    <2>1. i \in EventIds /\ i \in 1..Len(timeline) /\ i \in Content /\ handler[d].last \in 0..MaxEvents
      BY <1>4, BoundsAssumption DEF Ingest, TypeOK, QueueInv, EventIds, Content
    <2>2. handler' \in [Deliveries -> Handler]
      <3>1. i + 1 \in 1..(MaxEvents + 1)
        BY <2>1, BoundsAssumption DEF EventIds
      <3>2. [handler[d] EXCEPT !.next = i + 1] \in Handler
        BY <3>1 DEF TypeOK
      <3> QED
        BY <1>4, <3>2 DEF Ingest, TypeOK
    <2>3. faults' \in 0..MaxFaults
      BY <1>4, FaultType DEF Ingest, TypeOK
    <2> HIDE DEF i
    <2>4. /\ channel' \in Channel
          /\ rows' \in [EventIds -> Row] /\ inserts' \in [EventIds -> Nat]
          /\ missed' \subseteq EventIds /\ gone' \subseteq EventIds
      <3>1. CASE Miss(i)
        BY <2>1, <3>1 DEF Miss, TypeOK
      <3>2. CASE IngestText(i)
        <4>1. CASE InsertRow(i, TRUE, Blind) \/ InsertRow(i, FALSE, i)
          <5>1. rows' \in [EventIds -> Row] /\ inserts' \in [EventIds -> Nat]
            BY <2>1, <4>1, InsertType, Numbers
          <5> QED
            BY <2>1, <3>2, <5>1 DEF IngestText, Miss, TypeOK
        <4> QED
          BY <2>1, <3>2, <4>1 DEF IngestText, Miss, TypeOK
      <3>3. CASE IngestReplace(i)
        <4>1. CASE UNCHANGED rows
          BY <2>1, <3>3, <4>1 DEF IngestReplace, TypeOK
        <4>2. CASE rows' = [rows EXCEPT ![timeline[i].target].content = i] /\ UNCHANGED missed
          <5>1. rows' \in [EventIds -> Row]
            BY <2>1, <4>2 DEF TypeOK, Row
          <5> QED
            BY <3>3, <4>2, <5>1 DEF IngestReplace, TypeOK
        <4> QED
          BY <3>3, <4>1, <4>2 DEF IngestReplace
      <3>4. CASE IngestRedaction(i)
        <4>1. CASE HasRow(timeline[i].target)
          <5>1. timeline[i].target \in EventIds
            BY <2>1, <3>4, BoundsAssumption DEF IngestRedaction, TargetsInv, Posted, TypeOK, EventIds
          <5> QED
            BY <2>1, <3>4, <4>1, <5>1, IdleTypes DEF IngestRedaction, TypeOK
        <4> QED
          BY <2>1, <3>4, <4>1 DEF IngestRedaction, TypeOK
      <3>5. CASE IngestEncryption(i)
        BY <2>1, <3>5 DEF IngestEncryption, MarkChannelEncrypted, Miss, TypeOK, Channel
      <3> QED
        BY <1>4, <3>1, <3>2, <3>3, <3>4, <3>5 DEF Ingest, i
    <2> QED
      BY <1>4, <2>2, <2>3, <2>4 DEF Ingest, roomUnchanged, TypeOK
  <1>5. CASE Ack(d)
    <2>1. acked' \in 0..MaxEvents /\ handler' \in [Deliveries -> Handler]
      BY <1>5, IdleTypes DEF Ack, TypeOK
    <2>2. faults' \in 0..MaxFaults
      BY <1>5, FaultType DEF Ack, TypeOK
    <2> QED
      BY <1>5, <2>1, <2>2 DEF Ack, TypeOK
  <1> QED
    BY <1>2, <1>3, <1>4, <1>5

LEMMA NextType ==
  ASSUME TypeOK, QueueInv, RequestsInv, TargetsInv, [Next]_vars
  PROVE  TypeOK'
  <1>1. CASE Restart
    <2>1. /\ req' \in [Requests -> Request]
          /\ handler' \in [Deliveries -> [next: 1..(MaxEvents + 1), last: 0..MaxEvents]]
      BY <1>1, IdleTypes DEF Restart
    <2>2. faults' \in 0..MaxFaults
      BY <1>1, FaultType DEF Restart
    <2>3. channel' \in Channel
      BY <1>1 DEF Restart, TypeOK, Channel
    <2> QED
      BY <1>1, <2>1, <2>2, <2>3 DEF Restart, roomUnchanged, TypeOK
  <1>2. CASE UNCHANGED vars
    BY <1>2 DEF vars, TypeOK
  <1> QED
    BY <1>1, <1>2, ClientType, CreateType, ApiType, QueueType DEF Next

-----------------------------------------------------------------------------
(* The timeline only grows, by one event at a time, of which we know: *)
NewEvent(i) ==
  /\ timeline'[i].kind = "encrypted" => RoomEncrypted
  /\ timeline'[i].kind \in Edits \union {"redaction"} => timeline'[i].target \in 1..Len(timeline)
  /\ timeline'[i].kind \in Edits /\ EncryptionHeard => ~IsEncrypted(timeline'[i].target)

Grown ==
  /\ Len(timeline) \in Nat /\ Len(timeline') \in Nat
  /\ Len(timeline) \leq Len(timeline') /\ Len(timeline') \leq Len(timeline) + 1
  /\ \A i \in 1..Len(timeline) : timeline'[i] = timeline[i]

LEMMA UnchangedGrows ==
  ASSUME TypeOK, UNCHANGED timeline
  PROVE  Grown /\ \A i \in 1..Len(timeline') : i > Len(timeline) => NewEvent(i)
  <1>1. Len(timeline) \in Nat
    BY LenProperties DEF TypeOK
  <1> QED
    BY <1>1 DEF Grown

LEMMA PostGrows ==
  ASSUME TypeOK, NEW k \in Kinds, NEW t \in 0..MaxEvents, NEW u \in Users, Post(k, t, u),
         k = "encrypted" => RoomEncrypted,
         k \in Edits \union {"redaction"} => t \in 1..Len(timeline),
         k \in Edits /\ EncryptionHeard => ~IsEncrypted(t)
  PROVE  /\ Grown /\ \A i \in 1..Len(timeline') : i > Len(timeline) => NewEvent(i)
         /\ NextEvent \in 1..Len(timeline')
         /\ timeline'[NextEvent] = [kind |-> k, target |-> t, sender |-> u]
  <1>1. Len(timeline) \in Nat
    BY LenProperties DEF TypeOK
  <1>2. Len(timeline') = Len(timeline) + 1 /\ NextEvent = Len(timeline) + 1
    BY PostAppends
  <1>3. timeline'[NextEvent] = [kind |-> k, target |-> t, sender |-> u]
    BY PostAppends
  <1>4. Grown
    <2>1. \A i \in 1..Len(timeline) : timeline'[i] = timeline[i]
      BY PostAppends
    <2> QED
      BY <1>1, <1>2, <2>1 DEF Grown
  <1>5. NewEvent(NextEvent)
    <2>1. timeline'[NextEvent].kind = k /\ timeline'[NextEvent].target = t
      BY <1>3
    <2> QED
      BY <2>1 DEF NewEvent, IsEncrypted
  <1>6. ASSUME NEW i \in 1..Len(timeline'), i > Len(timeline) PROVE NewEvent(i)
    <2>1. i = NextEvent
      BY <1>1, <1>2, <1>6
    <2> QED
      BY <1>5, <2>1
  <1> QED
    BY <1>1, <1>2, <1>3, <1>4, <1>6

LEMMA RequestFacts ==
  ASSUME TypeOK, RequestsInv, NEW r \in Requests
  PROVE  /\ req[r].user \in Users
         /\ req[r].ev \in 0..MaxEvents
         /\ req[r].pc \in {"editRead", "editChecked", "editPosted", "deleteRead", "deleteRedacted"} =>
              req[r].ev \in 1..Len(timeline)
         /\ req[r].pc \in {"editChecked", "editPosted"} /\ EncryptionHeard => ~IsEncrypted(req[r].ev)
  BY UsersAssumption DEF TypeOK, Request, RequestsInv, Posted

LEMMA TimelineGrows ==
  ASSUME TypeOK, RequestsInv, [Next]_vars
  PROVE  Grown /\ \A i \in 1..Len(timeline') : i > Len(timeline) => NewEvent(i)
  <1> DEFINE Goal == Grown /\ \A i \in 1..Len(timeline') : i > Len(timeline) => NewEvent(i)
  <1>1. CASE ClientPosts
    <2>1. PICK k \in Kinds, t \in 0..MaxEvents, u \in Users :
            /\ Post(k, t, u)
            /\ k = "encrypted" => RoomEncrypted
            /\ k \in Edits \union {"redaction"} => t \in 1..Len(timeline)
            /\ k \in Edits => timeline[t].kind = "text"
      <3>1. DOMAIN timeline = 1..Len(timeline) /\ \A i \in DOMAIN timeline : i \in 0..MaxEvents
        BY BoundsAssumption DEF TypeOK
      <3> QED
        BY <1>1, <3>1, BoundsAssumption DEF ClientPosts, Kinds, Edits
    <2> QED
      BY <2>1, PostGrows DEF IsEncrypted
  <1>2. CASE CreateChannel
    <2>1. CASE UNCHANGED timeline
      BY <2>1, UnchangedGrows
    <2>2. CASE \E u \in Admins : Post("encryption", 0, u)
      <3>1. PICK u \in Users : Post("encryption", 0, u)
        BY <2>2, UsersAssumption
      <3>2. "encryption" \in Kinds /\ 0 \in 0..MaxEvents
        BY BoundsAssumption DEF Kinds, Edits
      <3> QED
        BY <3>1, <3>2, PostGrows DEF Edits
    <2> QED
      BY <1>2, <2>1, <2>2 DEF CreateChannel, CreateUnencrypted, CreateEncrypted, CreateRow
  <1>3. ASSUME NEW r \in Requests, ApiStep(r) PROVE Goal
    <2>0. {"text", "edit", "redaction", "encryption"} \subseteq Kinds /\ 0 \in 0..MaxEvents
      BY BoundsAssumption DEF Kinds, Edits
    <2>1. CASE UNCHANGED timeline
      BY <2>1, UnchangedGrows
    <2>2. CASE Post("text", 0, req[r].user) \/ Post("encryption", 0, req[r].user)
      BY <2>0, <2>2, RequestFacts, PostGrows DEF Edits
    <2>3. CASE EditPost(r) /\ Post("edit", req[r].ev, req[r].user)
      BY <2>0, <2>3, RequestFacts, PostGrows DEF EditPost, Edits
    <2>4. CASE DeleteRedact(r) /\ Post("redaction", req[r].ev, req[r].user)
      BY <2>0, <2>4, RequestFacts, PostGrows DEF DeleteRedact, Edits
    <2> QED
      BY <1>3, <2>1, <2>2, <2>3, <2>4
      DEF ApiStep, roomUnchanged, SendCheck, SendPost, SendRecord, SendConflict, EditRead, EditCheck,
          EditPost, EditApply, DeleteRead, DeleteRedact, DeleteApply, EnableCheck, EnableApply, EnableMark
  <1>4. ASSUME NEW d \in Deliveries, SendTxn(d) \/ ResendTxn(d) \/ Ingest(d) \/ Ack(d)
        PROVE  UNCHANGED timeline
    BY <1>4 DEF SendTxn, ResendTxn, Ingest, Ack, roomUnchanged
  <1>5. CASE Restart \/ UNCHANGED vars
    BY <1>5, UnchangedGrows DEF Restart, roomUnchanged, vars
  <1> QED
    BY <1>1, <1>2, <1>3, <1>4, <1>5, UnchangedGrows DEF Next

(* Histories and the flag only grow. *)
LEMMA Monotone ==
  ASSUME TypeOK, LockInv, [Next]_vars
  PROVE  /\ missed \subseteq missed' /\ gone \subseteq gone'
         /\ channel.encrypted => channel'.encrypted
         /\ ChannelExists => ChannelExists'
  <1> USE DEF roomUnchanged, apiUnchanged
  <1>1. CASE ClientPosts \/ UNCHANGED vars
    BY <1>1 DEF ClientPosts, vars, ChannelExists
  <1>2. CASE CreateChannel
    BY <1>2 DEF CreateChannel, CreateUnencrypted, CreateEncrypted, CreateRow, LockInv, ChannelExists, TypeOK, Channel
  <1>3. ASSUME NEW r \in Requests, ApiStep(r)
        PROVE  /\ missed \subseteq missed' /\ gone \subseteq gone'
               /\ channel' = channel \/ channel' = [channel EXCEPT !.encrypted = TRUE]
    BY <1>3
    DEF ApiStep, SendCheck, SendPost, SendRecord, SendConflict, EditRead, EditCheck, EditPost, EditApply,
        DeleteRead, DeleteRedact, DeleteApply, EnableCheck, EnableApply, EnableMark, MarkChannelEncrypted
  <1>4. ASSUME NEW d \in Deliveries, SendTxn(d) \/ ResendTxn(d) \/ Ingest(d) \/ Ack(d)
        PROVE  /\ missed \subseteq missed' /\ gone \subseteq gone'
               /\ channel' = channel \/ channel' = [channel EXCEPT !.encrypted = TRUE]
    BY <1>4
    DEF SendTxn, ResendTxn, Ingest, Ack, Miss, IngestText, IngestReplace, IngestRedaction,
        IngestEncryption, MarkChannelEncrypted
  <1>5. CASE Restart
    BY <1>5 DEF Restart, ChannelExists, TypeOK, Channel
  <1>6. ASSUME channel' = channel \/ channel' = [channel EXCEPT !.encrypted = TRUE]
        PROVE  (channel.encrypted => channel'.encrypted) /\ (ChannelExists => ChannelExists')
    BY <1>6 DEF TypeOK, Channel, ChannelExists
  <1> QED
    BY <1>1, <1>2, <1>3, <1>4, <1>5, <1>6 DEF Next

(* The encryption of the room, once there, stays; what was never heard, too. *)
LEMMA HeardMonotone ==
  ASSUME Grown, missed \subseteq missed', missed \subseteq 1..Len(timeline), EncryptionHeard'
  PROVE  EncryptionHeard
  BY DEF Grown, EncryptionHeard, IsEncryption

LEMMA RoomEncryptedStays ==
  ASSUME TypeOK, timeline' \in Seq(Event), Grown, RoomEncrypted
  PROVE  RoomEncrypted'
  <1>1. DOMAIN timeline = 1..Len(timeline) /\ DOMAIN timeline' = 1..Len(timeline')
    BY DEF TypeOK
  <1> QED
    BY <1>1 DEF RoomEncrypted, IsEncryption, Grown

LEMMA QueueStep ==
  ASSUME TypeOK, QueueInv, Grown, [Next]_vars
  PROVE  QueueInv'
  <1>1. CASE UNCHANGED <<acked, txnEnd, handler>>
    BY <1>1 DEF QueueInv, Serving, Grown, TypeOK
  <1>2. ASSUME NEW d \in Deliveries, SendTxn(d) PROVE QueueInv'
    <2>1. PICK last \in (acked + 1)..Len(timeline) : txnEnd' = last /\ StartHandler(d, last)
      BY <1>2 DEF SendTxn
    <2>2. txnEnd = acked /\ acked' = acked /\ timeline' = timeline
      BY <1>2 DEF SendTxn
    <2>3. \A c \in Deliveries : handler'[c] = IF c = d THEN [next |-> acked + 1, last |-> last] ELSE handler[c]
      BY <2>1 DEF StartHandler, TypeOK
    <2> QED
      BY <2>1, <2>2, <2>3 DEF QueueInv, Serving, TypeOK
  <1>3. ASSUME NEW d \in Deliveries, ResendTxn(d) PROVE QueueInv'
    <2>1. \A c \in Deliveries : handler'[c] = IF c = d THEN [next |-> acked + 1, last |-> txnEnd] ELSE handler[c]
      BY <1>3 DEF ResendTxn, StartHandler, TypeOK
    <2>2. txnEnd > acked /\ UNCHANGED <<timeline, txnEnd, acked>>
      BY <1>3 DEF ResendTxn, roomUnchanged
    <2>3. ASSUME NEW c \in Deliveries
          PROVE  handler'[c].last \leq txnEnd /\ (handler'[c].last > 0 => handler'[c].next \leq handler'[c].last + 1)
      <3>1. CASE c = d
        <4>1. handler'[c].last = txnEnd /\ handler'[c].next = acked + 1
          BY <2>1, <3>1
        <4> QED
          BY <2>2, <4>1 DEF TypeOK
      <3>2. CASE c # d
        BY <2>1, <3>2 DEF QueueInv, Serving
      <3> QED
        BY <3>1, <3>2
    <2> QED
      BY <2>2, <2>3 DEF QueueInv, Serving
  <1>4. ASSUME NEW d \in Deliveries, Ingest(d) PROVE QueueInv'
    <2>1. \A c \in Deliveries : handler'[c].last = handler[c].last
      BY <1>4 DEF Ingest, TypeOK
    <2>2. \A c \in Deliveries : handler'[c].next = IF c = d THEN handler[c].next + 1 ELSE handler[c].next
      BY <1>4 DEF Ingest, TypeOK
    <2> QED
      BY <1>4, <2>1, <2>2 DEF Ingest, roomUnchanged, QueueInv, Serving, TypeOK
  <1>5. ASSUME NEW d \in Deliveries, Ack(d) PROVE QueueInv'
    <2>1. \A c \in Deliveries : handler'[c] = IF c = d THEN IdleHandler ELSE handler[c]
      BY <1>5 DEF Ack, TypeOK
    <2>2. acked' \leq txnEnd' /\ txnEnd' = txnEnd /\ timeline' = timeline
      BY <1>5 DEF Ack, QueueInv, TypeOK
    <2>3. ASSUME NEW c \in Deliveries
          PROVE  handler'[c].last \leq txnEnd /\ (handler'[c].last > 0 => handler'[c].next \leq handler'[c].last + 1)
      BY <2>1 DEF QueueInv, Serving, TypeOK, IdleHandler
    <2> QED
      BY <2>2, <2>3 DEF QueueInv, Serving
  <1>6. CASE Restart
    <2>1. \A c \in Deliveries : handler'[c] = IdleHandler
      BY <1>6 DEF Restart
    <2> QED
      BY <1>6, <2>1 DEF Restart, roomUnchanged, QueueInv, Serving, TypeOK, IdleHandler
  <1>7. ASSUME NEW r \in Requests, ApiStep(r) PROVE UNCHANGED <<acked, txnEnd, handler>>
    BY <1>7
    DEF ApiStep, SendCheck, SendPost, SendRecord, SendConflict, EditRead, EditCheck, EditPost, EditApply,
        DeleteRead, DeleteRedact, DeleteApply, EnableCheck, EnableApply, EnableMark, roomUnchanged, apiUnchanged
  <1>8. CASE ClientPosts \/ CreateChannel \/ UNCHANGED vars
    BY <1>1, <1>8
    DEF ClientPosts, CreateChannel, CreateUnencrypted, CreateEncrypted, CreateRow, vars, apiUnchanged
  <1> QED
    BY <1>1, <1>2, <1>3, <1>4, <1>5, <1>6, <1>7, <1>8 DEF Next

(* An event is behind the queue when it was, or when a handler takes its turn. *)
LEMMA ProcessedStep ==
  ASSUME TypeOK, QueueInv, Grown, [Next]_vars, NEW i \in 1..Len(timeline'), Processed(i)'
  PROVE  /\ i \in 1..Len(timeline)
         /\ Processed(i) \/ \E d \in Deliveries : Ingest(d) /\ i = handler[d].next
  <1> DEFINE Same == acked' = acked /\ handler' = handler
  <1>0. i \in Nat
    BY DEF Grown
  <1>1. ASSUME Same PROVE Processed(i)
    BY <1>1 DEF Processed, Serving
  <1>2. ASSUME NEW d \in Deliveries, SendTxn(d) \/ ResendTxn(d) PROVE Processed(i)
    <2>1. acked' = acked /\ \A c \in Deliveries : handler'[c].next = acked + 1 \/ handler'[c] = handler[c]
      BY <1>2 DEF SendTxn, ResendTxn, StartHandler, TypeOK, roomUnchanged
    <2> QED
      BY <1>0, <2>1 DEF Processed, Serving, TypeOK
  <1>3. ASSUME NEW d \in Deliveries, Ingest(d) PROVE Processed(i) \/ i = handler[d].next
    <2>1. /\ acked' = acked
          /\ \A c \in Deliveries :
               /\ handler'[c].last = handler[c].last
               /\ handler'[c].next = IF c = d THEN handler[c].next + 1 ELSE handler[c].next
      BY <1>3 DEF Ingest, TypeOK, roomUnchanged
    <2>2. handler[d].next \in Nat
      BY DEF TypeOK
    <2> QED
      BY <2>1, <2>2 DEF Processed, Serving
  <1>4. ASSUME NEW d \in Deliveries, Ack(d) PROVE Processed(i)
    <2>1. Serving(d) /\ handler[d].next > handler[d].last /\ acked' \in {acked, handler[d].last}
      BY <1>4 DEF Ack
    <2>2. \A c \in Deliveries : handler'[c] = IF c = d THEN IdleHandler ELSE handler[c]
      BY <1>4 DEF Ack, TypeOK
    <2>3. CASE i \leq acked'
      BY <2>1, <2>3 DEF Processed, TypeOK
    <2>4. CASE ~(i \leq acked')
      BY <2>2, <2>4 DEF Processed, Serving, IdleHandler
    <2> QED
      BY <2>3, <2>4
  <1>5. ASSUME Restart PROVE Processed(i)
    <2>1. acked' = acked /\ \A c \in Deliveries : handler'[c].last = 0
      BY <1>5 DEF Restart, roomUnchanged, IdleHandler
    <2> QED
      BY <2>1 DEF Processed, Serving
  <1>6. ASSUME NEW r \in Requests, ApiStep(r) PROVE Same
    BY <1>6
    DEF ApiStep, SendCheck, SendPost, SendRecord, SendConflict, EditRead, EditCheck, EditPost, EditApply,
        DeleteRead, DeleteRedact, DeleteApply, EnableCheck, EnableApply, EnableMark, roomUnchanged, apiUnchanged
  <1>7. ASSUME ClientPosts \/ CreateChannel \/ UNCHANGED vars PROVE Same
    BY <1>7
    DEF ClientPosts, CreateChannel, CreateUnencrypted, CreateEncrypted, CreateRow, vars, apiUnchanged
  <1>8. Processed(i) \/ \E d \in Deliveries : Ingest(d) /\ i = handler[d].next
    BY <1>1, <1>2, <1>3, <1>4, <1>5, <1>6, <1>7 DEF Next
  <1>9. ASSUME NEW j \in Nat, Processed(j) PROVE j \leq Len(timeline)
    BY <1>9 DEF Processed, QueueInv, Serving, TypeOK, Grown
  <1>10. ASSUME NEW d \in Deliveries, Ingest(d) PROVE handler[d].next \leq Len(timeline)
    BY <1>10 DEF Ingest, QueueInv, TypeOK, Grown
  <1>11. i \in Nat /\ i \geq 1
    OBVIOUS
  <1> QED
    BY <1>8, <1>9, <1>10, <1>11 DEF Grown

(* The event a handler turns to is an event of the room. *)
LEMMA TurnInRoom ==
  ASSUME TypeOK, QueueInv, NEW d \in Deliveries, Ingest(d)
  PROVE  /\ handler[d].next \in 1..Len(timeline) /\ handler[d].next \in EventIds
         /\ Serving(d) /\ timeline' = timeline
  BY BoundsAssumption DEF Ingest, QueueInv, TypeOK, Serving, EventIds, roomUnchanged

LEMMA HeardStep ==
  ASSUME TypeOK, QueueInv, LockInv, HeardInv, Grown, [Next]_vars
  PROVE  HeardInv'
  <1>1. missed \subseteq missed' /\ (channel.encrypted => channel'.encrypted)
    BY Monotone
  <1>2. missed' \subseteq 1..Len(timeline')
    <2>1. ASSUME NEW d \in Deliveries, Ingest(d)
          PROVE  missed' \subseteq missed \union {handler[d].next} /\ handler[d].next \in 1..Len(timeline)
      <3>1. handler[d].next \in 1..Len(timeline)
        BY <2>1 DEF Ingest, QueueInv, TypeOK, Grown
      <3>2. missed' \subseteq missed \union {handler[d].next}
        BY <2>1 DEF Ingest, Miss, IngestText, IngestReplace, IngestRedaction, IngestEncryption
      <3> QED
        BY <3>1, <3>2
    <2>2. ASSUME ~\E d \in Deliveries : Ingest(d) PROVE missed' = missed
      BY <2>2
      DEF Next, ClientPosts, CreateChannel, CreateUnencrypted, CreateEncrypted, CreateRow, ApiStep, SendCheck,
          SendPost, SendRecord, SendConflict, EditRead, EditCheck, EditPost, EditApply, DeleteRead, DeleteRedact,
          DeleteApply, EnableCheck, EnableApply, EnableMark, SendTxn, ResendTxn, Ack, Restart, vars,
          roomUnchanged, apiUnchanged
    <2>3. missed \subseteq 1..Len(timeline) /\ 1..Len(timeline) \subseteq 1..Len(timeline')
      BY DEF HeardInv, Grown
    <2> QED
      BY <2>1, <2>2, <2>3
  <1>3. ASSUME NEW i \in 1..Len(timeline'), Processed(i)', timeline'[i].kind = "encryption"
        PROVE  channel'.encrypted \/ i \in missed'
    <2>1. i \in 1..Len(timeline) /\ IsEncryption(i)
      BY <1>3, ProcessedStep DEF Grown, IsEncryption
    <2>2. CASE Processed(i)
      BY <1>1, <2>1, <2>2 DEF HeardInv
    <2>3. ASSUME NEW d \in Deliveries, Ingest(d), i = handler[d].next
          PROVE  channel'.encrypted \/ i \in missed'
      <3>1. Miss(i) \/ IngestEncryption(i)
        BY <2>1, <2>3
        DEF Ingest, IsEncryption, IngestText, IngestReplace, IngestRedaction, Edits
      <3> QED
        BY <3>1 DEF Miss, IngestEncryption, MarkChannelEncrypted, TypeOK, Channel
    <2> QED
      BY <1>3, <2>2, <2>3, ProcessedStep
  <1> QED
    BY <1>2, <1>3 DEF HeardInv, IsEncryption

LEMMA LockStep ==
  ASSUME TypeOK, TypeOK', QueueInv, LockInv, Grown, [Next]_vars,
         \A i \in 1..Len(timeline') : i > Len(timeline) => NewEvent(i)
  PROVE  LockInv'
  <1>0. RoomEncrypted => RoomEncrypted'
    BY RoomEncryptedStays DEF TypeOK
  <1>00. ChannelExists => ChannelExists'
    BY Monotone
  <1>1. ASSUME NEW i \in 1..Len(timeline'), timeline'[i].kind = "encrypted"
        PROVE  \E e \in 1..(i - 1) : timeline'[e].kind = "encryption"
    <2>1. CASE i \in 1..Len(timeline)
      <3>1. PICK e \in 1..(i - 1) : timeline[e].kind = "encryption"
        BY <1>1, <2>1 DEF LockInv, IsEncrypted, IsEncryption, Grown
      <3>2. e \in 1..Len(timeline)
        BY <2>1, <3>1 DEF Grown
      <3> QED
        BY <3>1, <3>2 DEF Grown
    <2>2. CASE i \notin 1..Len(timeline)
      <3>1. i > Len(timeline) /\ i \in Nat
        BY <2>2 DEF Grown
      <3>2. RoomEncrypted
        BY <1>1, <3>1 DEF NewEvent
      <3>3. PICK e \in 1..Len(timeline) : IsEncryption(e)
        BY <3>2 DEF RoomEncrypted, TypeOK
      <3>4. e \in 1..(i - 1)
        BY <3>1, <3>3 DEF Grown
      <3> QED
        BY <3>3, <3>4 DEF IsEncryption, Grown
    <2> QED
      BY <2>1, <2>2
  <1>2. ASSUME NEW u, Post("encryption", 0, u)
        PROVE  RoomEncrypted'
    <2>1. timeline' = Append(timeline, [kind |-> "encryption", target |-> 0, sender |-> u])
      BY <1>2 DEF Post
    <2>2. timeline'[Len(timeline) + 1].kind = "encryption" /\ Len(timeline') = Len(timeline) + 1
      BY <2>1 DEF TypeOK
    <2>3. DOMAIN timeline' = 1..Len(timeline') /\ Len(timeline) + 1 \in 1..Len(timeline')
      BY <2>2 DEF TypeOK, Grown
    <2> QED
      BY <2>2, <2>3 DEF RoomEncrypted, IsEncryption
  <1>3. channel'.encrypted \/ channel'.phase = "locked" => RoomEncrypted'
    <2>1. CASE UNCHANGED channel
      BY <1>0, <2>1 DEF LockInv
    <2>2. CASE CreateChannel
      <3>1. CASE CreateUnencrypted
        BY <1>0, <3>1 DEF CreateUnencrypted, LockInv, TypeOK, Channel
      <3>2. CASE CreateEncrypted
        BY <1>2, <3>2 DEF CreateEncrypted
      <3>3. CASE CreateRow
        BY <1>0, <3>3 DEF CreateRow, LockInv, TypeOK, Channel
      <3> QED
        BY <2>2, <3>1, <3>2, <3>3 DEF CreateChannel
    <2>3. ASSUME NEW r \in Requests, EnableMark(r) PROVE RoomEncrypted'
      BY <1>0, <2>3 DEF EnableMark, LockInv
    <2>4. ASSUME NEW d \in Deliveries, Ingest(d), ~UNCHANGED channel PROVE RoomEncrypted'
      <3> DEFINE i == handler[d].next
      <3>1. IsEncryption(i) /\ i \leq handler[d].last
        BY <2>4 DEF Ingest, Miss, IngestText, IngestReplace, IngestRedaction, IngestEncryption, IsEncryption
      <3>2. RoomEncrypted
        BY <3>1, TurnInRoom, <2>4 DEF RoomEncrypted, TypeOK
      <3> QED
        BY <1>0, <3>2
    <2>5. CASE Restart
      BY <1>0, <2>5 DEF Restart, LockInv, TypeOK, Channel
    <2>6. ASSUME NEW r \in Requests, ApiStep(r), ~EnableMark(r) PROVE UNCHANGED channel
      BY <2>6
      DEF ApiStep, SendCheck, SendPost, SendRecord, SendConflict, EditRead, EditCheck, EditPost, EditApply,
          DeleteRead, DeleteRedact, DeleteApply, EnableCheck, EnableApply
    <2>7. ASSUME NEW d \in Deliveries, SendTxn(d) \/ ResendTxn(d) \/ Ack(d) PROVE UNCHANGED channel
      BY <2>7 DEF SendTxn, ResendTxn, Ack
    <2>8. ASSUME ClientPosts \/ UNCHANGED vars PROVE UNCHANGED channel
      BY <2>8 DEF ClientPosts, vars
    <2> QED
      BY <2>1, <2>2, <2>3, <2>4, <2>5, <2>6, <2>7, <2>8 DEF Next
  <1>4. channel'.encrypted => ChannelExists'
    <2>1. ASSUME ~channel.encrypted, channel'.encrypted PROVE ChannelExists'
      <3>1. CASE CreateChannel
        BY <2>1, <3>1 DEF CreateChannel, CreateUnencrypted, CreateEncrypted, CreateRow, ChannelExists, TypeOK, Channel
      <3>2. ASSUME NEW r \in Requests, ApiStep(r) PROVE ChannelExists
        BY <2>1, <3>2
        DEF ApiStep, SendCheck, SendPost, SendRecord, SendConflict, EditRead, EditCheck, EditPost, EditApply,
            DeleteRead, DeleteRedact, DeleteApply, EnableCheck, EnableApply, EnableMark, LockInv
      <3>3. ASSUME NEW d \in Deliveries, SendTxn(d) \/ ResendTxn(d) \/ Ingest(d) \/ Ack(d) PROVE ChannelExists
        BY <2>1, <3>3
        DEF SendTxn, ResendTxn, Ack, Ingest, Miss, IngestText, IngestReplace, IngestRedaction, IngestEncryption
      <3>4. ~(ClientPosts \/ Restart \/ UNCHANGED vars)
        BY <2>1 DEF ClientPosts, Restart, vars, TypeOK, Channel
      <3> QED
        BY <1>00, <3>1, <3>2, <3>3, <3>4 DEF Next
    <2> QED
      BY <1>00, <2>1 DEF LockInv
  <1>5. ASSUME NEW r \in Requests
        PROVE  /\ req'[r].pc \in {"enableChecked", "enableApplied"} => ChannelExists'
               /\ req'[r].pc = "enableApplied" => RoomEncrypted'
    <2>1. CASE req'[r] = req[r] \/ req'[r].pc \notin {"enableChecked", "enableApplied"}
      BY <1>0, <1>00, <2>1 DEF LockInv
    <2>2. ASSUME NEW q \in Requests, ApiStep(q), q # r PROVE req'[r] = req[r]
      BY <2>2
      DEF TypeOK, ApiStep, SendCheck, SendPost, SendRecord, SendConflict, EditRead, EditCheck, EditPost, EditApply,
          DeleteRead, DeleteRedact, DeleteApply, EnableCheck, EnableApply, EnableMark
    <2>3. ASSUME ApiStep(r)
          PROVE  \/ req'[r].pc \notin {"enableChecked", "enableApplied"}
                 \/ \E u \in Admins : EnableCheck(r, u)
                 \/ EnableApply(r)
      <3>1. req[r] \in Request /\ r \in DOMAIN req
        BY DEF TypeOK
      <3>2. ASSUME NEW u \in Locals, NEW i \in EventIds, EditRead(r, u, i) \/ DeleteRead(r, u, i)
            PROVE  req'[r].pc \notin {"enableChecked", "enableApplied"}
        <4>1. req'[r].pc \in {"editRead", "deleteRead"}
          BY <3>1, <3>2 DEF EditRead, DeleteRead
        <4> QED
          BY <4>1
      <3>3. CASE SendPost(r)
        BY <3>1, <3>3 DEF SendPost, IdleRequest, Request
      <3>7. CASE SendRecord(r)
        <4>1. \/ req' = [req EXCEPT ![r] = IdleRequest]
              \/ req' = [req EXCEPT ![r].pc = "conflict"]
          BY <3>7 DEF SendRecord
        <4>2. req'[r].pc \in {"idle", "conflict"}
          BY <3>1, <4>1 DEF IdleRequest, Request
        <4> QED
          BY <4>2
      <3>8. CASE SendConflict(r) \/ EnableMark(r)
        BY <3>1, <3>8 DEF SendConflict, EnableMark, IdleRequest
      <3>4. CASE EditCheck(r) \/ EditPost(r) \/ EditApply(r)
        BY <3>1, <3>4 DEF EditCheck, EditPost, EditApply, IdleRequest, Request
      <3>5. CASE DeleteRedact(r) \/ DeleteApply(r)
        BY <3>1, <3>5 DEF DeleteRedact, DeleteApply, IdleRequest, Request
      <3>6. ASSUME NEW u \in Locals, SendCheck(r, u)
            PROVE  req'[r].pc \notin {"enableChecked", "enableApplied"}
        BY <3>1, <3>6 DEF SendCheck, IdleRequest
      <3> QED
        BY <2>3, <3>2, <3>3, <3>4, <3>5, <3>6, <3>7, <3>8 DEF ApiStep
    <2>4. ASSUME NEW u \in Admins, EnableCheck(r, u) PROVE ChannelExists /\ req'[r].pc = "enableChecked"
      BY <2>4 DEF EnableCheck, TypeOK, Request, IdleRequest
    <2>5. ASSUME EnableApply(r), req'[r].pc \in {"enableChecked", "enableApplied"}
          PROVE  ChannelExists /\ RoomEncrypted'
      BY <1>2, <2>5 DEF EnableApply, LockInv, TypeOK, Request, IdleRequest
    <2>6. ASSUME ~\E q \in Requests : ApiStep(q)
          PROVE  req'[r] = req[r] \/ req'[r] = IdleRequest
      BY <2>6
      DEF Next, ClientPosts, CreateChannel, CreateUnencrypted, CreateEncrypted, CreateRow, SendTxn, ResendTxn,
          Ingest, Ack, Restart, vars
    <2> QED
      BY <1>00, <2>1, <2>2, <2>3, <2>4, <2>5, <2>6 DEF IdleRequest
  <1> QED
    BY <1>1, <1>3, <1>4, <1>5 DEF LockInv, IsEncrypted, IsEncryption

-----------------------------------------------------------------------------
(* What one step can do to one row. *)
RowChange(i) ==
  \/ rows'[i] = rows[i]
  \/ rows'[i] = NoRow /\ i \in gone'
  \/ /\ ~HasRow(i) /\ rows'[i] # NoRow
     /\ i \in 1..Len(timeline) /\ IsMessage(i)
     /\ rows'[i].encrypted <=> IsEncrypted(i)
     /\ IsEncrypted(i) => rows'[i].content = Blind
     /\ IsEncrypted(i) /\ EncryptionHeard => channel.encrypted
  \/ /\ HasRow(i) /\ rows'[i] # NoRow
     /\ rows'[i].encrypted = rows[i].encrypted
     /\ EncryptionHeard => ~IsEncrypted(i)

LEMMA InsertChange ==
  ASSUME TypeOK, NEW i \in EventIds, NEW b \in BOOLEAN, NEW c \in Content, InsertRow(i, b, c)
  PROVE  /\ \A j \in EventIds : j # i => rows'[j] = rows[j]
         /\ rows'[i] # NoRow /\ rows'[i].encrypted = b /\ rows'[i].content = c
  <1>1. rows'[i] = [id |-> inserts[i] + 1, encrypted |-> b, content |-> c]
    BY DEF InsertRow, TypeOK
  <1>2. rows'[i].id = inserts[i] + 1 /\ inserts[i] \in Nat
    BY <1>1 DEF TypeOK
  <1>3. rows'[i] # NoRow
    BY <1>2 DEF NoRow
  <1>4. \A j \in EventIds : j # i => rows'[j] = rows[j]
    BY DEF InsertRow, TypeOK
  <1> QED
    BY <1>1, <1>3, <1>4

LEMMA UpdateChange ==
  ASSUME TypeOK, NEW i \in EventIds, NEW c \in Content \ {Blind}, rows' = [rows EXCEPT ![i].content = c]
  PROVE  /\ \A j \in EventIds : j # i => rows'[j] = rows[j]
         /\ rows'[i] # NoRow /\ rows'[i].encrypted = rows[i].encrypted
  <1>1. rows'[i] = [rows[i] EXCEPT !.content = c] /\ rows[i] \in Row
    BY DEF TypeOK
  <1>2. rows'[i].content = c /\ rows'[i].encrypted = rows[i].encrypted
    BY <1>1 DEF Row
  <1>3. rows'[i] # NoRow
    BY <1>2 DEF NoRow
  <1>4. \A j \in EventIds : j # i => rows'[j] = rows[j]
    BY DEF TypeOK
  <1> QED
    BY <1>2, <1>3, <1>4

LEMMA RowStep ==
  ASSUME TypeOK, QueueInv, LockInv, HeardInv, RowsInv, RequestsInv, TargetsInv, [Next]_vars,
         NEW i \in EventIds
  PROVE  RowChange(i)
  <1>1. CASE UNCHANGED rows
    BY <1>1 DEF RowChange
  <1>2. ASSUME NEW r \in Requests, SendRecord(r), ~UNCHANGED rows PROVE RowChange(i)
    <2> DEFINE e == req[r].ev
    <2>1. ~HasRow(e) /\ InsertRow(e, FALSE, e) /\ req[r].pc = "sendPosted"
      BY <1>2 DEF SendRecord
    <2>2. e \in EventIds /\ e \in Content
      BY <2>1, RequestEvents, Numbers
    <2>3. e \in 1..Len(timeline) /\ timeline[e].kind = "text"
      BY <2>1 DEF RequestsInv, Posted
    <2> HIDE DEF e
    <2>4. /\ \A j \in EventIds : j # e => rows'[j] = rows[j]
          /\ rows'[e] # NoRow /\ rows'[e].encrypted = FALSE
      BY <2>1, <2>2, InsertChange
    <2> QED
      BY <2>1, <2>3, <2>4 DEF RowChange, IsMessage, IsEncrypted
  <1>3. ASSUME NEW r \in Requests, EditApply(r), ~UNCHANGED rows PROVE RowChange(i)
    <2> DEFINE e == req[r].ev
    <2>1. HasRow(e) /\ rows' = [rows EXCEPT ![e].content = req[r].content] /\ req[r].pc = "editPosted"
      BY <1>3 DEF EditApply
    <2>2. e \in EventIds /\ req[r].content \in Content \ {Blind} /\ (EncryptionHeard => ~IsEncrypted(e))
      BY <2>1, RequestEvents, RequestFacts DEF TypeOK, Request, RequestsInv
    <2>3. /\ \A j \in EventIds : j # e => rows'[j] = rows[j]
          /\ rows'[e] # NoRow /\ rows'[e].encrypted = rows[e].encrypted
      BY <2>1, <2>2, UpdateChange
    <2> QED
      BY <2>1, <2>2, <2>3 DEF RowChange
  <1>4. ASSUME NEW r \in Requests, DeleteApply(r), ~UNCHANGED rows PROVE RowChange(i)
    <2>1. rows' = [rows EXCEPT ![req[r].ev] = NoRow] /\ gone' = gone \union {req[r].ev}
      BY <1>4 DEF DeleteApply
    <2> QED
      BY <2>1 DEF RowChange, TypeOK
  <1>5. ASSUME NEW d \in Deliveries, Ingest(d), ~UNCHANGED rows PROVE RowChange(i)
    <2> DEFINE e == handler[d].next
    <2>1. e \in 1..Len(timeline) /\ e \in EventIds /\ e \in Content /\ Serving(d)
      BY <1>5, TurnInRoom, Numbers
    <2>2. e # Blind
      BY <2>1 DEF Blind, EventIds
    <2>3. IngestText(e) \/ IngestReplace(e) \/ IngestRedaction(e)
      BY <1>5 DEF Ingest, Miss, IngestEncryption
    <2>4. CASE IngestText(e)
      <3>1. ~HasRow(e) /\ IsMessage(e)
        BY <1>5, <2>4 DEF IngestText, Miss, IsMessage
      <3>2. InsertRow(e, IsEncrypted(e), IF IsEncrypted(e) THEN Blind ELSE e)
        BY <1>5, <2>4 DEF IngestText, Miss, IsEncrypted, InsertRow
      <3>3. IsEncrypted(e) \in BOOLEAN
        BY DEF IsEncrypted
      <3>4. /\ \A j \in EventIds : j # e => rows'[j] = rows[j]
            /\ rows'[e] # NoRow /\ rows'[e].encrypted = IsEncrypted(e)
            /\ IsEncrypted(e) => rows'[e].content = Blind
        BY <2>1, <3>2, <3>3, InsertChange, Numbers
      <3>5. ASSUME IsEncrypted(e), EncryptionHeard PROVE channel.encrypted
        <4>1. PICK k \in 1..(e - 1) : IsEncryption(k)
          BY <2>1, <3>5 DEF LockInv
        <4>2. k \in 1..Len(timeline) /\ Processed(k)
          BY <2>1, <4>1 DEF Processed, TypeOK
        <4> QED
          BY <3>5, <4>1, <4>2 DEF HeardInv, EncryptionHeard
      <3> QED
        BY <2>1, <3>1, <3>4, <3>5 DEF RowChange
    <2>5. CASE IngestReplace(e)
      <3> DEFINE t == timeline[e].target
      <3>1. HasRow(t) /\ rows' = [rows EXCEPT ![t].content = e] /\ timeline[e].kind \in Edits
        BY <1>5, <2>5 DEF IngestReplace
      <3>2. t \in 1..Len(timeline) /\ (EncryptionHeard => ~IsEncrypted(t))
        BY <2>1, <3>1 DEF TargetsInv, Posted
      <3>3. t \in EventIds
        BY <3>2, BoundsAssumption DEF TypeOK, EventIds
      <3> HIDE DEF t, e
      <3>4. /\ \A j \in EventIds : j # t => rows'[j] = rows[j]
            /\ rows'[t] # NoRow /\ rows'[t].encrypted = rows[t].encrypted
        BY <2>1, <2>2, <3>1, <3>3, UpdateChange
      <3> QED
        BY <3>1, <3>2, <3>4 DEF RowChange
    <2>6. CASE IngestRedaction(e)
      <3>1. rows' = [rows EXCEPT ![timeline[e].target] = NoRow] /\ gone' = gone \union {timeline[e].target}
        BY <1>5, <2>6 DEF IngestRedaction
      <3> QED
        BY <3>1 DEF RowChange, TypeOK
    <2> QED
      BY <2>3, <2>4, <2>5, <2>6
  <1>6. ASSUME NEW r \in Requests, ApiStep(r), ~(SendRecord(r) \/ EditApply(r) \/ DeleteApply(r))
        PROVE  UNCHANGED rows
    BY <1>6
    DEF ApiStep, SendCheck, SendPost, SendConflict, EditRead, EditCheck, EditPost, DeleteRead, DeleteRedact,
        EnableCheck, EnableApply, EnableMark
  <1>7. ASSUME NEW d \in Deliveries, SendTxn(d) \/ ResendTxn(d) \/ Ack(d) PROVE UNCHANGED rows
    BY <1>7 DEF SendTxn, ResendTxn, Ack
  <1>8. ASSUME ClientPosts \/ CreateChannel \/ Restart \/ UNCHANGED vars PROVE UNCHANGED rows
    BY <1>8 DEF ClientPosts, CreateChannel, CreateUnencrypted, CreateEncrypted, CreateRow, Restart, vars
  <1> QED
    BY <1>1, <1>2, <1>3, <1>4, <1>5, <1>6, <1>7, <1>8 DEF Next

(* Rows stay rows of messages, blind where the ciphertext was. *)
LEMMA RowsStep ==
  ASSUME TypeOK, QueueInv, LockInv, HeardInv, RowsInv, RequestsInv, TargetsInv, Grown, [Next]_vars
  PROVE  RowsInv'
  <1>1. /\ missed \subseteq missed' /\ (channel.encrypted => channel'.encrypted)
        /\ EncryptionHeard' => EncryptionHeard
    BY Monotone, HeardMonotone DEF HeardInv
  <1>2. ASSUME NEW i \in EventIds, rows'[i] # NoRow
        PROVE  /\ i \in 1..Len(timeline')
               /\ timeline'[i].kind \in {"text", "encrypted"}
               /\ rows'[i].encrypted <=> timeline'[i].kind = "encrypted"
               /\ EncryptionHeard' /\ timeline'[i].kind = "encrypted" =>
                    channel'.encrypted /\ rows'[i].content = Blind
    <2>1. RowChange(i)
      BY RowStep
    <2>2. i \in 1..Len(timeline)
      BY <1>2, <2>1 DEF RowChange, RowsInv, HasRow, Posted
    <2>3. i \in 1..Len(timeline') /\ timeline'[i] = timeline[i]
      BY <2>2 DEF Grown
    <2> QED
      BY <1>1, <1>2, <2>1, <2>2, <2>3 DEF RowChange, RowsInv, HasRow, Posted, IsMessage, IsEncrypted
  <1> QED
    BY <1>2 DEF RowsInv, HasRow, Posted, IsMessage, IsEncrypted

(* A handler's turn on a message leaves its row, or a trace of its absence. *)
LEMMA TurnLeavesTrace ==
  ASSUME TypeOK, QueueInv, NEW d \in Deliveries, Ingest(d), IsMessage(handler[d].next)
  PROVE  rows'[handler[d].next] # NoRow \/ handler[d].next \in missed'
  <1> DEFINE i == handler[d].next
  <1>1. i \in EventIds /\ i \in Content /\ Blind \in Content
    BY TurnInRoom, Numbers
  <1>2. Miss(i) \/ IngestText(i)
    BY DEF Ingest, IsMessage, IngestReplace, IngestRedaction, IngestEncryption, Edits
  <1> HIDE DEF i
  <1>3. ASSUME Miss(i) PROVE i \in missed'
    BY <1>3 DEF Miss
  <1>4. ASSUME IngestText(i), ~Miss(i) PROVE rows'[i] # NoRow
    <2>1. CASE HasRow(i) /\ rows' = rows
      BY <2>1 DEF HasRow
    <2>2. ASSUME NEW b \in BOOLEAN, NEW c \in Content, InsertRow(i, b, c) PROVE rows'[i] # NoRow
      BY <1>1, <2>2, InsertChange
    <2> QED
      BY <1>1, <1>4, <2>1, <2>2 DEF IngestText
  <1> QED
    BY <1>2, <1>3, <1>4 DEF i

LEMMA LossStep ==
  ASSUME TypeOK, QueueInv, LockInv, HeardInv, RowsInv, RequestsInv, TargetsInv, LossInv, Grown, [Next]_vars
  PROVE  LossInv'
  <1>1. missed \subseteq missed' /\ gone \subseteq gone'
    BY Monotone
  <1>2. ASSUME NEW i \in 1..Len(timeline'), Processed(i)', timeline'[i].kind \in {"text", "encrypted"}
        PROVE  rows'[i] # NoRow \/ i \in gone' \/ i \in missed'
    <2>1. i \in 1..Len(timeline) /\ IsMessage(i)
      BY <1>2, ProcessedStep DEF Grown, IsMessage
    <2>2. i \in EventIds
      BY <2>1, BoundsAssumption DEF TypeOK, EventIds
    <2>3. CASE Processed(i)
      <3>1. HasRow(i) \/ i \in gone \/ i \in missed
        BY <2>1, <2>3 DEF LossInv
      <3>2. RowChange(i)
        BY <2>2, RowStep
      <3> QED
        BY <1>1, <3>1, <3>2 DEF RowChange, HasRow
    <2>4. ASSUME NEW d \in Deliveries, Ingest(d), i = handler[d].next
          PROVE  rows'[i] # NoRow \/ i \in missed'
      BY <2>1, <2>4, TurnLeavesTrace DEF HasRow
    <2> QED
      BY <1>2, <2>3, <2>4, ProcessedStep
  <1> QED
    BY <1>2 DEF LossInv, IsMessage, HasRow

LEMMA TargetsStep ==
  ASSUME TypeOK, HeardInv, TargetsInv, missed \subseteq missed', Grown,
         \A i \in 1..Len(timeline') : i > Len(timeline) => NewEvent(i)
  PROVE  TargetsInv'
  <1>1. EncryptionHeard' => EncryptionHeard
    BY HeardMonotone DEF HeardInv
  <1>2. ASSUME NEW i \in 1..Len(timeline')
        PROVE  /\ timeline'[i].kind \in Edits \union {"redaction"} => timeline'[i].target \in 1..Len(timeline)
               /\ timeline'[i].kind \in Edits /\ EncryptionHeard =>
                    timeline[timeline'[i].target].kind # "encrypted"
    <2>1. CASE i \in 1..Len(timeline)
      BY <2>1 DEF TargetsInv, Grown, Posted, IsEncrypted
    <2>2. CASE i > Len(timeline)
      BY <2>2 DEF NewEvent, IsEncrypted
    <2> QED
      BY <2>1, <2>2 DEF Grown
  <1>3. ASSUME NEW t \in 1..Len(timeline) PROVE t \in 1..Len(timeline') /\ timeline'[t] = timeline[t]
    BY DEF Grown
  <1> QED
    BY <1>1, <1>2, <1>3 DEF TargetsInv, Posted, IsEncrypted

-----------------------------------------------------------------------------
(* What the next state must grant a request whose record is q. *)
Knows(q) ==
  /\ q.pc \in {"sendPosted", "conflict"} => q.ev \in 1..Len(timeline') /\ timeline'[q.ev].kind = "text"
  /\ q.pc \in {"editRead", "editChecked", "editPosted", "deleteRead", "deleteRedacted"} =>
       q.ev \in 1..Len(timeline') /\ timeline'[q.ev].kind \in {"text", "encrypted"}
  /\ EncryptionHeard' /\ q.pc \in {"editRead", "editChecked", "editPosted"} =>
       timeline'[q.ev].kind # "encrypted" \/ (q.pc = "editRead" /\ channel'.encrypted)
  /\ q.pc = "editPosted" => q.content # Blind

LEMMA RequestsStep ==
  ASSUME TypeOK, QueueInv, LockInv, HeardInv, RowsInv, RequestsInv, Grown, [Next]_vars
  PROVE  RequestsInv'
  <1>1. /\ channel.encrypted => channel'.encrypted
        /\ EncryptionHeard' => EncryptionHeard
    BY Monotone, HeardMonotone DEF HeardInv
  <1>2. \A i \in 1..Len(timeline) : i \in 1..Len(timeline') /\ timeline'[i] = timeline[i]
    BY DEF Grown
  <1>3. \A r \in Requests : Knows(req[r])
    BY <1>1, <1>2 DEF Knows, RequestsInv, Posted, IsMessage, IsEncrypted
  <1>4. Knows(IdleRequest)
    BY DEF Knows, IdleRequest
  <1>5. ASSUME NEW r \in Requests, ApiStep(r) PROVE \E q : req' = [req EXCEPT ![r] = q] /\ Knows(q)
    <2>1. req[r] \in Request /\ req \in [Requests -> Request]
      BY DEF TypeOK
    <2>3. CASE req' = [req EXCEPT ![r] = IdleRequest]
      BY <1>4, <2>3
    <2>4. ASSUME NEW s \in {"sendChecked", "enableChecked", "enableApplied"}, NEW u \in Locals,
                 req' = [req EXCEPT ![r] = [IdleRequest EXCEPT !.pc = s, !.user = u]]
          PROVE  \E q : req' = [req EXCEPT ![r] = q] /\ Knows(q)
      <3>1. Knows([IdleRequest EXCEPT !.pc = s, !.user = u])
        BY DEF Knows, IdleRequest
      <3> QED
        BY <2>4, <3>1
    <2>5. CASE SendPost(r)
      <3>1. ASSUME Post("text", 0, req[r].user), req' = [req EXCEPT ![r].pc = "sendPosted", ![r].ev = NextEvent]
            PROVE  \E q : req' = [req EXCEPT ![r] = q] /\ Knows(q)
        <4> DEFINE q == [req[r] EXCEPT !.pc = "sendPosted", !.ev = NextEvent]
        <4>1. NextEvent \in 1..Len(timeline') /\ timeline'[NextEvent].kind = "text"
          <5>1. "text" \in Kinds /\ 0 \in 0..MaxEvents /\ req[r].user \in Users
            BY RequestFacts, BoundsAssumption DEF Kinds, Edits
          <5>2. /\ timeline'[NextEvent] = [kind |-> "text", target |-> 0, sender |-> req[r].user]
                /\ NextEvent = Len(timeline) + 1 /\ Len(timeline') = Len(timeline) + 1
            BY <3>1, <5>1, PostAppends
          <5> QED
            BY <5>2 DEF Grown
        <4>2. q.pc = "sendPosted" /\ q.ev = NextEvent
          BY <2>1 DEF Request
        <4>3. req' = [req EXCEPT ![r] = q]
          BY <2>1, <3>1
        <4> HIDE DEF q
        <4>4. Knows(q)
          BY <4>1, <4>2 DEF Knows
        <4> QED
          BY <4>3, <4>4
      <3> QED
        BY <2>3, <2>5, <3>1 DEF SendPost
    <2>6. ASSUME NEW s \in Steps, req' = [req EXCEPT ![r].pc = s],
                 \/ req[r].pc = "sendPosted" /\ s = "conflict"
                 \/ req[r].pc = "editRead" /\ s = "editChecked" /\ ~channel.encrypted
                 \/ req[r].pc = "deleteRead" /\ s = "deleteRedacted"
                 \/ s = "enableApplied"
          PROVE  \E q : req' = [req EXCEPT ![r] = q] /\ Knows(q)
      <3> DEFINE q == [req[r] EXCEPT !.pc = s]
      <3>1. q.pc = s /\ q.ev = req[r].ev /\ q.content = req[r].content
        BY <2>1 DEF Request
      <3>2. req' = [req EXCEPT ![r] = q]
        BY <2>1, <2>6
      <3>3. Knows(req[r])
        BY <1>3
      <3> HIDE DEF q
      <3>4. EncryptionHeard' /\ s = "editChecked" => timeline'[req[r].ev].kind # "encrypted"
        BY <1>1, <1>2, <2>6 DEF RequestsInv, IsEncrypted, Posted
      <3>5. Knows(q)
        BY <2>6, <3>1, <3>3, <3>4 DEF Knows
      <3> QED
        BY <3>2, <3>5
    <2>7. ASSUME NEW c \in Content \ {Blind}, req[r].pc = "editChecked",
                 req' = [req EXCEPT ![r].pc = "editPosted", ![r].content = c]
          PROVE  \E q : req' = [req EXCEPT ![r] = q] /\ Knows(q)
      <3> DEFINE q == [req[r] EXCEPT !.pc = "editPosted", !.content = c]
      <3>1. q.pc = "editPosted" /\ q.ev = req[r].ev /\ q.content = c
        BY <2>1 DEF Request
      <3>2. req' = [req EXCEPT ![r] = q]
        BY <2>1, <2>7
      <3>3. Knows(req[r])
        BY <1>3
      <3> HIDE DEF q
      <3>5. Knows(q)
        BY <2>7, <3>1, <3>3 DEF Knows
      <3> QED
        BY <3>2, <3>5
    <2>8. ASSUME NEW u \in Locals, NEW i \in EventIds, HasRow(i), NEW s \in {"editRead", "deleteRead"}, NEW n,
                 req' = [req EXCEPT ![r] = [pc |-> s, user |-> u, ev |-> i, id |-> n, content |-> Blind]]
          PROVE  \E q : req' = [req EXCEPT ![r] = q] /\ Knows(q)
      <3>1. /\ i \in 1..Len(timeline) /\ IsMessage(i)
            /\ EncryptionHeard /\ IsEncrypted(i) => channel.encrypted
        BY <2>8 DEF RowsInv, Posted
      <3>2. Knows([pc |-> s, user |-> u, ev |-> i, id |-> n, content |-> Blind])
        BY <1>1, <1>2, <3>1 DEF Knows, IsMessage, IsEncrypted
      <3> QED
        BY <2>8, <3>2
    <2>9. NextEvent \in EventIds => NextEvent \in Content \ {Blind}
      BY Numbers DEF EventIds, Blind
    <2>10. Local \in Content \ {Blind}
      BY Numbers, BoundsAssumption DEF Local, Blind
    <2>11. ASSUME NEW u \in Locals, SendCheck(r, u) PROVE \E q : req' = [req EXCEPT ![r] = q] /\ Knows(q)
      BY <2>4, <2>11 DEF SendCheck
    <2>12. ASSUME NEW u \in Admins, EnableCheck(r, u) PROVE \E q : req' = [req EXCEPT ![r] = q] /\ Knows(q)
      BY <2>4, <2>12, UsersAssumption DEF EnableCheck
    <2>13. CASE SendRecord(r) \/ SendConflict(r)
      BY <2>3, <2>6, <2>13 DEF SendRecord, SendConflict, Steps
    <2>14. CASE EditCheck(r)
      BY <2>3, <2>6, <2>14 DEF EditCheck, Steps
    <2>15. CASE EditPost(r)
      BY <2>7, <2>9, <2>10, <2>15 DEF EditPost, Post
    <2>16. CASE EditApply(r) \/ DeleteApply(r) \/ EnableMark(r)
      BY <2>3, <2>16 DEF EditApply, DeleteApply, EnableMark
    <2>17. CASE DeleteRedact(r)
      BY <2>6, <2>17 DEF DeleteRedact, Steps
    <2>18. CASE EnableApply(r)
      BY <2>3, <2>6, <2>18 DEF EnableApply, Steps
    <2>19. ASSUME NEW u \in Locals, NEW i \in EventIds, EditRead(r, u, i) \/ DeleteRead(r, u, i)
           PROVE  \E q : req' = [req EXCEPT ![r] = q] /\ Knows(q)
      BY <2>8, <2>19 DEF EditRead, DeleteRead
    <2> QED
      BY <1>5, <2>5, <2>11, <2>12, <2>13, <2>14, <2>15, <2>16, <2>17, <2>18, <2>19 DEF ApiStep
  <1>6. ASSUME ~\E q \in Requests : ApiStep(q)
        PROVE  req' = req \/ req' = [r \in Requests |-> IdleRequest]
    BY <1>6
    DEF Next, ClientPosts, CreateChannel, CreateUnencrypted, CreateEncrypted, CreateRow, SendTxn, ResendTxn,
        Ingest, Ack, Restart, vars
  <1>7. ASSUME NEW r \in Requests PROVE Knows(req'[r])
    BY <1>3, <1>4, <1>5, <1>6, <1>7 DEF TypeOK
  <1> QED
    BY <1>7 DEF Knows, RequestsInv, Posted, IsMessage, IsEncrypted

-----------------------------------------------------------------------------
(* Whose words a row shows *)

(* Event j has words of the author of event i, or a client posted them. *)
SameAuthor(j, i) ==
  Posted(j) /\ (timeline[j].kind = "replace" \/ timeline[j].sender = timeline[i].sender)

(* A row shows its author's words or a client's, an edit of the API in the room is the     *)
(* author's, and a request to edit is the author's, with the event it has posted.          *)
WordsInv ==
  /\ \A i \in EventIds : HasRow(i) /\ rows[i].content \in EventIds => SameAuthor(rows[i].content, i)
  /\ \A j \in 1..Len(timeline) :
       timeline[j].kind = "edit" => timeline[timeline[j].target].sender = timeline[j].sender
  /\ \A r \in Requests :
       /\ req[r].pc \in {"editRead", "editChecked", "editPosted"} => timeline[req[r].ev].sender = req[r].user
       /\ req[r].pc = "editPosted" /\ req[r].content \in EventIds =>
            Posted(req[r].content) /\ timeline[req[r].content].sender = req[r].user

(* The author of an edit is the author of what it edits. *)
EditsOwn(i) ==
  timeline'[i].kind = "edit" =>
    /\ timeline'[i].target \in 1..Len(timeline)
    /\ timeline[timeline'[i].target].sender = timeline'[i].sender

LEMMA PostEditsOwn ==
  ASSUME TypeOK, NEW k \in Kinds, NEW t \in 0..MaxEvents, NEW u \in Users, Post(k, t, u),
         k = "edit" => t \in 1..Len(timeline) /\ timeline[t].sender = u
  PROVE  \A i \in 1..Len(timeline') : i > Len(timeline) => EditsOwn(i)
  <1>1. /\ Len(timeline) \in Nat /\ Len(timeline') = Len(timeline) + 1
        /\ timeline'[Len(timeline) + 1] = [kind |-> k, target |-> t, sender |-> u]
    BY PostAppends, LenProperties DEF TypeOK
  <1> SUFFICES ASSUME NEW i \in 1..Len(timeline'), i > Len(timeline) PROVE EditsOwn(i)
    OBVIOUS
  <1>2. i = Len(timeline) + 1
    BY <1>1
  <1>3. timeline'[i].kind = k /\ timeline'[i].target = t /\ timeline'[i].sender = u
    BY <1>1, <1>2
  <1> QED
    BY <1>3 DEF EditsOwn

LEMMA NewEditsOwn ==
  ASSUME TypeOK, RequestsInv, WordsInv, [Next]_vars
  PROVE  \A i \in 1..Len(timeline') : i > Len(timeline) => EditsOwn(i)
  <1> DEFINE Goal == \A i \in 1..Len(timeline') : i > Len(timeline) => EditsOwn(i)
  <1>0. CASE UNCHANGED timeline
    <2>1. Len(timeline) \in Nat
      BY LenProperties DEF TypeOK
    <2> QED
      BY <1>0, <2>1
  <1>1. CASE ClientPosts
    <2>1. PICK k \in Kinds, t \in 0..MaxEvents, u \in Users :
            Post(k, t, u) /\ k # "edit"
      <3>1. DOMAIN timeline = 1..Len(timeline) /\ \A i \in DOMAIN timeline : i \in 0..MaxEvents
        BY BoundsAssumption DEF TypeOK
      <3> QED
        BY <1>1, <3>1, BoundsAssumption DEF ClientPosts, Kinds, Edits
    <2> QED
      BY <2>1, PostEditsOwn
  <1>2. ASSUME CreateChannel, ~UNCHANGED timeline PROVE Goal
    <2>1. PICK u \in Users : Post("encryption", 0, u)
      BY <1>2, UsersAssumption DEF CreateChannel, CreateUnencrypted, CreateEncrypted, CreateRow
    <2>2. "encryption" \in Kinds /\ 0 \in 0..MaxEvents
      BY BoundsAssumption DEF Kinds, Edits
    <2> QED
      BY <2>1, <2>2, PostEditsOwn
  <1>3. ASSUME NEW r \in Requests, ApiStep(r), ~UNCHANGED timeline PROVE Goal
    <2>0. {"text", "edit", "redaction", "encryption"} \subseteq Kinds /\ 0 \in 0..MaxEvents
      BY BoundsAssumption DEF Kinds, Edits
    <2>1. CASE Post("text", 0, req[r].user) \/ Post("encryption", 0, req[r].user)
      BY <2>0, <2>1, RequestFacts, PostEditsOwn
    <2>2. CASE EditPost(r) /\ Post("edit", req[r].ev, req[r].user)
      <3>1. req[r].ev \in 1..Len(timeline) /\ timeline[req[r].ev].sender = req[r].user
        BY <2>2, RequestFacts DEF EditPost, WordsInv
      <3> QED
        BY <2>0, <2>2, <3>1, RequestFacts, PostEditsOwn
    <2>3. CASE DeleteRedact(r) /\ Post("redaction", req[r].ev, req[r].user)
      BY <2>0, <2>3, RequestFacts, PostEditsOwn
    <2> QED
      BY <1>3, <2>1, <2>2, <2>3
      DEF ApiStep, roomUnchanged, SendCheck, SendPost, SendRecord, SendConflict, EditRead, EditCheck,
          EditPost, EditApply, DeleteRead, DeleteRedact, DeleteApply, EnableCheck, EnableApply, EnableMark
  <1>4. ASSUME NEW d \in Deliveries, SendTxn(d) \/ ResendTxn(d) \/ Ingest(d) \/ Ack(d)
        PROVE  UNCHANGED timeline
    BY <1>4 DEF SendTxn, ResendTxn, Ingest, Ack, roomUnchanged
  <1>5. ASSUME Restart \/ UNCHANGED vars PROVE UNCHANGED timeline
    BY <1>5 DEF Restart, roomUnchanged, vars
  <1> QED
    BY <1>0, <1>1, <1>2, <1>3, <1>4, <1>5 DEF Next

(* A row that is written is written the words of its author. *)
Written(i) ==
  rows'[i] = rows[i] \/ (rows'[i] # NoRow /\ rows'[i].content \in EventIds => SameAuthor(rows'[i].content, i))

LEMMA RowsWritten ==
  ASSUME TypeOK, QueueInv, RequestsInv, WordsInv, [Next]_vars, NEW i \in EventIds
  PROVE  Written(i)
  <1>1. CASE UNCHANGED rows
    BY <1>1 DEF Written
  <1>2. ASSUME NEW r \in Requests, SendRecord(r), ~UNCHANGED rows PROVE Written(i)
    <2>1. /\ InsertRow(req[r].ev, FALSE, req[r].ev) /\ req[r].pc = "sendPosted"
          /\ req[r].ev \in EventIds /\ req[r].ev \in Content
      BY <1>2, RequestEvents, Numbers DEF SendRecord
    <2>2. Posted(req[r].ev)
      BY <2>1 DEF RequestsInv
    <2>3. rows'[i] = rows[i] \/ (i = req[r].ev /\ rows'[i].content = i)
      BY <2>1, InsertChange
    <2> QED
      BY <2>2, <2>3 DEF Written, SameAuthor
  <1>3. ASSUME NEW r \in Requests, EditApply(r), ~UNCHANGED rows PROVE Written(i)
    <2>1. /\ rows' = [rows EXCEPT ![req[r].ev].content = req[r].content]
          /\ req[r].pc = "editPosted"
      BY <1>3 DEF EditApply
    <2>2. rows'[i] = rows[i] \/ (i = req[r].ev /\ rows'[i] = [rows[i] EXCEPT !.content = req[r].content])
      BY <2>1 DEF TypeOK
    <2>3. rows[i] \in Row
      BY DEF TypeOK
    <2>4. rows'[i] = rows[i] \/ (i = req[r].ev /\ rows'[i].content = req[r].content)
      BY <2>2, <2>3 DEF Row
    <2> QED
      BY <2>1, <2>4 DEF Written, WordsInv, SameAuthor
  <1>4. ASSUME NEW r \in Requests, DeleteApply(r), ~UNCHANGED rows PROVE Written(i)
    BY <1>4 DEF DeleteApply, Written, TypeOK
  <1>5. ASSUME NEW d \in Deliveries, Ingest(d), ~UNCHANGED rows PROVE Written(i)
    <2> PICK e : e = handler[d].next
      OBVIOUS
    <2>1. e \in 1..Len(timeline) /\ e \in EventIds /\ e \in Content /\ Blind \notin EventIds
      BY <1>5, TurnInRoom, Numbers DEF Blind, EventIds
    <2>2. IngestText(e) \/ IngestReplace(e) \/ IngestRedaction(e)
      BY <1>5 DEF Ingest, Miss, IngestEncryption
    <2>3. CASE IngestText(e)
      <3>1. PICK b \in BOOLEAN, c \in {Blind, e} : InsertRow(e, b, c)
        BY <1>5, <2>3 DEF IngestText, Miss
      <3>2. c \in Content
        BY <2>1, Numbers
      <3>3. /\ \A j \in EventIds : j # e => rows'[j] = rows[j]
            /\ rows'[e].content = c
        BY <2>1, <3>1, <3>2, InsertChange
      <3>4. rows'[i] = rows[i] \/ (i = e /\ rows'[i].content \in {Blind, e})
        BY <3>3
      <3> QED
        BY <2>1, <3>4 DEF Written, SameAuthor, Posted
    <2>4. CASE IngestReplace(e)
      <3>1. /\ rows' = [rows EXCEPT ![timeline[e].target].content = e] /\ timeline[e].kind \in Edits
            /\ rows[i] \in Row
        BY <1>5, <2>4 DEF IngestReplace, TypeOK
      <3>2. rows'[i] = rows[i] \/ (i = timeline[e].target /\ rows'[i] = [rows[i] EXCEPT !.content = e])
        BY <3>1 DEF TypeOK
      <3>3. rows'[i] = rows[i] \/ (i = timeline[e].target /\ rows'[i].content = e)
        BY <3>1, <3>2 DEF Row
      <3> QED
        BY <2>1, <3>1, <3>3 DEF Written, WordsInv, SameAuthor, Posted, Edits
    <2>5. CASE IngestRedaction(e)
      BY <1>5, <2>5 DEF IngestRedaction, Written, TypeOK
    <2> QED
      BY <2>2, <2>3, <2>4, <2>5
  <1>6. ASSUME NEW r \in Requests, ApiStep(r), ~(SendRecord(r) \/ EditApply(r) \/ DeleteApply(r))
        PROVE  UNCHANGED rows
    BY <1>6
    DEF ApiStep, SendCheck, SendPost, SendConflict, EditRead, EditCheck, EditPost, DeleteRead, DeleteRedact,
        EnableCheck, EnableApply, EnableMark
  <1>7. ASSUME NEW d \in Deliveries, SendTxn(d) \/ ResendTxn(d) \/ Ack(d) PROVE UNCHANGED rows
    BY <1>7 DEF SendTxn, ResendTxn, Ack
  <1>8. ASSUME ClientPosts \/ CreateChannel \/ Restart \/ UNCHANGED vars PROVE UNCHANGED rows
    BY <1>8 DEF ClientPosts, CreateChannel, CreateUnencrypted, CreateEncrypted, CreateRow, Restart, vars
  <1> QED
    BY <1>1, <1>2, <1>3, <1>4, <1>5, <1>6, <1>7, <1>8 DEF Next

(* What the next state must grant a request to edit whose record is q. *)
Authors(q) ==
  q.pc \in {"editRead", "editChecked", "editPosted"} =>
    /\ q.ev \in 1..Len(timeline') /\ timeline'[q.ev].sender = q.user
    /\ q.pc = "editPosted" /\ q.content \in EventIds =>
         q.content \in 1..Len(timeline') /\ timeline'[q.content].sender = q.user

LEMMA AuthorsStep ==
  ASSUME TypeOK, RowsInv, RequestsInv, WordsInv, Grown, [Next]_vars, NEW r \in Requests
  PROVE  Authors(req'[r])
  <1>1. \A i \in 1..Len(timeline) : i \in 1..Len(timeline') /\ timeline'[i] = timeline[i]
    BY DEF Grown
  <1>2. Authors(req[r])
    BY <1>1 DEF Authors, WordsInv, RequestsInv, Posted, SameAuthor
  <1>3. req[r] \in Request /\ req \in [Requests -> Request]
    BY DEF TypeOK
  <1>4. CASE req'[r] = req[r] \/ req'[r].pc \notin {"editRead", "editChecked", "editPosted"}
    BY <1>2, <1>4 DEF Authors
  <1>5. ASSUME NEW u \in Locals, NEW i \in EventIds, EditRead(r, u, i)
        PROVE  Authors(req'[r])
    <2>1. req'[r] = [pc |-> "editRead", user |-> u, ev |-> i, id |-> rows[i].id, content |-> Blind]
      BY <1>3, <1>5 DEF EditRead
    <2>2. i \in 1..Len(timeline) /\ timeline[i].sender = u
      BY <1>5 DEF EditRead, RowsInv, Posted
    <2> QED
      BY <1>1, <2>1, <2>2 DEF Authors
  <1>6. ASSUME EditCheck(r), req'[r] # IdleRequest PROVE Authors(req'[r])
    <2>1. req'[r] = [req[r] EXCEPT !.pc = "editChecked"] /\ req[r].pc = "editRead"
      BY <1>3, <1>6 DEF EditCheck
    <2>2. req'[r].pc = "editChecked" /\ req'[r].ev = req[r].ev /\ req'[r].user = req[r].user
      BY <1>3, <2>1 DEF Request
    <2> QED
      BY <1>2, <2>1, <2>2 DEF Authors
  <1>7. CASE EditPost(r)
    <2>1. PICK c : /\ req' = [req EXCEPT ![r].pc = "editPosted", ![r].content = c]
                   /\ \/ Post("edit", req[r].ev, req[r].user) /\ c = NextEvent
                      \/ c = Local
      BY <1>7 DEF EditPost
    <2>2. req'[r] = [req[r] EXCEPT !.pc = "editPosted", !.content = c]
      BY <1>3, <2>1
    <2>3. /\ req'[r].pc = "editPosted" /\ req'[r].ev = req[r].ev /\ req'[r].user = req[r].user
          /\ req'[r].content = c
      BY <1>3, <2>2 DEF Request
    <2>4. c \in EventIds => c \in 1..Len(timeline') /\ timeline'[c].sender = req[r].user
      <3>1. CASE c = Local
        BY <3>1, BoundsAssumption DEF Local, EventIds
      <3>2. CASE Post("edit", req[r].ev, req[r].user) /\ c = NextEvent
        <4>1. "edit" \in Kinds /\ req[r].ev \in 0..MaxEvents /\ req[r].user \in Users
          BY RequestFacts DEF Kinds, Edits
        <4>2. /\ timeline'[c] = [kind |-> "edit", target |-> req[r].ev, sender |-> req[r].user]
              /\ c = Len(timeline) + 1 /\ Len(timeline') = Len(timeline) + 1
          BY <3>2, <4>1, PostAppends
        <4> QED
          BY <4>2 DEF Grown
      <3> QED
        BY <2>1, <3>1, <3>2
    <2>5. req[r].pc = "editChecked"
      BY <1>7 DEF EditPost
    <2> QED
      BY <1>2, <2>3, <2>4, <2>5 DEF Authors
  <1>8. ASSUME ApiStep(r), req'[r].pc \in {"editRead", "editChecked", "editPosted"}
        PROVE  \/ EditPost(r)
               \/ EditCheck(r) /\ req'[r] # IdleRequest
               \/ \E u \in Locals, i \in EventIds : EditRead(r, u, i)
    <2>1. CASE \E u \in Locals : SendCheck(r, u)
      BY <1>3, <1>8, <2>1 DEF SendCheck, Request
    <2>2. CASE SendPost(r)
      BY <1>3, <1>8, <2>2 DEF SendPost, IdleRequest, Request
    <2>3. CASE SendRecord(r) \/ SendConflict(r)
      <3>1. req'[r] = [req[r] EXCEPT !.pc = "conflict"] \/ req'[r] = IdleRequest
        BY <1>3, <2>3 DEF SendRecord, SendConflict
      <3>2. req'[r].pc = "conflict" \/ req'[r].pc = "idle"
        BY <1>3, <3>1 DEF IdleRequest, Request
      <3> QED
        BY <1>8, <3>2
    <2>4. CASE EditApply(r)
      BY <1>3, <1>8, <2>4 DEF EditApply, IdleRequest
    <2>5. CASE \E u \in Locals, i \in EventIds : DeleteRead(r, u, i)
      BY <1>3, <1>8, <2>5 DEF DeleteRead, Request
    <2>7. CASE DeleteRedact(r) \/ DeleteApply(r)
      BY <1>3, <1>8, <2>7 DEF DeleteRedact, DeleteApply, IdleRequest, Request
    <2>8. CASE \E u \in Admins : EnableCheck(r, u)
      <3>1. PICK u : req'[r] = [IdleRequest EXCEPT !.pc = "enableChecked", !.user = u]
        BY <1>3, <2>8 DEF EnableCheck
      <3>2. req'[r].pc = "enableChecked"
        BY <3>1 DEF IdleRequest
      <3> QED
        BY <1>8, <3>2
    <2>9. CASE EnableApply(r)
      <3>1. \/ req'[r] = [req[r] EXCEPT !.pc = "enableApplied"]
            \/ req'[r] = IdleRequest
        BY <1>3, <2>9 DEF EnableApply
      <3>2. req'[r].pc = "enableApplied" \/ req'[r].pc = "idle"
        BY <1>3, <3>1 DEF IdleRequest, Request
      <3> QED
        BY <1>8, <3>2
    <2>10. CASE EnableMark(r)
      BY <1>3, <1>8, <2>10 DEF EnableMark, IdleRequest
    <2>6. CASE EditCheck(r)
      BY <1>3, <1>8, <2>6 DEF EditCheck, IdleRequest
    <2> QED
      BY <1>8, <2>1, <2>2, <2>3, <2>4, <2>5, <2>6, <2>7, <2>8, <2>9, <2>10 DEF ApiStep
  <1>9. ASSUME NEW q \in Requests, ApiStep(q), q # r PROVE req'[r] = req[r]
    BY <1>3, <1>9
    DEF ApiStep, SendCheck, SendPost, SendRecord, SendConflict, EditRead, EditCheck, EditPost, EditApply,
        DeleteRead, DeleteRedact, DeleteApply, EnableCheck, EnableApply, EnableMark
  <1>10. ASSUME ~\E q \in Requests : ApiStep(q)
         PROVE  req' = req \/ req' = [q \in Requests |-> IdleRequest]
    BY <1>10
    DEF Next, ClientPosts, CreateChannel, CreateUnencrypted, CreateEncrypted, CreateRow, SendTxn, ResendTxn,
        Ingest, Ack, Restart, vars
  <1>11. IdleRequest.pc = "idle"
    BY DEF IdleRequest
  <1> QED
    BY <1>4, <1>5, <1>6, <1>7, <1>8, <1>9, <1>10, <1>11

LEMMA WordsStep ==
  ASSUME IndInv, WordsInv, [Next]_vars
  PROVE  WordsInv'
  <1> USE DEF IndInv
  <1>1. Grown
    BY TimelineGrows
  <1>2. \A i \in 1..Len(timeline) : i \in 1..Len(timeline') /\ timeline'[i] = timeline[i]
    BY <1>1 DEF Grown
  <1>3. ASSUME NEW i \in EventIds, rows'[i] # NoRow, rows'[i].content \in EventIds
        PROVE  /\ rows'[i].content \in 1..Len(timeline')
               /\ \/ timeline'[rows'[i].content].kind = "replace"
                  \/ timeline'[rows'[i].content].sender = timeline'[i].sender
    <2>1. RowChange(i) /\ Written(i)
      BY RowStep, RowsWritten
    <2>2. i \in 1..Len(timeline)
      BY <1>3, <2>1 DEF RowChange, RowsInv, HasRow, Posted
    <2>3. SameAuthor(rows'[i].content, i)
      BY <1>3, <2>1 DEF Written, WordsInv, HasRow
    <2> QED
      BY <1>2, <2>2, <2>3 DEF SameAuthor, Posted
  <1>4. ASSUME NEW j \in 1..Len(timeline'), timeline'[j].kind = "edit"
        PROVE  timeline'[timeline'[j].target].sender = timeline'[j].sender
    <2>1. /\ timeline'[j].target \in 1..Len(timeline)
          /\ timeline[timeline'[j].target].sender = timeline'[j].sender
      <3>1. CASE j \in 1..Len(timeline)
        BY <1>2, <1>4, <3>1 DEF WordsInv, TargetsInv, Posted, Edits
      <3>2. CASE j > Len(timeline)
        BY <1>4, <3>2, NewEditsOwn DEF EditsOwn
      <3> QED
        BY <1>1, <3>1, <3>2 DEF Grown
    <2> QED
      BY <1>2, <2>1
  <1>5. \A r \in Requests : Authors(req'[r])
    BY <1>1, AuthorsStep
  <1> QED
    BY <1>3, <1>4, <1>5 DEF WordsInv, Authors, HasRow, SameAuthor, Posted

-----------------------------------------------------------------------------
(* The theorems *)

(* The initial state satisfies the inductive invariant. *)
LEMMA InitInd == Init => IndInv
  <1> SUFFICES ASSUME Init PROVE IndInv
    OBVIOUS
  <1>1. TypeOK
    BY InitType
  <1>2. Len(timeline) = 0 /\ 1..Len(timeline) = {}
    BY DEF Init
  <1>3. QueueInv
    BY <1>2, IdleTypes DEF Init, QueueInv, Serving, IdleHandler
  <1>4. LockInv /\ HeardInv /\ TargetsInv /\ LossInv
    BY <1>2 DEF Init, LockInv, HeardInv, TargetsInv, LossInv, IdleRequest
  <1>5. RowsInv
    BY DEF Init, RowsInv, HasRow
  <1>6. RequestsInv
    BY DEF Init, RequestsInv, IdleRequest
  <1> QED
    BY <1>1, <1>3, <1>4, <1>5, <1>6 DEF IndInv

(* Every step keeps it. *)
LEMMA NextInd == IndInv /\ [Next]_vars => IndInv'
  <1> SUFFICES ASSUME IndInv, [Next]_vars PROVE IndInv'
    OBVIOUS
  <1> USE DEF IndInv
  <1>1. Grown /\ \A i \in 1..Len(timeline') : i > Len(timeline) => NewEvent(i)
    BY TimelineGrows
  <1>2. TypeOK'
    BY NextType
  <1>3. missed \subseteq missed'
    BY Monotone
  <1>4. QueueInv'
    BY <1>1, QueueStep
  <1>5. LockInv'
    BY <1>1, <1>2, LockStep
  <1>6. HeardInv' /\ RowsInv' /\ RequestsInv' /\ LossInv'
    BY <1>1, HeardStep, RowsStep, RequestsStep, LossStep
  <1>7. TargetsInv'
    BY <1>1, <1>3, TargetsStep
  <1> QED
    BY <1>2, <1>4, <1>5, <1>6, <1>7

(* The inductive invariant holds in every reachable state: it ties together    *)
(* the queue's bookkeeping, the flag, the rows and what requests in flight     *)
(* remember of them.                                                           *)
THEOREM IndInvHolds == Spec => []IndInv
  BY InitInd, NextInd, PTL DEF Spec

(* Every variable keeps its type, whatever interleaves. *)
THEOREM TypesHold == Spec => []TypeOK
  <1>1. IndInv => TypeOK
    BY DEF IndInv
  <1> QED
    BY <1>1, IndInvHolds, PTL

(* The flag of the channels table never says encrypted over a room that is not, *)
(* whichever of channel creation, enableEncryption and the push set it.         *)
THEOREM HonestLockHolds == Spec => []HonestLock
  <1>1. IndInv => HonestLock
    BY DEF IndInv, LockInv, HonestLock
  <1> QED
    BY <1>1, IndInvHolds, PTL

(* The index never holds words of an encrypted message, as long as the push of *)
(* the room's encryption was heard.                                            *)
THEOREM ContentBlindHolds == Spec => []ContentBlind
  <1>1. IndInv => ContentBlind
    <2> SUFFICES ASSUME IndInv, EncryptionHeard, NEW i \in EventIds, rows[i].encrypted
                 PROVE  rows[i].content = Blind
      BY DEF ContentBlind
    <2>1. HasRow(i)
      BY DEF HasRow, NoRow
    <2> QED
      BY <2>1 DEF IndInv, RowsInv
  <1> QED
    BY <1>1, IndInvHolds, PTL

(* No message the homeserver was told to forget is missing from the index      *)
(* without a trace.                                                            *)
THEOREM NoSilentLossHolds == Spec => []NoSilentLoss
  <1>1. IndInv => NoSilentLoss
    <2> SUFFICES ASSUME IndInv, NEW i \in 1..acked, timeline[i].kind \in {"text", "encrypted"}
                 PROVE  HasRow(i) \/ i \in gone \/ i \in missed
      BY DEF NoSilentLoss
    <2>1. i \in 1..Len(timeline) /\ Processed(i)
      BY DEF IndInv, QueueInv, TypeOK, Processed
    <2> QED
      BY <2>1 DEF IndInv, LossInv, IsMessage
  <1> QED
    BY <1>1, IndInvHolds, PTL

(* The API puts nobody else's words in a member's mouth: a row shows what its own author *)
(* wrote, in the message or in an edit, or what a client posted over it, whoever lands   *)
(* first of the API and the push (messages.send, messages.edit and ingestEvent).        *)
THEOREM EditsByAuthorHolds == Spec => []EditsByAuthor
  <1>1. Init => WordsInv
    BY DEF Init, WordsInv, HasRow, IdleRequest
  <1>2. IndInv /\ WordsInv /\ [Next]_vars => WordsInv'
    BY WordsStep
  <1>3. WordsInv => EditsByAuthor
    BY DEF WordsInv, EditsByAuthor, SameAuthor
  <1> QED
    BY <1>1, <1>2, <1>3, IndInvHolds, PTL DEF Spec

(* An encryption event the homeserver was told to forget has raised the flag, or was     *)
(* passed over: what a handler has passed stays heard however often its transaction is    *)
(* sent again, and the flag once up stays up (ingestTransaction, markChannelEncrypted). *)
THEOREM EncryptionNotLostHolds == Spec => []EncryptionNotLost
  <1>1. IndInv => EncryptionNotLost
    <2> SUFFICES ASSUME IndInv, NEW i \in 1..acked, IsEncryption(i)
                 PROVE  channel.encrypted \/ i \in missed
      BY DEF EncryptionNotLost
    <2>1. i \in 1..Len(timeline) /\ Processed(i)
      BY DEF IndInv, QueueInv, TypeOK, Processed
    <2> QED
      BY <2>1 DEF IndInv, HeardInv
  <1> QED
    BY <1>1, IndInvHolds, PTL

-------------------------------------------------------------------------------
(* FileShares *)

(* A request that has put the bytes in the node for a row, or removed the row and not   *)
(* yet the bytes.                                                                *)
Holding(r, f) == transfer[r].cid = f /\ transfer[r].pc \in {"share", "count", "unpin"}

(* While the node was given the bytes once, they belong to one row or to one request;   *)
(* until the row is removed they are pinned.                                        *)
OneHolder(f) ==
  uploads[f] <= 1 =>
    /\ \A r, q \in Transfers : Holding(r, f) /\ Holding(q, f) => r = q
    /\ \A s, t \in Files!SharesOf(f) : s = t
    /\ Files!SharesOf(f) # {} => \A r \in Transfers : ~Holding(r, f)
    /\ uploads[f] = 0 => Files!SharesOf(f) = {} /\ \A r \in Transfers : ~Holding(r, f)
    /\ Files!SharesOf(f) # {} => f \in pinned
    /\ \A r \in Transfers : transfer[r].cid = f /\ transfer[r].pc = "share" => f \in pinned

(* What a request is about; a download's entitlements are among the channels it has yet *)
(* to try, and end with the membership.                                            *)
TransferIsRight(q) ==
  /\ q \in Files!Request
  /\ q.pc # "idle" => q.user \in People /\ q.cid \in Cids
  /\ q.pc \in {"add", "share"} => q.channel \in Channels
  /\ q.pc = "check" => q.entitled \subseteq q.left /\ \A c \in q.entitled : q.user \in members[c]
  /\ q.pc = "refused" => q.entitled = {}

FilesInv ==
  /\ Files!TypeOK
  /\ \A r \in Transfers : TransferIsRight(transfer[r])
  /\ \A f \in Cids : OneHolder(f)

LEMMA SharesBound == MaxShares \in Nat
  BY FilesAssumption DEF Files!MaxSharesAssumption

LEMMA FilesBegin == Files!Init => FilesInv
  <1> SUFFICES ASSUME Files!Init PROVE FilesInv
    OBVIOUS
  <1>1. TransferIsRight(Files!Idle)
    BY DEF TransferIsRight, Files!Idle, Files!Request, Files!Steps, Files!Unset
  <1>2. Files!TypeOK
    BY <1>1, SharesBound DEF Files!Init, Files!TypeOK, TransferIsRight
  <1>3. \A f \in Cids : OneHolder(f)
    BY SharesBound DEF OneHolder, Holding, Files!SharesOf, Files!Init, Files!Idle
  <1> QED
    BY <1>1, <1>2, <1>3 DEF FilesInv, Files!Init

(* The rest is about one request, and needs only what changes of the others.       *)
(* Whatever adds nobody who holds the bytes leaves them with whom they were. *)
LEMMA HoldersStay ==
  ASSUME FilesInv, UNCHANGED <<shares, uploads, pinned>>,
         \A q \in Transfers : transfer'[q].pc \in {"share", "count", "unpin"} =>
            transfer'[q].cid = transfer[q].cid /\ transfer'[q].pc = transfer[q].pc
  PROVE  \A f \in Cids : OneHolder(f)'
  <1> SUFFICES ASSUME NEW f \in Cids PROVE OneHolder(f)'
    OBVIOUS
  <1>1. Files!SharesOf(f)' = Files!SharesOf(f)
    BY DEF Files!SharesOf
  <1>2. \A q \in Transfers : Holding(q, f)' => Holding(q, f) /\ transfer'[q].pc = transfer[q].pc
    BY DEF Holding
  <1>3. OneHolder(f)
    BY DEF FilesInv
  <1> QED
    BY <1>1, <1>2, <1>3 DEF OneHolder, Holding

LEMMA UploadStep ==
  ASSUME FilesInv, NEW r \in Transfers, NEW u \in People, NEW c \in Channels, NEW f \in Cids,
         Files!Upload(r, u, c, f)
  PROVE  FilesInv'
  <1> USE DEF FilesInv
  <1>1. \A q \in Transfers : TransferIsRight(transfer[q])'
    BY DEF TransferIsRight, Files!Upload, Files!Idle, Files!Request, Files!Steps, Files!Unset, Files!TypeOK
  <1>2. Files!TypeOK'
    BY <1>1 DEF TransferIsRight, Files!Upload, Files!TypeOK
  <1>3. \A g \in Cids : OneHolder(g)'
    BY DEF OneHolder, Holding, Files!SharesOf, Files!Upload, Files!Idle, Files!TypeOK
  <1> QED
    BY <1>1, <1>2, <1>3

LEMMA AddFileStep ==
  ASSUME FilesInv, NEW r \in Transfers, Files!AddFile(r)
  PROVE  FilesInv'
  <1> USE DEF FilesInv
  <1>1. \A q \in Transfers : TransferIsRight(transfer[q])'
    BY DEF TransferIsRight, Files!AddFile, Files!Goto, Files!Request, Files!Steps, Files!TypeOK
  <1>2. Files!TypeOK'
    BY <1>1, SharesBound DEF TransferIsRight, Files!AddFile, Files!Goto, Files!TypeOK
  <1>3. \A g \in Cids : OneHolder(g)'
    BY SharesBound DEF OneHolder, Holding, Files!SharesOf, Files!AddFile, Files!Goto, Files!TypeOK, TransferIsRight
  <1> QED
    BY <1>1, <1>2, <1>3

LEMMA CreateShareStep ==
  ASSUME FilesInv, NEW r \in Transfers, Files!CreateFileShare(r)
  PROVE  FilesInv'
  <1> USE DEF FilesInv
  <1>1. \A q \in Transfers : TransferIsRight(transfer[q])'
    BY DEF TransferIsRight, Files!CreateFileShare, Files!End, Files!Idle, Files!Request, Files!Steps, Files!Unset, Files!TypeOK
  <1>2. Files!TypeOK'
    BY <1>1, SharesBound DEF TransferIsRight, Files!CreateFileShare, Files!End, Files!TypeOK, Files!Share, Files!Ids
  <1>3. \A g \in Cids : OneHolder(g)'
    BY SharesBound DEF OneHolder, Holding, Files!SharesOf, Files!CreateFileShare, Files!End, Files!Idle, Files!TypeOK
  <1> QED
    BY <1>1, <1>2, <1>3

LEMMA DeleteShareStep ==
  ASSUME FilesInv, NEW r \in Transfers, NEW u \in People, NEW s \in shares,
         Files!DeleteOwnFileShare(r, u, s)
  PROVE  FilesInv'
  <1> USE DEF FilesInv
  <1>0. s.cid \in Cids
    BY DEF Files!TypeOK, Files!Share
  <1> DEFINE mine == [Files!Idle EXCEPT !.pc = "count", !.user = u, !.cid = s.cid]
  <1>5. mine \in Files!Request /\ mine.pc = "count" /\ mine.user = u /\ mine.cid = s.cid
    BY <1>0 DEF Files!Idle, Files!Request, Files!Steps, Files!Unset
  <1>4. /\ transfer' = [q \in Transfers |-> transfer'[q]] /\ transfer'[r] = mine
        /\ \A q \in Transfers \ {r} :
             \/ transfer'[q] = transfer[q]
             \/ transfer'[q] = [transfer[q] EXCEPT !.entitled = @ \ {s.channel}]
    <2>2. CASE s.channel \in {t.channel : t \in Files!SharesOf(s.cid) \ {s}}
      <3>1. transfer' = [transfer EXCEPT ![r] = mine]
        BY <2>2 DEF Files!DeleteOwnFileShare
      <3> QED
        BY <3>1 DEF Files!TypeOK
    <2>3. CASE s.channel \notin {t.channel : t \in Files!SharesOf(s.cid) \ {s}}
      <3>1. transfer' = [Files!Withdraw(s.channel, s.cid) EXCEPT ![r] = mine]
        BY <2>3 DEF Files!DeleteOwnFileShare
      <3> QED
        BY <3>1 DEF Files!Withdraw, Files!TypeOK
    <2> QED
      BY <2>2, <2>3
  <1> HIDE DEF mine
  <1>1. \A q \in Transfers : TransferIsRight(transfer[q])'
    <2>1. TransferIsRight(transfer[r])'
      BY <1>0, <1>4, <1>5 DEF TransferIsRight
    <2>2. ASSUME NEW q \in Transfers \ {r} PROVE TransferIsRight(transfer[q])'
      <3>1. members' = members
        BY DEF Files!DeleteOwnFileShare
      <3> QED
        BY <1>4, <3>1 DEF TransferIsRight, Files!Request
    <2> QED
      BY <2>1, <2>2
  <1>2. Files!TypeOK'
    BY <1>1 DEF TransferIsRight, Files!DeleteOwnFileShare, Files!Withdraw, Files!TypeOK
  <1>3. \A g \in Cids : OneHolder(g)'
    <2>1. /\ shares' = shares \ {s} /\ uploads' = uploads /\ pinned' = pinned
          /\ \A q \in Transfers \ {r} : transfer'[q].pc = transfer[q].pc /\ transfer'[q].cid = transfer[q].cid
      BY <1>4 DEF Files!DeleteOwnFileShare, TransferIsRight, Files!Request
    <2> SUFFICES ASSUME NEW g \in Cids PROVE OneHolder(g)'
      OBVIOUS
    <2>2. CASE g # s.cid
      <3>1. Files!SharesOf(g)' = Files!SharesOf(g) /\ ~Holding(r, g)'
        BY <1>4, <1>5, <2>1, <2>2 DEF Files!SharesOf, Holding
      <3>2. \A q \in Transfers : Holding(q, g)' => Holding(q, g) /\ transfer'[q].pc = transfer[q].pc
        BY <2>1, <3>1 DEF Holding
      <3> QED
        BY <2>1, <3>1, <3>2 DEF OneHolder, Holding
    <2>3. CASE g = s.cid
      <3>1. Files!SharesOf(g)' = Files!SharesOf(g) \ {s} /\ s \in Files!SharesOf(g)
        BY <2>1, <2>3 DEF Files!SharesOf
      <3>2. \A q \in Transfers \ {r} : Holding(q, g)' <=> Holding(q, g)
        BY <2>1 DEF Holding
      <3>3. transfer'[r].pc = "count"
        BY <1>4, <1>5
      <3> QED
        BY <2>1, <3>1, <3>2, <3>3 DEF OneHolder, Holding
    <2> QED
      BY <2>2, <2>3
  <1> QED
    BY <1>1, <1>2, <1>3

LEMMA CountStep ==
  ASSUME FilesInv, NEW r \in Transfers, Files!CidStillShared(r) \/ Files!UnpinFile(r)
  PROVE  FilesInv'
  <1> USE DEF FilesInv
  <1>1. \A q \in Transfers : TransferIsRight(transfer[q])'
    BY DEF TransferIsRight, Files!CidStillShared, Files!UnpinFile, Files!End, Files!Goto, Files!Idle, Files!Request, Files!Steps, Files!Unset, Files!TypeOK
  <1>2. Files!TypeOK'
    BY <1>1 DEF TransferIsRight, Files!CidStillShared, Files!UnpinFile, Files!End, Files!Goto, Files!TypeOK
  <1>3. \A g \in Cids : OneHolder(g)'
    <2>1. CASE Files!CidStillShared(r) /\ Files!SharesOf(transfer[r].cid) # {}
      BY <2>1, HoldersStay DEF Files!CidStillShared, Files!End, Files!Idle, Files!TypeOK
    <2>2. CASE Files!CidStillShared(r) /\ Files!SharesOf(transfer[r].cid) = {}
      BY <2>2 DEF OneHolder, Holding, Files!SharesOf, Files!CidStillShared, Files!Goto, Files!TypeOK,
                  TransferIsRight, Files!Request
    <2>3. CASE Files!UnpinFile(r)
      BY <2>3 DEF OneHolder, Holding, Files!SharesOf, Files!UnpinFile, Files!End, Files!Idle, Files!TypeOK
    <2> QED
      BY <2>1, <2>2, <2>3
  <1> QED
    BY <1>1, <1>2, <1>3

LEMMA DownloadStep ==
  ASSUME FilesInv, NEW r \in Transfers,
         \/ \E u \in People, f \in Cids : Files!GetFileSharesByCid(r, u, f)
         \/ \E c \in Channels : Files!TryShare(r, c)
         \/ Files!Refuse(r) \/ Files!Answer(r)
  PROVE  FilesInv'
  <1> USE DEF FilesInv
  <1>1. \A q \in Transfers : TransferIsRight(transfer[q])'
    <2>1. CASE \E u \in People, f \in Cids : Files!GetFileSharesByCid(r, u, f)
      <3>1. PICK u \in People, f \in Cids : Files!GetFileSharesByCid(r, u, f)
        BY <2>1
      <3>2. Files!ChannelsOf(f) \subseteq Channels
        BY DEF Files!ChannelsOf, Files!SharesOf, Files!Share, Files!TypeOK
      <3> DEFINE here == {c \in Files!ChannelsOf(f) : u \in members[c]}
      <3> DEFINE mine == [Files!Idle EXCEPT !.pc = "check", !.user = u, !.cid = f,
                            !.left = Files!ChannelsOf(f), !.entitled = here]
      <3>3. transfer' = [transfer EXCEPT ![r] = mine]
        BY <3>1 DEF Files!GetFileSharesByCid
      <3>6. /\ mine.pc = "check" /\ mine.user = u /\ mine.cid = f
            /\ mine.left = Files!ChannelsOf(f) /\ mine.entitled = here
        BY DEF Files!Idle
      <3>7. mine \in Files!Request
        BY <3>2 DEF Files!Idle, Files!Request, Files!Steps, Files!Unset
      <3>4. members' = members
        BY <3>1 DEF Files!GetFileSharesByCid
      <3> HIDE DEF here, mine
      <3>5. here \subseteq Files!ChannelsOf(f) /\ \A c \in here : u \in members[c]
        BY DEF here
      <3> QED
        BY <3>3, <3>4, <3>5, <3>6, <3>7 DEF TransferIsRight, Files!TypeOK
    <2>2. CASE \E c \in Channels : Files!TryShare(r, c)
      BY <2>2 DEF TransferIsRight, Files!TryShare, Files!Goto, Files!Request, Files!Steps, Files!TypeOK
    <2>3. CASE Files!Refuse(r) \/ Files!Answer(r)
      BY <2>3 DEF TransferIsRight, Files!Refuse, Files!Answer, Files!End, Files!Goto, Files!Idle, Files!Request, Files!Steps, Files!Unset, Files!TypeOK
    <2> QED
      BY <2>1, <2>2, <2>3
  <1>2. Files!TypeOK'
    BY <1>1 DEF TransferIsRight, Files!GetFileSharesByCid, Files!TryShare, Files!Refuse, Files!Answer, Files!End, Files!Goto, Files!TypeOK
  <1>3. \A g \in Cids : OneHolder(g)'
    <2>1. UNCHANGED <<shares, uploads, pinned>>
      BY DEF Files!GetFileSharesByCid, Files!TryShare, Files!Refuse, Files!Answer
    <2>2. \A q \in Transfers : transfer'[q].pc \in {"share", "count", "unpin"} => transfer'[q] = transfer[q]
      <3>1. \E p \in Files!Request : /\ transfer' = [transfer EXCEPT ![r] = p]
                                     /\ p.pc \notin {"share", "count", "unpin"}
        <4>1. transfer'[r] \in Files!Request /\ transfer'[r].pc \notin {"share", "count", "unpin"}
          <5>1. transfer'[r] \in Files!Request
            BY <1>1 DEF TransferIsRight
          <5>3. CASE \E u \in People, f \in Cids : Files!GetFileSharesByCid(r, u, f)
            BY <5>1, <5>3 DEF Files!GetFileSharesByCid, Files!Idle, Files!TypeOK
          <5>4. CASE \E c \in Channels : Files!TryShare(r, c)
            <6>1. PICK c \in Channels : Files!TryShare(r, c)
              BY <5>4
            <6>2. transfer[r] \in Files!Request
              BY DEF Files!TypeOK
            <6> QED
              BY <5>1, <6>1, <6>2 DEF Files!TryShare, Files!Goto, Files!TypeOK, Files!Request
          <5>5. CASE Files!Refuse(r)
            BY <5>1, <5>5 DEF Files!Refuse, Files!Goto, Files!TypeOK, Files!Request
          <5>6. CASE Files!Answer(r)
            BY <5>1, <5>6 DEF Files!Answer, Files!End, Files!Idle, Files!TypeOK
          <5> QED
            BY <5>1, <5>3, <5>4, <5>5, <5>6
        <4>2. transfer' = [transfer EXCEPT ![r] = transfer'[r]]
          BY DEF Files!GetFileSharesByCid, Files!TryShare, Files!Refuse,
                 Files!Answer, Files!End, Files!Goto, Files!TypeOK
        <4> QED
          BY <4>1, <4>2
      <3> QED
        BY <3>1 DEF Files!TypeOK
    <2> QED
      BY <2>1, <2>2, HoldersStay
  <1> QED
    BY <1>1, <1>2, <1>3

LEMMA PeopleStep ==
  ASSUME FilesInv, NEW c \in Channels, NEW u \in People, Files!Enter(c, u) \/ Files!Depart(c, u)
  PROVE  FilesInv'
  <1> USE DEF FilesInv
  <1>1. \A q \in Transfers : TransferIsRight(transfer[q])'
    BY DEF TransferIsRight, Files!Enter, Files!Depart, Files!Request, Files!TypeOK
  <1>2. Files!TypeOK'
    BY <1>1 DEF TransferIsRight, Files!Enter, Files!Depart, Files!TypeOK
  <1>3. \A g \in Cids : OneHolder(g)'
    BY HoldersStay DEF Files!Enter, Files!Depart, Files!TypeOK, TransferIsRight, Files!Request
  <1> QED
    BY <1>1, <1>2, <1>3

LEMMA FilesStep == FilesInv /\ [Files!Next]_fileVars => FilesInv'
  <1> SUFFICES ASSUME FilesInv, [Files!Next]_fileVars PROVE FilesInv'
    OBVIOUS
  <1>1. CASE \E r \in Transfers : Files!Step(r)
    BY <1>1, UploadStep, AddFileStep, CreateShareStep, DeleteShareStep, CountStep, DownloadStep
       DEF Files!Step
  <1>2. CASE \E c \in Channels, u \in People : Files!Enter(c, u) \/ Files!Depart(c, u)
    BY <1>2, PeopleStep
  <1>3. CASE Files!CollectGarbage \/ UNCHANGED fileVars
    BY <1>3 DEF FilesInv, Files!CollectGarbage, fileVars, Files!TypeOK, TransferIsRight, OneHolder,
       Holding, Files!SharesOf
  <1> QED
    BY <1>1, <1>2, <1>3 DEF Files!Next

LEMMA FilesPart == ChannelSpec => [](part = "files" => FilesInv)
  <1>1. ChannelInit => (part = "files" => FilesInv)
    BY FilesBegin DEF ChannelInit
  <1>2. (part = "files" => FilesInv) /\ [ChannelNext]_<<part, vars, fileVars, emojiVars>>
          => (part = "files" => FilesInv)'
    BY FilesStep DEF ChannelNext
  <1> QED
    BY <1>1, <1>2, PTL DEF ChannelSpec

(* Bytes the node was given once are neither lost nor unpinned while the row of their share   *)
(* is there, whatever is uploaded, removed and downloaded meanwhile: shares.delete removes   *)
(* the row before it counts the rest and unpins.                                      *)
THEOREM FreshBytesKeptHolds == ChannelSpec => []FreshBytesKept
  <1>1. (part = "files" => FilesInv) => FreshBytesKept
    BY DEF FilesInv, OneHolder, FreshBytesKept, Files!FreshBytesKept
  <1> QED
    BY <1>1, FilesPart, PTL

(* A member to whom the share was visible from the start of a download to its end is not    *)
(* refused it (shares.download reads the row, then the membership).                      *)
THEOREM RefusedWereNotEntitledHolds == ChannelSpec => []RefusedWereNotEntitled
  <1>1. (part = "files" => FilesInv) => RefusedWereNotEntitled
    BY DEF FilesInv, TransferIsRight, RefusedWereNotEntitled, Files!RefusedWereNotEntitled
  <1> QED
    BY <1>1, FilesPart, PTL

-------------------------------------------------------------------------------
(* Reactions *)

Map == [Emojis -> SUBSET People]
Toggle == [at : {"reacting", "read", "tell", "done"}, user : People, emoji : Emojis,
           raced : BOOLEAN, existing : Map, current : Map]

(* Whether the room knows of a reaction, will be told of it, or a fault prevented it. *)
Told(e, u) ==
  \/ <<e, u>> \in room \union silent
  \/ \E q \in Transfers : toggle[q].at = "tell" /\ toggle[q].emoji = e /\ toggle[q].user = u

(* Every map that a call has read was told of; what the toggle has read is what is stored *)
(* unless another was written since.                                              *)
CallIsRight(p) ==
  p # Emoji!Idle =>
    /\ p \in Toggle
    /\ \A e \in Emojis : \A u \in p.existing[e] \union p.current[e] : Told(e, u)
    /\ p.at = "read" /\ p.raced = FALSE /\ exists = TRUE => p.current = reactions

ReactionsInv ==
  /\ Emoji!TypeOK
  /\ toggle = [q \in Transfers |-> toggle[q]]
  /\ \A q \in Transfers : CallIsRight(toggle[q])
  /\ Emoji!ReactionsStand
  /\ \A e \in Emojis : \A u \in reactions[e] : Told(e, u)

LEMMA ToggleBounds == MaxToggles \in Nat /\ MaxFaults \in Nat
  BY EmojiAssumption DEF Emoji!ReactionsAssumption

LEMMA NoReactionsType == Emoji!NoReactions \in Map /\ \A e \in Emojis : Emoji!NoReactions[e] = {}
  BY DEF Emoji!NoReactions, Map

LEMMA ReactionsBegin == Init /\ Emoji!Init => ReactionsInv
  BY ToggleBounds DEF Init, Emoji!Init, ReactionsInv, Emoji!TypeOK, CallIsRight,
     Emoji!ReactionsStand, Emoji!NoReactions

LEMMA IdleIsIdle == Emoji!Idle.at = "idle" /\ Emoji!Idle \notin Toggle
  BY DEF Emoji!Idle, Toggle

(* Who knows of a reaction knows of it after a step that ends only calls that are not    *)
(* about to tell the room, or does so for them.                                     *)
LEMMA ToldStays ==
  ASSUME room \subseteq room', silent \subseteq silent',
         \A q \in Transfers : toggle[q].at = "tell" =>
            toggle'[q] = toggle[q] \/ <<toggle[q].emoji, toggle[q].user>> \in room' \union silent'
  PROVE  \A e, u : Told(e, u) => Told(e, u)'
  BY DEF Told

LEMMA ReactStep ==
  ASSUME ReactionsInv, NEW q \in Transfers, NEW u \in People, NEW e \in Emojis, Emoji!React(q, u, e)
  PROVE  ReactionsInv'
  <1> USE DEF ReactionsInv
  <1> DEFINE new == [at |-> "reacting", user |-> u, emoji |-> e, raced |-> FALSE,
                     existing |-> reactions, current |-> Emoji!NoReactions]
  <1>1. /\ toggle[q].at = "idle" /\ toggle' = [toggle EXCEPT ![q] = new]
        /\ UNCHANGED <<exists, reactions, room, meant, doubt, silent, faults>>
        /\ toggles' \in 0 .. MaxToggles
    BY ToggleBounds DEF Emoji!React, Emoji!TypeOK
  <1>2. new \in Toggle /\ new.at = "reacting" /\ new.existing = reactions /\ \A f \in Emojis : new.current[f] = {}
    BY NoReactionsType DEF Toggle, Map, Emoji!TypeOK
  <1> HIDE DEF new
  <1>3. \A f, v : Told(f, v) => Told(f, v)'
    BY <1>1, ToldStays
  <1>4. \A p \in Transfers : CallIsRight(toggle[p])'
    BY <1>1, <1>2, <1>3 DEF CallIsRight
  <1> QED
    BY <1>1, <1>3, <1>4 DEF Emoji!TypeOK, Emoji!ReactionsStand

LEMMA ToggleReadStep ==
  ASSUME ReactionsInv, NEW q \in Transfers, Emoji!ToggleRead(q)
  PROVE  ReactionsInv'
  <1> USE DEF ReactionsInv
  <1>1. /\ toggle[q].at = "reacting"
        /\ UNCHANGED <<exists, reactions, room, meant, doubt, silent, toggles, faults>>
    BY DEF Emoji!ToggleRead
  <1>2. PICK p : toggle' = [toggle EXCEPT ![q] = p] /\ CallIsRight(p)
    <2>1. CASE exists
      <3> DEFINE p == [toggle[q] EXCEPT !.at = "read", !.current = reactions]
      <3>1. toggle' = [toggle EXCEPT ![q] = p]
        BY <2>1 DEF Emoji!ToggleRead
      <3>2. CallIsRight(toggle[q]) /\ toggle[q] \in Toggle
        BY <1>1, IdleIsIdle DEF CallIsRight
      <3>3. p \in Toggle /\ p.existing = toggle[q].existing /\ p.current = reactions
        BY <3>2 DEF Toggle, Map, Emoji!TypeOK
      <3> HIDE DEF p
      <3>4. CallIsRight(p)
        BY <1>1, <3>2, <3>3, IdleIsIdle DEF CallIsRight
      <3> QED
        BY <3>1, <3>4
    <2>2. CASE ~exists
      BY <2>2 DEF Emoji!ToggleRead, Emoji!End, CallIsRight
    <2> QED
      BY <2>1, <2>2
  <1>3. \A f, v : Told(f, v) => Told(f, v)'
    BY <1>1, <1>2, ToldStays
  <1>4. \A o \in Transfers : CallIsRight(toggle[o])'
    BY <1>1, <1>2, <1>3 DEF CallIsRight
  <1> QED
    BY <1>1, <1>2, <1>3, <1>4 DEF Emoji!TypeOK, Emoji!ReactionsStand

LEMMA SetStep ==
  ASSUME ReactionsInv, NEW q \in Transfers, Emoji!SetMessageReactions(q)
  PROVE  ReactionsInv'
  <1> USE DEF ReactionsInv
  <1>1. /\ toggle[q].at = "read"
        /\ UNCHANGED <<exists, room, silent, toggles, faults>>
    BY DEF Emoji!SetMessageReactions
  <1>2. CallIsRight(toggle[q]) /\ toggle[q] \in Toggle
    BY <1>1, IdleIsIdle DEF CallIsRight
  <1>3. PICK u \in People, e \in Emojis : u = toggle[q].user /\ e = toggle[q].emoji
    BY <1>2 DEF Toggle
  <1>4. CallIsRight(toggle[q]) /\ toggle[q] \in Toggle /\ u = toggle[q].user /\ e = toggle[q].emoji
    BY <1>2, <1>3
  <1>5. /\ Emoji!Toggled(q) \in Map
        /\ Emoji!Toggled(q)[e] = IF u \in toggle[q].current[e] THEN toggle[q].current[e] \ {u}
                                 ELSE toggle[q].current[e] \union {u}
        /\ \A f \in Emojis \ {e} : Emoji!Toggled(q)[f] = toggle[q].current[f]
    BY <1>4 DEF Emoji!Toggled, Toggle, Map
  <1>6. /\ reactions' = IF exists THEN Emoji!Toggled(q) ELSE reactions
        /\ meant' = [meant EXCEPT ![e] = IF u \in Emoji!Toggled(q)[e] THEN @ \union {u} ELSE @ \ {u}]
        /\ doubt' = IF toggle[q].raced THEN Emojis \X People ELSE doubt \ {<<e, u>>}
    BY <1>3 DEF Emoji!SetMessageReactions
  <1>7. Emoji!TypeOK'
    BY <1>1, <1>4, <1>5, <1>6 DEF Emoji!TypeOK, Map
  <1>8. /\ toggle' = [p \in Transfers |-> toggle'[p]]
        /\ toggle'[q] = [toggle[q] EXCEPT !.at = IF Emoji!WasReacted(q) THEN "done" ELSE "tell"]
        /\ \A p \in Transfers \ {q} :
             toggle'[p] = IF toggle[p].at = "read" THEN [toggle[p] EXCEPT !.raced = TRUE] ELSE toggle[p]
    BY DEF Emoji!SetMessageReactions
  <1>9. \A f, v : Told(f, v) => Told(f, v)'
    BY <1>1, <1>8, ToldStays
  <1>10. Told(e, u)'
    <2>1. CASE Emoji!WasReacted(q)
      <3>1. u \in toggle[q].existing[e]
        BY <1>4, <2>1 DEF Emoji!WasReacted
      <3>2. Told(e, u)
        BY <1>1, <1>4, <3>1, IdleIsIdle DEF CallIsRight
      <3> QED
        BY <1>9, <3>2
    <2>2. CASE ~Emoji!WasReacted(q)
      <3>1. toggle'[q] = [toggle[q] EXCEPT !.at = "tell"]
        BY <1>8, <2>2
      <3>2. toggle'[q].at = "tell" /\ toggle'[q].emoji = e /\ toggle'[q].user = u
        BY <1>4, <3>1 DEF Toggle
      <3> QED
        BY <3>2 DEF Told
    <2> QED
      BY <2>1, <2>2
  <1>11. \A f \in Emojis : \A v \in reactions'[f] : Told(f, v)'
    <2> SUFFICES ASSUME NEW f \in Emojis, NEW v \in reactions'[f] PROVE Told(f, v)'
      OBVIOUS
    <2>1. \A g \in Emojis : \A w \in toggle[q].current[g] : Told(g, w)
      BY <1>1, <1>4, IdleIsIdle DEF CallIsRight
    <2>2. CASE v \in reactions[f]
      BY <1>9, <2>2
    <2>3. CASE v \notin reactions[f]
      <3>1. v \in Emoji!Toggled(q)[f]
        BY <1>6, <2>3
      <3>2. v \in toggle[q].current[f] \/ (f = e /\ v = u)
        BY <1>5, <3>1
      <3> QED
        BY <1>9, <1>10, <2>1, <3>2
    <2> QED
      BY <2>2, <2>3
  <1>12. Emoji!ReactionsStand'
    BY <1>1, <1>4, <1>5, <1>6, IdleIsIdle DEF Emoji!ReactionsStand, CallIsRight, Emoji!TypeOK, Map, Toggle
  <1>13. ASSUME NEW p \in Transfers PROVE CallIsRight(toggle[p])'
    <2>1. CASE p = q
      BY <1>4, <1>8, <1>9, <2>1, IdleIsIdle DEF CallIsRight, Toggle
    <2>2. CASE p # q /\ toggle[p].at = "read"
      <3>1. toggle'[p] = [toggle[p] EXCEPT !.raced = TRUE]
        BY <1>8, <2>2
      <3>2. CallIsRight(toggle[p]) /\ toggle[p] \in Toggle
        BY <2>2, IdleIsIdle DEF CallIsRight
      <3>3. /\ toggle'[p] \in Toggle /\ toggle'[p].raced = TRUE
            /\ toggle'[p].existing = toggle[p].existing /\ toggle'[p].current = toggle[p].current
        BY <3>1, <3>2 DEF Toggle
      <3> QED
        BY <1>9, <2>2, <3>2, <3>3, IdleIsIdle DEF CallIsRight
    <2>3. CASE p # q /\ toggle[p].at # "read"
      BY <1>8, <1>9, <2>3 DEF CallIsRight
    <2> QED
      BY <2>1, <2>2, <2>3
  <1> QED
    BY <1>7, <1>8, <1>11, <1>12, <1>13

(* The calls that end. *)
LEMMA EndStep ==
  ASSUME ReactionsInv, NEW q \in Transfers, Emoji!SendReaction(q) \/ Emoji!Answer(q) \/ Emoji!Abort(q)
  PROVE  ReactionsInv'
  <1> USE DEF ReactionsInv
  <1>1. /\ toggle' = [toggle EXCEPT ![q] = Emoji!Idle] /\ toggle[q].at # "idle"
        /\ UNCHANGED <<exists, reactions, meant, doubt, toggles>>
    BY DEF Emoji!SendReaction, Emoji!Answer, Emoji!Abort, Emoji!End
  <1>2. toggle[q] \in Toggle
    BY <1>1, IdleIsIdle DEF CallIsRight
  <1>3. Emoji!TypeOK'
    BY <1>1, <1>2, ToggleBounds DEF Emoji!TypeOK, Emoji!SendReaction, Emoji!Answer, Emoji!Abort, Toggle
  <1>4. \A f, v : Told(f, v) => Told(f, v)'
    BY <1>1, ToldStays DEF Emoji!SendReaction, Emoji!Answer, Emoji!Abort
  <1>5. \A p \in Transfers : CallIsRight(toggle[p])'
    BY <1>1, <1>4 DEF CallIsRight
  <1> QED
    BY <1>1, <1>3, <1>4, <1>5 DEF Emoji!ReactionsStand

LEMMA GoneStep ==
  ASSUME ReactionsInv, Emoji!DeleteMessage
  PROVE  ReactionsInv'
  <1>1. /\ exists' = FALSE
        /\ UNCHANGED <<reactions, toggle, room, meant, doubt, silent, toggles, faults>>
    BY DEF Emoji!DeleteMessage
  <1>2. \A f, v : Told(f, v) => Told(f, v)'
    BY <1>1 DEF Told
  <1>3. \A q \in Transfers : CallIsRight(toggle[q])'
    BY <1>1, <1>2 DEF ReactionsInv, CallIsRight
  <1> QED
    BY <1>1, <1>2, <1>3 DEF ReactionsInv, Emoji!TypeOK, Emoji!ReactionsStand

LEMMA ReactionsStep ==
  ReactionsInv /\ (Emoji!Next \/ UNCHANGED <<emojiVars, faults>>) => ReactionsInv'
  <1> SUFFICES ASSUME ReactionsInv, Emoji!Next \/ UNCHANGED <<emojiVars, faults>> PROVE ReactionsInv'
    OBVIOUS
  <1>1. CASE Emoji!Next
    BY <1>1, ReactStep, ToggleReadStep, SetStep, EndStep, GoneStep DEF Emoji!Next
  <1>2. CASE UNCHANGED <<emojiVars, faults>>
    BY <1>2 DEF ReactionsInv, emojiVars, Emoji!TypeOK, Emoji!ReactionsStand, CallIsRight, Told
  <1> QED
    BY <1>1, <1>2

LEMMA ReactionsPart == ChannelSpec => [](part = "reactions" => ReactionsInv)
  <1>1. ChannelInit => (part = "reactions" => ReactionsInv)
    BY ReactionsBegin DEF ChannelInit
  <1>2. (part = "reactions" => ReactionsInv) /\ [ChannelNext]_<<part, vars, fileVars, emojiVars>>
          => (part = "reactions" => ReactionsInv)'
    BY ReactionsStep DEF ChannelNext, vars
  <1> QED
    BY <1>1, <1>2, PTL DEF ChannelSpec

(* What a member chose last stands in the row when no other toggle overlapped with it, and   *)
(* the room is told of every reaction stored unless a call to it failed (messages.react).    *)
THEOREM ReactionsStandHolds == ChannelSpec => []ReactionsStand
  <1>1. (part = "reactions" => ReactionsInv) => ReactionsStand
    BY DEF ReactionsInv, ReactionsStand, Emoji!ReactionsTold, Told
  <1> QED
    BY <1>1, ReactionsPart, PTL

=============================================================================
