------------------------------ MODULE FileShares ------------------------------
(*****************************************************************************)
(* Files shared into channels: the fileShares table and the instance's IPFS   *)
(* node (server/fileRoutes.ts, server/db.ts, server/ipfsService.ts).  A file   *)
(* is its content's CID: the same bytes shared twice are one CID, two rows and *)
(* one pin.  The bytes of an encrypted attachment are ciphertext under a fresh *)
(* key, so nobody uploads its CID a second time.                              *)
(*                                                                            *)
(* A request takes one step per statement and per call to the node, and any   *)
(* of them can fail and end it.  The notice an upload leaves in the room is    *)
(* no part of this state.  Membership is that of the channel's server; here it *)
(* changes at any time.                                                       *)
(*****************************************************************************)
EXTENDS Naturals

CONSTANTS
  Users,
  Channels,
  Cids,       \* contents, by the CID the node computes
  Requests,
  MaxShares   \* bound on the rows ever inserted, and on the uploads of a CID

MaxSharesAssumption == MaxShares \in Nat

VARIABLES
  shares,    \* the rows of fileShares
  lastId,    \* the last id the sequence gave
  pinned,    \* the CIDs the node pins
  stored,    \* the CIDs whose bytes the node still has
  members,   \* the members of each channel's server
  uploads,   \* history: how often the node was given a CID
  req        \* the requests being served

vars == <<shares, lastId, pinned, stored, members, uploads, req>>

Ids == 1..MaxShares
Share == [id: Ids, channel: Channels, user: Users, cid: Cids]
SharesOf(f) == {s \in shares : s.cid = f}
ChannelsOf(f) == {s.channel : s \in SharesOf(f)}

(* "left" are the channels a download still has to try, "entitled" (history)   *)
(* those that have entitled its user to the file since it was asked for.       *)
Steps == {"idle", "add", "share", "count", "unpin", "check", "serve", "refused"}
Unset == "unset"
Request == [pc: Steps, user: Users \union {Unset}, channel: Channels \union {Unset},
            cid: Cids \union {Unset}, left: SUBSET Channels, entitled: SUBSET Channels]
Idle == [pc |-> "idle", user |-> Unset, channel |-> Unset, cid |-> Unset, left |-> {}, entitled |-> {}]

End(r) == req' = [req EXCEPT ![r] = Idle]
Goto(r, step) == req' = [req EXCEPT ![r].pc = step]

Init ==
  /\ shares = {}
  /\ lastId = 0
  /\ pinned = {}
  /\ stored = {}
  /\ members = [c \in Channels |-> {}]
  /\ uploads = [f \in Cids |-> 0]
  /\ req = [r \in Requests |-> Idle]

(* Downloads in flight lose the entitlements that end while they run. *)
Withdraw(c, f) ==
  [r \in Requests |-> IF req[r].cid = f THEN [req[r] EXCEPT !.entitled = @ \ {c}] ELSE req[r]]

-----------------------------------------------------------------------------
(* People come and go (module Membership). *)

Enter(c, u) ==
  /\ u \notin members[c]
  /\ members' = [members EXCEPT ![c] = @ \union {u}]
  /\ UNCHANGED <<shares, lastId, pinned, stored, uploads, req>>

Depart(c, u) ==
  /\ u \in members[c]
  /\ members' = [members EXCEPT ![c] = @ \ {u}]
  /\ req' = [r \in Requests |-> IF req[r].user = u THEN [req[r] EXCEPT !.entitled = @ \ {c}] ELSE req[r]]
  /\ UNCHANGED <<shares, lastId, pinned, stored, uploads>>

-----------------------------------------------------------------------------
(* POST /api/upload *)

Upload(r, u, c, f) ==
  /\ req[r].pc = "idle"
  /\ u \in members[c]
  /\ req' = [req EXCEPT ![r] = [Idle EXCEPT !.pc = "add", !.user = u, !.channel = c, !.cid = f]]
  /\ UNCHANGED <<shares, lastId, pinned, stored, members, uploads>>

(* Mutant: the bytes are added without a pin. *)
AddFileUnpinned(r) ==
  /\ req[r].pc = "add"
  /\ uploads[req[r].cid] < MaxShares
  /\ uploads' = [uploads EXCEPT ![req[r].cid] = @ + 1]
  /\ stored' = stored \union {req[r].cid}
  /\ Goto(r, "share")
  /\ UNCHANGED <<shares, lastId, pinned, members>>

AddFile(r) ==
  LET f == req[r].cid IN
  /\ req[r].pc = "add"
  /\ uploads[f] < MaxShares
  /\ uploads' = [uploads EXCEPT ![f] = @ + 1]
  /\ pinned' = pinned \union {f}
  /\ stored' = stored \union {f}
  /\ Goto(r, "share")
  /\ UNCHANGED <<shares, lastId, members>>

CreateFileShare(r) ==
  /\ req[r].pc = "share"
  /\ lastId < MaxShares
  /\ lastId' = lastId + 1
  /\ shares' = shares \union
       {[id |-> lastId + 1, channel |-> req[r].channel, user |-> req[r].user, cid |-> req[r].cid]}
  /\ End(r)
  /\ UNCHANGED <<pinned, stored, members, uploads>>

-----------------------------------------------------------------------------
(* DELETE /api/uploads/:shareId *)

(* The delete names the uploader and returns the CID. *)
DeleteOwnFileShare(r, u, s) ==
  /\ req[r].pc = "idle"
  /\ s.user = u
  /\ shares' = shares \ {s}
  /\ LET lost == IF s.channel \in {t.channel : t \in SharesOf(s.cid) \ {s}}
                   THEN req
                   ELSE Withdraw(s.channel, s.cid)
     IN  req' = [lost EXCEPT ![r] = [Idle EXCEPT !.pc = "count", !.user = u, !.cid = s.cid]]
  /\ UNCHANGED <<lastId, pinned, stored, members, uploads>>

CidStillShared(r) ==
  /\ req[r].pc = "count"
  /\ IF SharesOf(req[r].cid) # {} THEN End(r) ELSE Goto(r, "unpin")
  /\ UNCHANGED <<shares, lastId, pinned, stored, members, uploads>>

UnpinFile(r) ==
  /\ req[r].pc = "unpin"
  /\ pinned' = pinned \ {req[r].cid}
  /\ End(r)
  /\ UNCHANGED <<shares, lastId, stored, members, uploads>>

(* Kubo collects what nothing pins. *)
CollectGarbage ==
  /\ stored # pinned
  /\ stored' = pinned
  /\ UNCHANGED <<shares, lastId, pinned, members, uploads, req>>

-----------------------------------------------------------------------------
(* GET /api/files/:cid *)

(* Mutant: only the first row is looked at. *)
GetFirstFileShareByCid(r, u, f) ==
  /\ req[r].pc = "idle"
  /\ \E c \in ChannelsOf(f) :
       req' = [req EXCEPT ![r] = [Idle EXCEPT !.pc = "check", !.user = u, !.cid = f, !.left = {c},
                                  !.entitled = {d \in ChannelsOf(f) : u \in members[d]}]]
  /\ UNCHANGED <<shares, lastId, pinned, stored, members, uploads>>

GetFileSharesByCid(r, u, f) ==
  /\ req[r].pc = "idle"
  /\ SharesOf(f) # {}
  /\ req' = [req EXCEPT ![r] = [Idle EXCEPT !.pc = "check", !.user = u, !.cid = f, !.left = ChannelsOf(f),
                                !.entitled = {c \in ChannelsOf(f) : u \in members[c]}]]
  /\ UNCHANGED <<shares, lastId, pinned, stored, members, uploads>>

(* One turn of the loop over the rows that were read. *)
TryShare(r, c) ==
  /\ req[r].pc = "check"
  /\ c \in req[r].left
  /\ IF req[r].user \in members[c]
       THEN Goto(r, "serve")
       ELSE req' = [req EXCEPT ![r].left = @ \ {c}]
  /\ UNCHANGED <<shares, lastId, pinned, stored, members, uploads>>

Refuse(r) ==
  /\ req[r].pc = "check"
  /\ req[r].left = {}
  /\ Goto(r, "refused")
  /\ UNCHANGED <<shares, lastId, pinned, stored, members, uploads>>

(* The answer: the bytes, the 403, or an error; also a failure at any step. *)
Answer(r) ==
  /\ req[r].pc # "idle"
  /\ End(r)
  /\ UNCHANGED <<shares, lastId, pinned, stored, members, uploads>>

-----------------------------------------------------------------------------
Step(r) ==
  \/ \E u \in Users, c \in Channels, f \in Cids : Upload(r, u, c, f)
  \/ \E u \in Users, s \in shares : DeleteOwnFileShare(r, u, s)
  \/ \E u \in Users, f \in Cids : GetFileSharesByCid(r, u, f)
  \/ \E c \in Channels : TryShare(r, c)
  \/ AddFile(r) \/ CreateFileShare(r) \/ CidStillShared(r) \/ UnpinFile(r) \/ Refuse(r) \/ Answer(r)

Next ==
  \/ \E c \in Channels, u \in Users : Enter(c, u) \/ Depart(c, u)
  \/ \E r \in Requests : Step(r)
  \/ CollectGarbage

Spec == Init /\ [][Next]_vars

-----------------------------------------------------------------------------
(* Properties *)

(* Types; the node has the bytes of what it pins. *)
TypeOK ==
  /\ shares \subseteq Share
  /\ lastId \in 0..MaxShares
  /\ pinned \subseteq stored /\ stored \subseteq Cids
  /\ members \in [Channels -> SUBSET Users]
  /\ uploads \in [Cids -> 0..MaxShares]
  /\ req \in [Requests -> Request]

(* Bytes given to the node once, as every encrypted attachment's are, are kept *)
(* as long as their share is: no abandon, of this share or of another, unpins   *)
(* them under it.                                                              *)
FreshBytesKept == \A f \in Cids : uploads[f] = 1 /\ SharesOf(f) # {} => f \in pinned

(* A download is refused only to somebody whom no share of the file entitled   *)
(* all along (getFileSharesByCid's "every share", the loop in fileRoutes).     *)
RefusedWereNotEntitled == \A r \in Requests : req[r].pc = "refused" => req[r].entitled = {}

-----------------------------------------------------------------------------
(* "Only unpin when nothing else points at those bytes" (the abandon route):   *)
(* what is shared, is pinned.                                                  *)
SharedIsPinned == \A f \in Cids : SharesOf(f) # {} => f \in pinned
===============================================================================
