---------------------------- MODULE AccountRecovery ----------------------------
(*****************************************************************************)
(* The ways back into an account of the identity service                      *)
(* (identity/src/routes.ts): recovery codes, the links of password resets, and *)
(* the password and sessions they change.  Rows are looked up by account, so   *)
(* one account stands for all; it starts as its registration leaves it.        *)
(*                                                                            *)
(* A request takes one step per SQL statement and can end at any of them.      *)
(* Whoever sends one types what it needs: the password the row holds, a code   *)
(* or link that is good when it is looked up.  What is wrong is refused at     *)
(* once and changes nothing.  Sessions from an identity provider or from a     *)
(* desktop code (module DeviceAuthorization) are no part of this.              *)
(*****************************************************************************)
EXTENDS Naturals, Sequences

CONSTANTS
  Requests,
  CodesPerBatch,  \* eight in the code
  MaxBatches,     \* bounds: batches of codes made,
  MaxLinks,       \* reset links made,
  MaxSessions     \* and sessions begun

RecoveryAssumption ==
  /\ CodesPerBatch \in Nat \ {0} /\ MaxBatches \in Nat \ {0}
  /\ MaxLinks \in Nat /\ MaxSessions \in Nat \ {0}

VARIABLES
  unused,    \* the codes and links whose usedAt is null
  lapsed,    \* the links whose expiresAt has passed
  changes,   \* the keys that changed the password, in order; the password is
             \* known by how many these were when it was set
  sessions,  \* the rows of sessions
  made,      \* how many batches, links and sessions were ever made
  req        \* the requests being served

vars == <<unused, lapsed, changes, sessions, made, req>>

Code == [kind: {"code"}, batch: 1..MaxBatches, nr: 1..CodesPerBatch]
Link == [kind: {"link"}, batch: 1..MaxLinks, nr: {0}]
Key == Code \union Link
Batch(n) == [kind: {"code"}, batch: {n}, nr: 1..CodesPerBatch]
Password == Len(changes)

(* "begun" is the password when the row was inserted, "proved" the one that was *)
(* checked for it.                                                             *)
Session == [id: 1..MaxSessions, begun: Nat, proved: Nat]

(* "key" is what a recovery presents, "password" what a login proved or a       *)
(* recovery set, "before" (history) the codes there were when a regeneration    *)
(* was asked for.                                                              *)
Steps == {"idle", "session", "delete", "insert", "regenerated", "claim", "set", "clear", "recovered"}
Request == [pc: Steps, key: Key, password: Nat, before: SUBSET Code]
Idle == [pc |-> "idle", key |-> CHOOSE k \in Batch(1) : TRUE, password |-> 0, before |-> {}]

Goto(r, step) == req' = [req EXCEPT ![r].pc = step]
End(r) == req' = [req EXCEPT ![r] = Idle]

Init ==
  /\ unused = Batch(1)
  /\ lapsed = {}
  /\ changes = <<>>
  /\ sessions = {[id |-> 1, begun |-> 0, proved |-> 0]}
  /\ made = [batches |-> 1, links |-> 0, sessions |-> 1]
  /\ req = [r \in Requests |-> Idle]

-----------------------------------------------------------------------------
(* POST /api/login, /api/logout *)

VerifyPassword(r) ==
  /\ req[r].pc = "idle"
  /\ req' = [req EXCEPT ![r] = [Idle EXCEPT !.pc = "session", !.password = Password]]
  /\ UNCHANGED <<unused, lapsed, changes, sessions, made>>

InsertSession(r) ==
  /\ req[r].pc = "session"
  /\ made.sessions < MaxSessions
  /\ made' = [made EXCEPT !.sessions = @ + 1]
  /\ sessions' = sessions \union
       {[id |-> made.sessions + 1, begun |-> Password, proved |-> req[r].password]}
  /\ End(r)
  /\ UNCHANGED <<unused, lapsed, changes>>

Logout(s) ==
  /\ sessions' = sessions \ {s}
  /\ UNCHANGED <<unused, lapsed, changes, made, req>>

-----------------------------------------------------------------------------
(* POST /api/recovery-codes/regenerate *)

Regenerate(r) ==
  /\ req[r].pc = "idle"
  /\ sessions # {}
  /\ req' = [req EXCEPT ![r] = [Idle EXCEPT !.pc = "delete", !.before = unused \intersect Code]]
  /\ UNCHANGED <<unused, lapsed, changes, sessions, made>>

DeleteCodes(r) ==
  /\ req[r].pc = "delete"
  /\ unused' = unused \ Code
  /\ Goto(r, "insert")
  /\ UNCHANGED <<lapsed, changes, sessions, made>>

InsertCodes(r) ==
  /\ req[r].pc = "insert"
  /\ made.batches < MaxBatches
  /\ made' = [made EXCEPT !.batches = @ + 1]
  /\ unused' = unused \union Batch(made.batches + 1)
  /\ Goto(r, "regenerated")
  /\ UNCHANGED <<lapsed, changes, sessions>>

-----------------------------------------------------------------------------
(* POST /api/reset/request *)

RequestReset ==
  /\ made.links < MaxLinks
  /\ made' = [made EXCEPT !.links = @ + 1]
  /\ unused' = unused \union {[kind |-> "link", batch |-> made.links + 1, nr |-> 0]}
  /\ UNCHANGED <<lapsed, changes, sessions, req>>

LinkLapses(k) ==
  /\ k.kind = "link" /\ k \notin lapsed
  /\ lapsed' = lapsed \union {k}
  /\ UNCHANGED <<unused, changes, sessions, made, req>>

-----------------------------------------------------------------------------
(* POST /api/recover with a code, /api/reset/complete with a link: the two are  *)
(* the same statements on the two tables.                                      *)

Present(r, k) ==
  /\ req[r].pc = "idle"
  /\ k \notin lapsed
  /\ req' = [req EXCEPT ![r] = [Idle EXCEPT !.pc = "claim", !.key = k]]
  /\ UNCHANGED <<unused, lapsed, changes, sessions, made>>

(* Mutant: the update does not ask for usedAt IS NULL. *)
ClaimAgain(r) ==
  /\ req[r].pc = "claim"
  /\ unused' = unused \ {req[r].key}
  /\ Goto(r, "set")
  /\ UNCHANGED <<lapsed, changes, sessions, made>>

(* UPDATE ... SET usedAt WHERE usedAt IS NULL RETURNING id *)
Claim(r) ==
  /\ req[r].pc = "claim"
  /\ IF req[r].key \in unused
       THEN unused' = unused \ {req[r].key} /\ Goto(r, "set")
       ELSE End(r) /\ UNCHANGED unused
  /\ UNCHANGED <<lapsed, changes, sessions, made>>

SetPassword(r) ==
  /\ req[r].pc = "set"
  /\ changes' = Append(changes, req[r].key)
  /\ req' = [req EXCEPT ![r].pc = "clear", ![r].password = Password + 1]
  /\ UNCHANGED <<unused, lapsed, sessions, made>>

(* Mutant: one session goes. *)
DeleteLatestSession(r) ==
  /\ req[r].pc = "clear"
  /\ sessions' = {s \in sessions : s.id # made.sessions}
  /\ Goto(r, "recovered")
  /\ UNCHANGED <<unused, lapsed, changes, made>>

DeleteSessions(r) ==
  /\ req[r].pc = "clear"
  /\ sessions' = {}
  /\ Goto(r, "recovered")
  /\ UNCHANGED <<unused, lapsed, changes, made>>

(* The answer, a refusal or a failure ends a request. *)
Answer(r) ==
  /\ req[r].pc # "idle"
  /\ End(r)
  /\ UNCHANGED <<unused, lapsed, changes, sessions, made>>

-----------------------------------------------------------------------------
Step(r) ==
  \/ VerifyPassword(r) \/ InsertSession(r)
  \/ Regenerate(r) \/ DeleteCodes(r) \/ InsertCodes(r)
  \/ \E k \in unused : Present(r, k)
  \/ Claim(r) \/ SetPassword(r) \/ DeleteSessions(r)
  \/ Answer(r)

Next ==
  \/ \E r \in Requests : Step(r)
  \/ \E s \in sessions : Logout(s)
  \/ RequestReset
  \/ \E k \in unused : LinkLapses(k)

Spec == Init /\ [][Next]_vars

-----------------------------------------------------------------------------
(* Properties *)

(* Types; a session's id is its own, and it cannot have been checked against a  *)
(* later password than the one in force when it begins.                        *)
TypeOK ==
  /\ unused \subseteq Key
  /\ lapsed \subseteq Link
  /\ changes \in Seq(Key)
  /\ sessions \subseteq Session
  /\ \A s \in sessions : s.proved <= s.begun /\ s.begun <= Password
  /\ \A s, t \in sessions : s.id = t.id => s = t
  /\ made \in [batches: 1..MaxBatches, links: 0..MaxLinks, sessions: 1..MaxSessions]
  /\ req \in [Requests -> Request]

(* "Recovery codes and device codes weren't single-use" once: a code or a link  *)
(* changes the password at most once, however many requests present it, and     *)
(* what has changed it, or is about to, is spent.                              *)
SpentOnce ==
  /\ \A i, j \in DOMAIN changes : i # j => changes[i] # changes[j]
  /\ \A i \in DOMAIN changes : changes[i] \notin unused
  /\ \A r \in Requests : req[r].pc = "set" =>
       /\ req[r].key \notin unused
       /\ \A i \in DOMAIN changes : changes[i] # req[r].key
       /\ \A q \in Requests \ {r} : ~(req[q].pc = "set" /\ req[q].key = req[r].key)

(* "Every existing session goes": who set a password and is told so has ended   *)
(* every session begun before.                                                 *)
EarlierSessionsGone ==
  \A r \in Requests, s \in sessions : req[r].pc = "recovered" => s.begun >= req[r].password

(* "Your previous codes no longer work": every code there was when a new set    *)
(* was asked for is gone when the set is shown.                                *)
PreviousCodesGone ==
  \A r \in Requests : req[r].pc = "regenerated" => unused \intersect req[r].before = {}

-----------------------------------------------------------------------------
(* "If a password reset was someone else's doing, leaving their session alive   *)
(* would make the reset pointless": no session outlives, after the answer, the  *)
(* password that was checked for it.                                           *)
NoSessionByOldPassword ==
  \A r \in Requests, s \in sessions : req[r].pc = "recovered" => s.proved >= req[r].password

(* "A regenerated set that left the previous batch working would defeat the     *)
(* point of regenerating": the codes that work are of one set.                 *)
OneBatch == \A k, l \in unused \intersect Code : k.batch = l.batch
===============================================================================
