----------------------------- MODULE DesktopProofs -----------------------------
(* Theorems about the parts of MCDesktop other than Hosting: the ways back into an *)
(* account, sign-in through providers, the tokens for servers, and the servers that *)
(* the frame remembers.  Each part has an inductive invariant, and a lemma with one *)
(* step per action of the part's module.                                         *)
EXTENDS MCDesktop, FiniteSetTheorems, TLAPS

-------------------------------------------------------------------------------
(* The parts *)

(* A step of the composition is a step of the part it is about, or leaves it alone. *)
LEMMA PartStep ==
  ASSUME [DesktopNext]_desktopVars
  PROVE  /\ part' = part
         /\ part = "recovery" => [Recovery!Next]_(Recovery!vars)
         /\ part = "provider" => [SignIn!Next]_(SignIn!vars)
         /\ part = "tokens" => [Tokens!Next]_(Tokens!vars)
         /\ part = "frame" => [Window!Next]_(Window!vars)
  BY DEF DesktopNext, desktopVars, frameVars, recoveryVars, signInVars, tokenVars,
         Recovery!vars, SignIn!vars, Tokens!vars, Window!vars, Window!stage, Window!world

-------------------------------------------------------------------------------
(* AccountRecovery *)

(* A code or link that was made at some time. *)
Issued(k) ==
  \/ k.kind = "code" /\ k.batch <= issued.batches
  \/ k.kind = "link" /\ k.batch <= issued.links

(* What is unused, was spent or is held by a request was made before, so that what *)
(* is made anew is none of it.                                                   *)
IssuedInv ==
  /\ \A k \in unused : Issued(k)
  /\ \A i \in DOMAIN changes : Issued(changes[i])
  /\ \A r \in Requests : /\ Issued(recoveryReq[r].key)
                         /\ \A k \in recoveryReq[r].before : Issued(k)
  /\ \A s \in sessions : s.id <= issued.sessions

(* No request knows a later password than the one in force, and the codes there     *)
(* were before a regeneration are gone from its delete on.                        *)
KnownInv ==
  /\ \A r \in Requests : recoveryReq[r].password <= Len(changes)
  /\ \A r \in Requests : recoveryReq[r].pc \in {"insert", "regenerated"} =>
                           unused \cap recoveryReq[r].before = {}

RecoveryInv ==
  Recovery!TypeOK /\ IssuedInv /\ KnownInv /\ Recovery!SpentOnce /\ Recovery!EarlierSessionsGone

LEMMA RecoveryBounds ==
  /\ CodesPerBatch \in Nat \ {0} /\ MaxBatches \in Nat \ {0}
  /\ MaxLinks \in Nat /\ MaxSessions \in Nat \ {0}
  BY PartsAssumption DEF Recovery!RecoveryAssumption

LEMMA BatchType ==
  ASSUME NEW n \in 1 .. MaxBatches
  PROVE  Recovery!Batch(n) \subseteq Recovery!Code
  BY RecoveryBounds DEF Recovery!Batch, Recovery!Code

(* A request that is not served holds a code of the first batch, of no consequence. *)
LEMMA IdleRecord ==
  \E k \in Recovery!Key :
    /\ k.kind = "code" /\ k.batch = 1
    /\ Recovery!Idle = [pc |-> "idle", key |-> k, password |-> 0, before |-> {}]
  <1> DEFINE first == CHOOSE k \in Recovery!Batch(1) : TRUE
  <1>1. [kind |-> "code", batch |-> 1, nr |-> 1] \in Recovery!Batch(1)
    BY RecoveryBounds DEF Recovery!Batch
  <1>2. first \in Recovery!Batch(1)
    BY <1>1
  <1> HIDE DEF first
  <1>3. first \in Recovery!Key
    BY <1>2, BatchType, RecoveryBounds DEF Recovery!Key
  <1>4. first.kind = "code" /\ first.batch = 1
    BY <1>2 DEF Recovery!Batch
  <1>5. Recovery!Idle = [pc |-> "idle", key |-> first, password |-> 0, before |-> {}]
    BY DEF Recovery!Idle, first
  <1> QED
    BY <1>3, <1>4, <1>5

LEMMA IdleType ==
  /\ Recovery!Idle \in Recovery!Request
  /\ Recovery!Idle.pc = "idle" /\ Recovery!Idle.password = 0 /\ Recovery!Idle.before = {}
  /\ Recovery!Idle.key.kind = "code" /\ Recovery!Idle.key.batch = 1
  BY IdleRecord DEF Recovery!Request, Recovery!Steps

(* The records that requests begin with. *)
LEMMA SessionRequest ==
  ASSUME NEW n \in Nat,
         NEW q, q = [Recovery!Idle EXCEPT !.pc = "session", !.password = n]
  PROVE  /\ q \in Recovery!Request /\ q.pc = "session" /\ q.password = n
         /\ q.key = Recovery!Idle.key /\ q.before = {}
  <1>1. PICK k1 \in Recovery!Key :
          Recovery!Idle = [pc |-> "idle", key |-> k1, password |-> 0, before |-> {}]
    BY IdleRecord
  <1>2. q = [pc |-> "session", key |-> k1, password |-> n, before |-> {}]
    BY <1>1
  <1> QED
    BY <1>1, <1>2 DEF Recovery!Request, Recovery!Steps

LEMMA RegenerateRequest ==
  ASSUME NEW codes \in SUBSET Recovery!Code,
         NEW q, q = [Recovery!Idle EXCEPT !.pc = "delete", !.before = codes]
  PROVE  /\ q \in Recovery!Request /\ q.pc = "delete" /\ q.password = 0
         /\ q.key = Recovery!Idle.key /\ q.before = codes
  <1>1. PICK k1 \in Recovery!Key :
          Recovery!Idle = [pc |-> "idle", key |-> k1, password |-> 0, before |-> {}]
    BY IdleRecord
  <1>2. q = [pc |-> "delete", key |-> k1, password |-> 0, before |-> codes]
    BY <1>1
  <1> QED
    BY <1>1, <1>2 DEF Recovery!Request, Recovery!Steps

LEMMA ClaimRequest ==
  ASSUME NEW k \in Recovery!Key,
         NEW q, q = [Recovery!Idle EXCEPT !.pc = "claim", !.key = k]
  PROVE  /\ q \in Recovery!Request /\ q.pc = "claim" /\ q.password = 0
         /\ q.key = k /\ q.before = {}
  <1>1. PICK k1 \in Recovery!Key :
          Recovery!Idle = [pc |-> "idle", key |-> k1, password |-> 0, before |-> {}]
    BY IdleRecord
  <1>2. q = [pc |-> "claim", key |-> k, password |-> 0, before |-> {}]
    BY <1>1
  <1> QED
    BY <1>1, <1>2 DEF Recovery!Request, Recovery!Steps

(* A step of a request, which changes nothing else of it. *)
LEMMA GotoType ==
  ASSUME recoveryReq \in [Requests -> Recovery!Request], NEW r \in Requests,
         NEW step \in Recovery!Steps, Recovery!Goto(r, step)
  PROVE  /\ recoveryReq' \in [Requests -> Recovery!Request]
         /\ \A p \in Requests \ {r} : recoveryReq'[p] = recoveryReq[p]
         /\ recoveryReq'[r].pc = step /\ recoveryReq'[r].key = recoveryReq[r].key
         /\ recoveryReq'[r].password = recoveryReq[r].password
         /\ recoveryReq'[r].before = recoveryReq[r].before
  <1>1. recoveryReq'[r] = [recoveryReq[r] EXCEPT !.pc = step]
    BY DEF Recovery!Goto
  <1>2. recoveryReq'[r] \in Recovery!Request
    BY <1>1 DEF Recovery!Request
  <1> QED
    BY <1>1, <1>2 DEF Recovery!Goto, Recovery!Request

LEMMA RecoveryInit == Recovery!Init => RecoveryInv
  <1> SUFFICES ASSUME Recovery!Init
               PROVE  RecoveryInv
    OBVIOUS
  <1> USE RecoveryBounds, IdleType DEF Recovery!Init
  <1>1. unused \subseteq Recovery!Key /\ \A k \in unused : Issued(k)
    BY BatchType DEF Recovery!Key, Recovery!Batch, Issued
  <1>2. Recovery!TypeOK
    BY <1>1 DEF Recovery!TypeOK, Recovery!Session, Recovery!Password
  <1>3. IssuedInv
    BY <1>1 DEF IssuedInv, Issued
  <1> QED
    BY <1>2, <1>3 DEF RecoveryInv, KnownInv, Recovery!SpentOnce, Recovery!EarlierSessionsGone

(* A request that begins, or ends, takes a record of its own and no more. *)
LEMMA RecoveryServes ==
  ASSUME RecoveryInv, NEW r \in Requests, NEW q \in Recovery!Request,
         recoveryReq' = [recoveryReq EXCEPT ![r] = q],
         UNCHANGED <<unused, lapsed, changes, sessions, issued>>,
         q.pc \in {"idle", "session", "delete", "claim"},
         Issued(q.key), \A k \in q.before : Issued(k), q.password <= Len(changes)
  PROVE  RecoveryInv'
  <1> USE DEF RecoveryInv, Recovery!TypeOK
  <1>1. recoveryReq'[r] = q /\ \A p \in Requests \ {r} : recoveryReq'[p] = recoveryReq[p]
    OBVIOUS
  <1>2. Recovery!TypeOK'
    BY DEF Recovery!Password
  <1>3. IssuedInv'
    BY <1>1 DEF IssuedInv, Issued
  <1>4. KnownInv'
    BY <1>1 DEF KnownInv
  <1>5. Recovery!SpentOnce'
    BY <1>1 DEF Recovery!SpentOnce
  <1>6. Recovery!EarlierSessionsGone'
    BY <1>1 DEF Recovery!EarlierSessionsGone
  <1> QED
    BY <1>2, <1>3, <1>4, <1>5, <1>6

(* The requests that are answered in several steps take their first. *)
LEMMA RecoveryBegins ==
  ASSUME RecoveryInv, NEW r \in Requests,
         \/ Recovery!VerifyPassword(r) \/ Recovery!Regenerate(r)
         \/ \E k \in unused : Recovery!Present(r, k)
  PROVE  RecoveryInv'
  <1>1. Len(changes) \in Nat /\ 1 <= issued.batches
    BY RecoveryBounds DEF RecoveryInv, Recovery!TypeOK
  <1>2. \A k \in unused : k \in Recovery!Key /\ Issued(k)
    BY DEF RecoveryInv, Recovery!TypeOK, IssuedInv
  <1>3. Issued(Recovery!Idle.key)
    BY <1>1, IdleType DEF Issued
  <1>4. UNCHANGED <<unused, lapsed, changes, sessions, issued>>
    BY DEF Recovery!VerifyPassword, Recovery!Regenerate, Recovery!Present
  <1>5. PICK q \in Recovery!Request :
          /\ recoveryReq' = [recoveryReq EXCEPT ![r] = q]
          /\ q.pc \in {"idle", "session", "delete", "claim"}
          /\ Issued(q.key) /\ q.password <= Len(changes)
          /\ \A k \in q.before : Issued(k)
    <2>1. CASE Recovery!VerifyPassword(r)
      <3>1. PICK q : q = [Recovery!Idle EXCEPT !.pc = "session", !.password = Len(changes)]
        OBVIOUS
      <3>2. recoveryReq' = [recoveryReq EXCEPT ![r] = q]
        BY <2>1, <3>1 DEF Recovery!VerifyPassword, Recovery!Password
      <3>3. /\ q \in Recovery!Request /\ q.pc = "session" /\ q.password = Len(changes)
            /\ q.key = Recovery!Idle.key /\ q.before = {}
        BY <1>1, <3>1, SessionRequest
      <3>4. Issued(q.key)
        BY <1>3, <3>3, Zenon
      <3>5. q.pc \in {"idle", "session", "delete", "claim"} /\ q.password <= Len(changes)
        BY <1>1, <3>3
      <3>6. \A k \in q.before : Issued(k)
        BY <3>3
      <3> QED
        BY <3>2, <3>3, <3>4, <3>5, <3>6, Zenon
    <2>2. CASE Recovery!Regenerate(r)
      <3>1. PICK q : q = [Recovery!Idle EXCEPT !.pc = "delete", !.before = unused \cap Recovery!Code]
        OBVIOUS
      <3>2. recoveryReq' = [recoveryReq EXCEPT ![r] = q]
        BY <2>2, <3>1 DEF Recovery!Regenerate
      <3>3. /\ q \in Recovery!Request /\ q.pc = "delete" /\ q.password = 0
            /\ q.key = Recovery!Idle.key /\ q.before = unused \cap Recovery!Code
        BY <3>1, RegenerateRequest
      <3>4. Issued(q.key)
        BY <1>3, <3>3, Zenon
      <3>5. q.pc \in {"idle", "session", "delete", "claim"} /\ q.password <= Len(changes)
        BY <1>1, <3>3
      <3>6. \A k \in q.before : Issued(k)
        BY <1>2, <3>3
      <3> QED
        BY <3>2, <3>3, <3>4, <3>5, <3>6, Zenon
    <2>3. ASSUME NEW k \in unused, Recovery!Present(r, k)
          PROVE  \E q \in Recovery!Request :
                   /\ recoveryReq' = [recoveryReq EXCEPT ![r] = q]
                   /\ q.pc \in {"idle", "session", "delete", "claim"}
                   /\ Issued(q.key) /\ q.password <= Len(changes)
                   /\ \A l \in q.before : Issued(l)
      <3>1. PICK q : q = [Recovery!Idle EXCEPT !.pc = "claim", !.key = k]
        OBVIOUS
      <3>2. recoveryReq' = [recoveryReq EXCEPT ![r] = q]
        BY <2>3, <3>1 DEF Recovery!Present
      <3>3. q \in Recovery!Request /\ q.pc = "claim" /\ q.password = 0 /\ q.key = k /\ q.before = {}
        BY <1>2, <3>1, ClaimRequest
      <3>4. Issued(q.key)
        BY <1>2, <3>3, Zenon
      <3>5. q.pc \in {"idle", "session", "delete", "claim"} /\ q.password <= Len(changes)
        BY <1>1, <3>3
      <3>6. \A l \in q.before : Issued(l)
        BY <3>3
      <3> QED
        BY <3>2, <3>3, <3>4, <3>5, <3>6, Zenon
    <2> QED
      BY <2>1, <2>2, <2>3
  <1> QED
    BY <1>4, <1>5, RecoveryServes

LEMMA RecoveryStep ==
  ASSUME RecoveryInv, [Recovery!Next]_(Recovery!vars)
  PROVE  RecoveryInv'
  <1> USE RecoveryBounds, IdleType
      DEF RecoveryInv, Recovery!TypeOK, IssuedInv, Issued, KnownInv, Recovery!SpentOnce,
          Recovery!EarlierSessionsGone, Recovery!Request, Recovery!Steps, Recovery!Password
  <1>1. ASSUME NEW r \in Requests,
               \/ Recovery!VerifyPassword(r) \/ Recovery!Regenerate(r)
               \/ \E k \in unused : Recovery!Present(r, k)
        PROVE  RecoveryInv'
    <2> HIDE DEF Recovery!TypeOK, IssuedInv, KnownInv, Recovery!SpentOnce, RecoveryInv,
                 Recovery!EarlierSessionsGone, Recovery!Request, Recovery!Steps
    <2> QED
      BY <1>1, RecoveryBegins
  <1>2. ASSUME NEW r \in Requests, Recovery!InsertSession(r)
        PROVE  RecoveryInv'
    BY <1>2 DEF Recovery!InsertSession, Recovery!End, Recovery!Session
  <1>3. ASSUME NEW s \in sessions, Recovery!Logout(s)
        PROVE  RecoveryInv'
    BY <1>3 DEF Recovery!Logout
  <1>4. ASSUME NEW r \in Requests, Recovery!DeleteCodes(r)
        PROVE  RecoveryInv'
    BY <1>4 DEF Recovery!DeleteCodes, Recovery!Goto
  <1>5. ASSUME NEW r \in Requests, Recovery!InsertCodes(r)
        PROVE  RecoveryInv'
    <2> DEFINE new == Recovery!Batch(issued.batches + 1)
    <2>1. /\ issued' = [issued EXCEPT !.batches = issued.batches + 1]
          /\ unused' = unused \cup new /\ issued.batches + 1 \in 1 .. MaxBatches
          /\ recoveryReq[r].pc = "insert" /\ Recovery!Goto(r, "regenerated")
          /\ UNCHANGED <<lapsed, changes, sessions>>
      BY <1>5 DEF Recovery!InsertCodes
    <2>2. new \subseteq Recovery!Key
          /\ \A k \in new : k.kind = "code" /\ k.batch = issued.batches + 1 /\ ~Issued(k)
      BY <2>1, BatchType DEF Recovery!Key, Recovery!Batch
    <2> HIDE DEF new, Recovery!Request, Recovery!Steps
    <2>3. /\ recoveryReq' \in [Requests -> Recovery!Request]
          /\ \A p \in Requests : /\ recoveryReq'[p].key = recoveryReq[p].key
                                 /\ recoveryReq'[p].password = recoveryReq[p].password
                                 /\ recoveryReq'[p].before = recoveryReq[p].before
          /\ \A p \in Requests \ {r} : recoveryReq'[p] = recoveryReq[p]
          /\ recoveryReq'[r].pc = "regenerated"
      BY <2>1, GotoType DEF Recovery!Steps
    <2>4. issued' \in [batches: 1..MaxBatches, links: 0..MaxLinks, sessions: 1..MaxSessions]
          /\ issued'.batches = issued.batches + 1 /\ issued'.links = issued.links
          /\ issued'.sessions = issued.sessions
      BY <2>1
    <2> HIDE DEF Recovery!Goto
    <2>5. Recovery!TypeOK'
      BY <2>1, <2>2, <2>3, <2>4
    <2>6. \A k \in Recovery!Key : Issued(k) => Issued(k)'
      BY <2>4 DEF Recovery!Key, Recovery!Code, Recovery!Link
    <2>7. (\A k \in unused : Issued(k))'
      BY <2>1, <2>2, <2>4, <2>6
    <2>8. (\A p \in Requests : /\ Issued(recoveryReq[p].key)
                              /\ \A k \in recoveryReq[p].before : Issued(k))'
      <3>1. \A p \in Requests : recoveryReq[p].before \subseteq Recovery!Key
                               /\ recoveryReq[p].key \in Recovery!Key
        BY DEF Recovery!Request, Recovery!Key
      <3> HIDE DEF Issued
      <3> QED
        BY <2>3, <2>6, <3>1
    <2>9. IssuedInv'
      BY <2>1, <2>4, <2>6, <2>7, <2>8
    <2>10. KnownInv'
      BY <2>1, <2>2, <2>3
    <2>11. Recovery!SpentOnce' /\ Recovery!EarlierSessionsGone'
      <3>1. /\ \A i \in DOMAIN changes : changes[i] \notin new
            /\ \A p \in Requests : recoveryReq[p].key \notin new
        <4> HIDE DEF Issued
        <4> QED
          BY <2>2
      <3>2. \A p \in Requests : /\ recoveryReq'[p].pc = "set" => recoveryReq[p].pc = "set"
                                /\ recoveryReq'[p].pc = "recovered" => recoveryReq[p].pc = "recovered"
        BY <2>3
      <3>3. Recovery!SpentOnce'
        BY <2>1, <2>3, <3>1, <3>2
      <3>4. Recovery!EarlierSessionsGone'
        BY <2>1, <2>3, <3>2
      <3> QED
        BY <3>3, <3>4
    <2> QED
      BY <2>5, <2>9, <2>10, <2>11
  <1>6. ASSUME Recovery!RequestReset
        PROVE  RecoveryInv'
    <2>0. PICK new : new = [kind |-> "link", batch |-> issued.links + 1, nr |-> 0]
      OBVIOUS
    <2>1. /\ issued' = [issued EXCEPT !.links = issued.links + 1]
          /\ unused' = unused \cup {new} /\ issued.links + 1 \in 1 .. MaxLinks
          /\ UNCHANGED <<lapsed, changes, sessions, recoveryReq>>
      BY <1>6, <2>0 DEF Recovery!RequestReset
    <2>2. new \in Recovery!Key /\ new.kind = "link" /\ new.batch = issued.links + 1 /\ ~Issued(new)
      BY <2>0, <2>1 DEF Recovery!Key, Recovery!Link
    <2>3. issued' \in [batches: 1..MaxBatches, links: 0..MaxLinks, sessions: 1..MaxSessions]
          /\ issued'.batches = issued.batches /\ issued'.links = issued.links + 1
          /\ issued'.sessions = issued.sessions
      BY <2>1
    <2>4. Recovery!TypeOK'
      BY <2>1, <2>2, <2>3
    <2>5. \A k \in Recovery!Key : Issued(k) => Issued(k)'
      BY <2>3 DEF Recovery!Key, Recovery!Code, Recovery!Link
    <2>6. IssuedInv'
      <3>1. /\ Issued(new)' /\ new \in Recovery!Key
            /\ \A p \in Requests : recoveryReq[p].before \subseteq Recovery!Key
                                   /\ recoveryReq[p].key \in Recovery!Key
        BY <2>2, <2>3 DEF Recovery!Key
      <3>2. (\A s \in sessions : s.id <= issued.sessions)'
        BY <2>1, <2>3
      <3>3. (\A k \in unused : Issued(k))'
        BY <2>1, <2>5, <3>1
      <3>4. (\A i \in DOMAIN changes : Issued(changes[i]))'
        BY <2>1, <2>5, <3>1
      <3> HIDE DEF Issued
      <3> QED
        BY <2>1, <2>5, <3>1, <3>2, <3>3, <3>4
    <2>7. KnownInv' /\ Recovery!SpentOnce' /\ Recovery!EarlierSessionsGone'
      BY <2>1, <2>2
    <2> QED
      BY <2>4, <2>6, <2>7
  <1>7. ASSUME NEW k \in unused, Recovery!LinkLapses(k)
        PROVE  RecoveryInv'
    BY <1>7 DEF Recovery!LinkLapses, Recovery!Key, Recovery!Code, Recovery!Link
  <1>8. ASSUME NEW r \in Requests, Recovery!Claim(r)
         PROVE  RecoveryInv'
    <2>1. CASE recoveryReq[r].key \notin unused
      BY <1>8, <2>1, RecoveryServes DEF Recovery!Claim, Recovery!End
    <2>2. CASE recoveryReq[r].key \in unused
      <3>1. /\ Recovery!Goto(r, "set") /\ recoveryReq[r].pc = "claim"
            /\ unused' = unused \ {recoveryReq[r].key}
            /\ UNCHANGED <<lapsed, changes, sessions, issued>>
        BY <1>8, <2>2 DEF Recovery!Claim
      <3>2. /\ recoveryReq' \in [Requests -> Recovery!Request]
            /\ \A p \in Requests : /\ recoveryReq'[p].key = recoveryReq[p].key
                                   /\ recoveryReq'[p].password = recoveryReq[p].password
                                   /\ recoveryReq'[p].before = recoveryReq[p].before
            /\ \A p \in Requests \ {r} : recoveryReq'[p] = recoveryReq[p]
            /\ recoveryReq'[r].pc = "set"
        BY <3>1, GotoType DEF Recovery!Steps
      <3> HIDE DEF Recovery!Request, Recovery!Steps
      <3>3. Recovery!TypeOK'
        BY <3>1, <3>2
      <3>4. IssuedInv' /\ KnownInv'
        BY <3>1, <3>2
      <3>5. Recovery!SpentOnce'
        BY <2>2, <3>1, <3>2
      <3>6. Recovery!EarlierSessionsGone'
        BY <3>1, <3>2
      <3> QED
        BY <3>3, <3>4, <3>5, <3>6
    <2> QED
      BY <2>1, <2>2
  <1>9. ASSUME NEW r \in Requests, Recovery!SetPassword(r)
         PROVE  RecoveryInv'
    BY <1>9 DEF Recovery!SetPassword
  <1>10. ASSUME NEW r \in Requests, Recovery!DeleteSessions(r)
         PROVE  RecoveryInv'
    BY <1>10 DEF Recovery!DeleteSessions, Recovery!Goto
  <1>11. ASSUME NEW r \in Requests, Recovery!Answer(r)
         PROVE  RecoveryInv'
    BY <1>11 DEF Recovery!Answer, Recovery!End
  <1>12. CASE UNCHANGED Recovery!vars
    BY <1>12 DEF Recovery!vars
  <1> QED
    BY <1>1, <1>2, <1>3, <1>4, <1>5, <1>6, <1>7, <1>8, <1>9, <1>10, <1>11, <1>12
       DEF Recovery!Next, Recovery!Step

(* The inductive invariant of the ways back into an account. *)
THEOREM RecoveryInvHolds == DesktopSpec => [](part = "recovery" => RecoveryInv)
  <1>1. DesktopInit => (part = "recovery" => RecoveryInv)
    BY RecoveryInit DEF DesktopInit
  <1>2. (part = "recovery" => RecoveryInv) /\ [DesktopNext]_desktopVars
          => (part = "recovery" => RecoveryInv)'
    BY PartStep, RecoveryStep
  <1> QED
    BY <1>1, <1>2, PTL DEF DesktopSpec

(* A code or a link changes the password once, however many requests present it    *)
(* (identity/src/routes.ts: UPDATE ... WHERE usedAt IS NULL RETURNING id).         *)
THEOREM SpentOnceHolds == DesktopSpec => []SpentOnce
  <1>1. (part = "recovery" => RecoveryInv) => SpentOnce
    BY DEF SpentOnce, RecoveryInv
  <1> QED
    BY RecoveryInvHolds, <1>1, PTL

(* Whoever set a password, and is told so, has ended every session begun before it;  *)
(* whoever is shown a new set of codes has ended those there were.                 *)
THEOREM OldAccessEndsHolds == DesktopSpec => []OldAccessEnds
  <1>1. (part = "recovery" => RecoveryInv) => OldAccessEnds
    BY DEF OldAccessEnds, RecoveryInv, KnownInv, Recovery!PreviousCodesGone
  <1> QED
    BY RecoveryInvHolds, <1>1, PTL

-------------------------------------------------------------------------------
(* ProviderSignIn *)

(* Whoever p is, they can sign in to the account of this number, if there is one. *)
HeldBy(id, p) ==
  id <= Cardinality(accounts) /\ \A a \in accounts : a.id = id => p \in SignIn!Holders(a)

(* Accounts are numbered in turn, so that a new one is none that anything refers to. *)
NumberedInv == IsFiniteSet(accounts) /\ \A a \in accounts : a.id <= Cardinality(accounts)

(* Whatever refers to an account stands on somebody who can sign in to it. *)
RefersOwn(q) == HeldBy(q.link, q.as) /\ HeldBy(q.found, q.as)
CookiesOwn ==
  \A h \in SignIn!Hosts, u \in Servers : HeldBy(cookie[h][u].account, cookie[h][u].as)
IdentitiesOwn == \A u \in Servers, p \in Providers : HeldBy(identities[<<u, p>>], u)
AttemptsOwn == \A a \in attempts : HeldBy(a.link, a.as)
HandoffsOwn == \A c \in handoffs : HeldBy(c.account, c.as)
RequestsOwn == \A r \in Requests : RefersOwn(signInReq[r])
OwnInv == CookiesOwn /\ IdentitiesOwn /\ AttemptsOwn /\ HandoffsOwn /\ RequestsOwn

(* What a request knows by the step it is at: one that goes by the provider's answer  *)
(* stands on the person the answer is about.                                       *)
CallbackSteps ==
  {"token", "link", "identity", "email", "decide", "account", "bind", "touch", "open"}
Knows(q) ==
  /\ q.pc # "idle" => q.browser \in Servers
  /\ q.pc \in CallbackSteps => q.provider \in Providers /\ q.person \in Servers
  /\ q.pc \in CallbackSteps /\ (q.pc \in {"token", "link"} => q.link = 0) => q.as = q.person
  /\ q.verified = TRUE => q.email \in Emails
  /\ q.pc = "account" => q.verified = TRUE

SignInInv ==
  /\ SignIn!TypeOK /\ NumberedInv /\ OwnInv
  /\ \A r \in Requests : Knows(signInReq[r])

LEMMA SignInBounds ==
  MaxAccounts \in Nat /\ MaxAttempts \in Nat /\ MaxCodes \in Nat /\ MaxFaults \in Nat
  BY PartsAssumption DEF SignIn!ProviderAssumption

LEMMA NoSessionType ==
  /\ SignIn!NoSession \in SignIn!Session
  /\ SignIn!NoSession.account = 0 /\ SignIn!NoSession.as = SignIn!Unset
  BY SignInBounds DEF SignIn!NoSession, SignIn!Session, SignIn!Ids, SignIn!People

LEMMA IdleSignIn ==
  /\ SignIn!Idle \in SignIn!Request /\ SignIn!Idle.pc = "idle" /\ SignIn!Idle.verified = FALSE
  /\ SignIn!Idle.link = 0 /\ SignIn!Idle.found = 0 /\ SignIn!Idle.as = SignIn!Unset
  BY SignInBounds DEF SignIn!Idle, SignIn!Request, SignIn!Steps, SignIn!Ids, SignIn!Unset, SignIn!People

(* No account has the number 0, so whoever refers to it refers to none. *)
LEMMA NoAccount ==
  ASSUME SignIn!TypeOK, NumberedInv, NEW p
  PROVE  HeldBy(0, p)
  <1>1. Cardinality(accounts) \in Nat
    BY FS_CardinalityType DEF NumberedInv
  <1>2. \A a \in accounts : a.id # 0
    BY SignInBounds DEF SignIn!TypeOK, SignIn!Account
  <1> QED
    BY <1>1, <1>2 DEF HeldBy

LEMMA IdleKnows ==
  ASSUME SignIn!TypeOK, NumberedInv
  PROVE  RefersOwn(SignIn!Idle) /\ Knows(SignIn!Idle)
  BY IdleSignIn, NoAccount DEF RefersOwn, Knows, CallbackSteps

LEMMA SignInInit == SignIn!Init => SignInInv
  <1> SUFFICES ASSUME SignIn!Init
               PROVE  SignInInv
    OBVIOUS
  <1>1. signInReq \in [Requests -> SignIn!Request]
    BY IdleSignIn DEF SignIn!Init
  <1>2. /\ identities \in [SignIn!ThirdParty -> SignIn!Ids]
        /\ cookie \in [SignIn!Hosts -> [Servers -> SignIn!Session]]
    BY SignInBounds, NoSessionType DEF SignIn!Init, SignIn!Ids
  <1>3. begun \in [attempts : 0 .. MaxAttempts, codes : 0 .. MaxCodes] /\ faults \in 0 .. MaxFaults
    BY SignInBounds DEF SignIn!Init
  <1>4. SignIn!TypeOK
    BY <1>1, <1>2, <1>3 DEF SignIn!Init, SignIn!TypeOK
  <1>5. NumberedInv
    BY FS_EmptySet DEF SignIn!Init, NumberedInv
  <1>6. OwnInv
    <2>1. \A u \in Servers : /\ \A h \in SignIn!Hosts : cookie[h][u].account = 0
                             /\ \A p \in Providers : identities[<<u, p>>] = 0
      BY NoSessionType DEF SignIn!Init, SignIn!ThirdParty
    <2>2. \A r \in Requests : signInReq[r] = SignIn!Idle
      BY DEF SignIn!Init
    <2>3. attempts = {} /\ handoffs = {}
      BY DEF SignIn!Init
    <2> QED
      BY <1>4, <1>5, <2>1, <2>2, <2>3, NoAccount, IdleKnows
         DEF OwnInv, CookiesOwn, IdentitiesOwn, AttemptsOwn, HandoffsOwn, RequestsOwn
  <1>7. \A r \in Requests : Knows(signInReq[r])
    BY <1>4, <1>5, IdleKnows DEF SignIn!Init
  <1> QED
    BY <1>4, <1>5, <1>6, <1>7 DEF SignInInv

(* The module FiniteSets as ProviderSignIn has it. *)
LEMMA SameCardinality == ASSUME NEW S PROVE SignIn!Cardinality(S) = Cardinality(S)
  BY DEF SignIn!Cardinality, Cardinality, SignIn!IsFiniteSet, IsFiniteSet

(* Neither accounts nor bindings change: what matters is what refers to them. *)
LEMMA SameAccounts ==
  ASSUME SignInInv, UNCHANGED <<accounts, identities>>
  PROVE  /\ NumberedInv' /\ IdentitiesOwn'
         /\ identities' \in [SignIn!ThirdParty -> SignIn!Ids]
         /\ \A id, p : HeldBy(id, p)' <=> HeldBy(id, p)
         /\ \A q : RefersOwn(q)' <=> RefersOwn(q)
  BY DEF SignInInv, SignIn!TypeOK, NumberedInv, OwnInv, IdentitiesOwn, HeldBy, RefersOwn, SignIn!Holders

(* A new account has the next number, and whoever it is for holds it. *)
LEMMA NewAccountStep ==
  ASSUME SignInInv, NEW n, n = Cardinality(accounts), NEW e \in Emails, NEW password \in BOOLEAN, NEW u \in Servers,
         n < MaxAccounts, ~SignIn!Used(e), UNCHANGED identities,
         accounts' = accounts \cup {SignIn!NewAccount(e, password, u)}
  PROVE  /\ NumberedInv'
         /\ (accounts \subseteq SignIn!Account /\ \A a, b \in accounts : a # b => a.id # b.id /\ a.email # b.email)'
         /\ \A id, p : HeldBy(id, p) /\ id \in Nat => HeldBy(id, p)'
         /\ HeldBy(n + 1, u)' /\ n + 1 \in 1 .. MaxAccounts
  <1>1. PICK new : new = SignIn!NewAccount(e, password, u)
    OBVIOUS
  <1>2. n \in Nat /\ IsFiniteSet(accounts) /\ \A a \in accounts : a.id <= n
    BY FS_CardinalityType DEF SignInInv, NumberedInv
  <1>3. /\ new = [id |-> n + 1, email |-> e, password |-> password, owner |-> u]
        /\ new.id = n + 1 /\ new.email = e /\ new.owner = u
    <2>1. Cardinality(accounts) + 1 = n + 1
      OBVIOUS
    <2>2. new = [id |-> Cardinality(accounts) + 1, email |-> e, password |-> password, owner |-> u]
      BY <1>1, SameCardinality, Zenon DEF SignIn!NewAccount
    <2>3. new = [id |-> n + 1, email |-> e, password |-> password, owner |-> u]
      BY <2>1, <2>2
    <2> QED
      BY <2>3
  <1>4. accounts \subseteq SignIn!Account /\ \A a, b \in accounts : a # b => a.id # b.id /\ a.email # b.email
    BY DEF SignInInv, SignIn!TypeOK
  <1>5. n + 1 \in 1 .. MaxAccounts
    BY <1>2, SignInBounds
  <1>6. new \in SignIn!Account
    BY <1>3, <1>5 DEF SignIn!Account
  <1>7. \A a \in accounts : a.id \in Nat /\ a.id # n + 1 /\ a.email # e
    BY <1>2, <1>4, SignInBounds DEF SignIn!Account, SignIn!Used
  <1>8. new \notin accounts
    BY <1>3, <1>7
  <1>9. accounts' = accounts \cup {new} /\ IsFiniteSet(accounts') /\ Cardinality(accounts') = n + 1
    BY <1>1, <1>2, <1>8, FS_AddElement
  <1>10. NumberedInv'
    <2>1. \A a \in accounts' : a.id <= n + 1
      BY <1>2, <1>3, <1>7, <1>9
    <2> QED
      BY <1>9, <2>1 DEF NumberedInv
  <1>11. (accounts \subseteq SignIn!Account /\ \A a, b \in accounts : a # b => a.id # b.id /\ a.email # b.email)'
    BY <1>3, <1>4, <1>6, <1>7, <1>9
  <1>12. \A a : SignIn!Holders(a)' = SignIn!Holders(a) /\ a.owner \in SignIn!Holders(a)
    BY DEF SignIn!Holders
  <1>13. ASSUME NEW id \in Nat, NEW p, HeldBy(id, p)
         PROVE  HeldBy(id, p)'
    BY <1>2, <1>3, <1>9, <1>12, <1>13 DEF HeldBy
  <1>14. HeldBy(n + 1, u)'
    BY <1>2, <1>3, <1>7, <1>9, <1>12 DEF HeldBy
  <1> QED
    BY <1>5, <1>10, <1>11, <1>13, <1>14

(* Who could sign in to an account still can, so what a step leaves alone still      *)
(* refers to accounts of the people it stands on.                                 *)
LEMMA OwnStays ==
  ASSUME SignInInv, \A id, p : HeldBy(id, p) /\ id \in Nat => HeldBy(id, p)'
  PROVE  /\ UNCHANGED cookie => CookiesOwn'
         /\ UNCHANGED identities => IdentitiesOwn'
         /\ attempts' \subseteq attempts => AttemptsOwn'
         /\ handoffs' \subseteq handoffs => HandoffsOwn'
         /\ \A q \in SignIn!Request : RefersOwn(q) => RefersOwn(q)'
  <1>1. SignIn!Ids \subseteq Nat
    BY SignInBounds DEF SignIn!Ids
  <1>2. ASSUME UNCHANGED cookie
        PROVE  CookiesOwn'
    <2>1. SUFFICES ASSUME NEW h \in SignIn!Hosts, NEW u \in Servers
                   PROVE  HeldBy(cookie[h][u].account, cookie[h][u].as)'
      BY DEF CookiesOwn
    <2>2. PICK s : s = cookie[h][u]
      OBVIOUS
    <2>3. s.account \in Nat /\ HeldBy(s.account, s.as)
      BY <1>1, <2>2 DEF SignInInv, SignIn!TypeOK, SignIn!Session, OwnInv, CookiesOwn
    <2>4. HeldBy(s.account, s.as)' /\ cookie'[h][u] = s
      BY <1>2, <2>2, <2>3
    <2> QED
      BY <2>4 DEF HeldBy
  <1>3. ASSUME UNCHANGED identities
        PROVE  IdentitiesOwn'
    <2>1. SUFFICES ASSUME NEW u \in Servers, NEW p \in Providers
                   PROVE  HeldBy(identities[<<u, p>>], u)'
      BY DEF IdentitiesOwn
    <2>2. PICK id : id = identities[<<u, p>>]
      OBVIOUS
    <2>3. id \in Nat /\ HeldBy(id, u)
      BY <1>1, <2>2 DEF SignInInv, SignIn!TypeOK, SignIn!ThirdParty, OwnInv, IdentitiesOwn
    <2>4. HeldBy(id, u)' /\ identities'[<<u, p>>] = id
      BY <1>3, <2>2, <2>3
    <2> QED
      BY <2>4 DEF HeldBy
  <1>4. ASSUME attempts' \subseteq attempts
        PROVE  AttemptsOwn'
    <2>1. ASSUME NEW a \in attempts
          PROVE  HeldBy(a.link, a.as)'
      <3>1. a.link \in Nat /\ HeldBy(a.link, a.as)
        BY <1>1 DEF SignInInv, SignIn!TypeOK, SignIn!Attempt, OwnInv, AttemptsOwn
      <3> QED
        BY <3>1
    <2> QED
      BY <1>4, <2>1 DEF AttemptsOwn
  <1>5. ASSUME handoffs' \subseteq handoffs
        PROVE  HandoffsOwn'
    <2>1. ASSUME NEW c \in handoffs
          PROVE  HeldBy(c.account, c.as)'
      <3>1. c.account \in Nat /\ HeldBy(c.account, c.as)
        BY <1>1 DEF SignInInv, SignIn!TypeOK, SignIn!Handoff, OwnInv, HandoffsOwn
      <3> QED
        BY <3>1
    <2> QED
      BY <1>5, <2>1 DEF HandoffsOwn
  <1>6. ASSUME NEW q \in SignIn!Request, RefersOwn(q)
        PROVE  RefersOwn(q)'
    <2>1. q.link \in Nat /\ q.found \in Nat /\ HeldBy(q.link, q.as) /\ HeldBy(q.found, q.as)
      BY <1>1, <1>6 DEF SignIn!Request, RefersOwn
    <2>2. HeldBy(q.link, q.as)' /\ HeldBy(q.found, q.as)'
      BY <2>1
    <2> QED
      BY <2>2 DEF RefersOwn
  <1> QED
    BY <1>2, <1>3, <1>4, <1>5, <1>6

(* A step of one request; accounts stay as they are. *)
LEMMA SignInRequestStep ==
  ASSUME SignInInv, NEW r \in Requests, NEW q \in SignIn!Request,
         signInReq' = [signInReq EXCEPT ![r] = q], RefersOwn(q)', Knows(q),
         UNCHANGED <<accounts, begun>>, NumberedInv',
         \A id, p : HeldBy(id, p) /\ id \in Nat => HeldBy(id, p)',
         identities' \in [SignIn!ThirdParty -> SignIn!Ids], IdentitiesOwn',
         attempts' \subseteq attempts, handoffs' \subseteq handoffs,
         cookie' \in [SignIn!Hosts -> [Servers -> SignIn!Session]], CookiesOwn',
         faults' \in 0 .. MaxFaults
  PROVE  SignInInv'
  <1>1. SignIn!TypeOK'
    BY DEF SignInInv, SignIn!TypeOK
  <1>2. \A p \in Requests : signInReq'[p] = IF p = r THEN q ELSE signInReq[p]
    BY DEF SignInInv, SignIn!TypeOK
  <1>3. (\A p \in Requests : Knows(signInReq[p]))'
    BY <1>2 DEF SignInInv, Knows
  <1>4. RequestsOwn'
    <2>1. SUFFICES ASSUME NEW p \in Requests
                   PROVE  RefersOwn(signInReq[p])'
      BY DEF RequestsOwn
    <2>2. PICK now : now = signInReq'[p]
      OBVIOUS
    <2>3. CASE p = r
      <3>1. now = q
        BY <1>2, <2>2, <2>3
      <3> QED
        BY <2>2, <3>1 DEF RefersOwn, HeldBy
    <2>4. CASE p # r
      <3>1. now = signInReq[p]
        BY <1>2, <2>2, <2>4
      <3>2. now \in SignIn!Request /\ RefersOwn(now)
        BY <3>1 DEF SignInInv, SignIn!TypeOK, OwnInv, RequestsOwn
      <3>3. RefersOwn(now)'
        BY <3>2, OwnStays
      <3> QED
        BY <2>2, <3>3 DEF RefersOwn, HeldBy
    <2> QED
      BY <2>3, <2>4
  <1>5. OwnInv'
    BY <1>4, OwnStays DEF OwnInv
  <1> QED
    BY <1>1, <1>3, <1>5 DEF SignInInv

(* The same when no account and no binding changes. *)
LEMMA SignInPlainStep ==
  ASSUME SignInInv, NEW r \in Requests, NEW q \in SignIn!Request,
         signInReq' = [signInReq EXCEPT ![r] = q], RefersOwn(q), Knows(q),
         UNCHANGED <<accounts, identities, begun>>,
         attempts' \subseteq attempts, handoffs' \subseteq handoffs,
         cookie' \in [SignIn!Hosts -> [Servers -> SignIn!Session]], CookiesOwn',
         faults' \in 0 .. MaxFaults
  PROVE  SignInInv'
  BY SameAccounts, SignInRequestStep

(* What refers to accounts before a step. *)
LEMMA SignInTypes ==
  ASSUME SignInInv
  PROVE  /\ SignIn!TypeOK /\ NumberedInv
         /\ \A r \in Requests : signInReq[r] \in SignIn!Request /\ RefersOwn(signInReq[r]) /\ Knows(signInReq[r])
         /\ identities \in [SignIn!ThirdParty -> SignIn!Ids]
         /\ \A u \in Servers, p \in Providers : HeldBy(identities[<<u, p>>], u)
         /\ cookie \in [SignIn!Hosts -> [Servers -> SignIn!Session]]
         /\ \A h \in SignIn!Hosts, u \in Servers : HeldBy(cookie[h][u].account, cookie[h][u].as)
         /\ faults \in 0 .. MaxFaults
  BY DEF SignInInv, SignIn!TypeOK, OwnInv, CookiesOwn, IdentitiesOwn, RequestsOwn

(* Cookies stay, and so do accounts and bindings. *)
LEMMA SameCookies ==
  ASSUME SignInInv, UNCHANGED <<accounts, identities, cookie>>
  PROVE  CookiesOwn' /\ cookie' \in [SignIn!Hosts -> [Servers -> SignIn!Session]]
  BY SameAccounts, OwnStays, SignInTypes

(* A session, or its end. *)
LEMMA SetSessionType ==
  ASSUME SignInInv, NEW h \in SignIn!Hosts, NEW u \in Servers, NEW s \in SignIn!Session,
         HeldBy(s.account, s.as), cookie' = [cookie EXCEPT ![h][u] = s],
         UNCHANGED <<accounts, identities>>
  PROVE  cookie' \in [SignIn!Hosts -> [Servers -> SignIn!Session]] /\ CookiesOwn'
  <1>1. cookie' \in [SignIn!Hosts -> [Servers -> SignIn!Session]]
    BY SignInTypes
  <1>2. \A g \in SignIn!Hosts, p \in Servers :
          cookie'[g][p] = IF g = h /\ p = u THEN s ELSE cookie[g][p]
    BY SignInTypes
  <1>3. \A g \in SignIn!Hosts, p \in Servers : HeldBy(cookie'[g][p].account, cookie'[g][p].as)
    BY <1>2, SignInTypes
  <1>4. CookiesOwn'
    BY <1>3, SameAccounts DEF CookiesOwn
  <1> QED
    BY <1>1, <1>4

LEMMA DropSessionType ==
  ASSUME SignInInv, NEW h \in SignIn!Hosts, NEW u \in Servers, SignIn!DropSession(h, u),
         UNCHANGED <<accounts, identities>>
  PROVE  cookie' \in [SignIn!Hosts -> [Servers -> SignIn!Session]] /\ CookiesOwn'
  <1>1. HeldBy(SignIn!NoSession.account, SignIn!NoSession.as)
    BY NoSessionType, NoAccount, SignInTypes
  <1> QED
    BY <1>1, NoSessionType, SetSessionType DEF SignIn!DropSession

(* A third-party account that was bound to none is bound to an account: whoever held   *)
(* any account still does, and the person it is of holds that one.                 *)
LEMMA BindType ==
  ASSUME SignInInv, NEW r \in Requests, signInReq[r].person \in Servers, signInReq[r].provider \in Providers,
         NEW id \in SignIn!Ids, NEW holder, HeldBy(id, holder),
         SignIn!Bind(r, id) \/ UNCHANGED identities, UNCHANGED <<accounts, cookie>>
  PROVE  /\ identities' \in [SignIn!ThirdParty -> SignIn!Ids] /\ IdentitiesOwn' /\ NumberedInv'
         /\ \A n, p : HeldBy(n, p) /\ n \in Nat => HeldBy(n, p)'
         /\ CookiesOwn' /\ cookie' \in [SignIn!Hosts -> [Servers -> SignIn!Session]]
  <1>1. CASE UNCHANGED identities
    BY <1>1, SameAccounts, SameCookies
  <1>2. CASE SignIn!Bind(r, id)
    <2>1. PICK t : t = <<signInReq[r].person, signInReq[r].provider>>
      OBVIOUS
    <2>2. /\ t \in SignIn!ThirdParty /\ t[1] = signInReq[r].person
          /\ identities[t] = 0 /\ identities' = [identities EXCEPT ![t] = id]
      BY <1>2, <2>1 DEF SignIn!Bind, SignIn!Who, SignIn!ThirdParty
    <2>3. \A s \in SignIn!ThirdParty : identities'[s] = IF s = t THEN id ELSE identities[s]
      BY <2>2, SignInTypes
    <2>4. identities' \in [SignIn!ThirdParty -> SignIn!Ids]
      BY <2>2, SignInTypes
    <2>5. \A a \in accounts : a.id # 0
      BY SignInBounds, SignInTypes DEF SignIn!TypeOK, SignIn!Account
    <2>6. ASSUME NEW a \in accounts, NEW p \in SignIn!Holders(a)
          PROVE  p \in SignIn!Holders(a)'
      BY <2>2, <2>3, <2>5 DEF SignIn!Holders
    <2>7. ASSUME NEW a \in accounts, a.id = id
          PROVE  t[1] \in SignIn!Holders(a)'
      BY <2>2, <2>3, <2>7 DEF SignIn!Holders
    <2>8. \A n, p : HeldBy(n, p) => HeldBy(n, p)'
      BY <2>6 DEF HeldBy
    <2>9. HeldBy(id, t[1])'
      BY <2>7 DEF HeldBy
    <2>10. IdentitiesOwn'
      <3>1. SUFFICES ASSUME NEW u \in Servers, NEW p \in Providers
                     PROVE  HeldBy(identities[<<u, p>>], u)'
        BY DEF IdentitiesOwn
      <3>2. PICK s, n : s = <<u, p>> /\ n = identities'[s]
        OBVIOUS
      <3>3. s \in SignIn!ThirdParty /\ s[1] = u
        BY <3>2 DEF SignIn!ThirdParty
      <3>4. HeldBy(n, u)'
        <4>1. CASE s = t
          BY <2>3, <2>9, <3>2, <3>3, <4>1
        <4>2. CASE s # t
          <5>1. n = identities[<<u, p>>]
            BY <2>3, <3>2, <3>3, <4>2
          <5>2. HeldBy(n, u)
            BY <5>1, SignInTypes
          <5> QED
            BY <2>8, <5>2
        <4> QED
          BY <4>1, <4>2
      <3> QED
        BY <3>2, <3>4 DEF HeldBy
    <2>11. NumberedInv'
      BY DEF SignInInv, NumberedInv
    <2> QED
      BY <2>4, <2>8, <2>10, <2>11, OwnStays, SignInTypes
  <1> QED
    BY <1>1, <1>2

(* A request that ends, or begins. *)
LEMMA EndType ==
  ASSUME SignInInv, NEW r \in Requests, SignIn!End(r)
  PROVE  /\ signInReq' = [signInReq EXCEPT ![r] = SignIn!Idle] /\ SignIn!Idle \in SignIn!Request
         /\ RefersOwn(SignIn!Idle) /\ Knows(SignIn!Idle)
  BY IdleSignIn, IdleKnows DEF SignIn!End, SignInInv

(* The steps of a request that read what it then goes on with. *)
LEMMA SignInReads ==
  ASSUME SignInInv, NEW r \in Requests,
         \/ SignIn!Profile(r) \/ SignIn!ByIdentity(r) \/ SignIn!ByEmail(r) \/ SignIn!Touch(r)
         \/ SignIn!Decide(r) \/ SignIn!Fails(r)
  PROVE  SignInInv'
  <1> DEFINE old == signInReq[r]
  <1>0. old \in SignIn!Request /\ RefersOwn(old) /\ Knows(old)
    BY SignInTypes
  <1>1. UNCHANGED <<accounts, identities, attempts, handoffs, begun, cookie>>
    BY DEF SignIn!Profile, SignIn!ByIdentity, SignIn!ByEmail, SignIn!Touch, SignIn!Decide, SignIn!Fails
  <1>2. faults' \in 0 .. MaxFaults
    <2>1. UNCHANGED faults \/ (faults < MaxFaults /\ faults' = faults + 1)
      BY DEF SignIn!Profile, SignIn!ByIdentity, SignIn!ByEmail, SignIn!Touch, SignIn!Decide, SignIn!Fails,
             SignIn!Fault
    <2>2. faults \in 0 .. MaxFaults
      BY SignInTypes
    <2> QED
      BY <2>1, <2>2, SignInBounds
  <1>3. ASSUME NEW q \in SignIn!Request, signInReq' = [signInReq EXCEPT ![r] = q], RefersOwn(q), Knows(q)
        PROVE  SignInInv'
    BY <1>1, <1>2, <1>3, SameCookies, SignInPlainStep
  <1>4. CASE SignIn!Profile(r)
    <2>1. PICK f \in SignIn!Profiles(old.provider), pc \in {"link", "identity"} :
            (pc = "link" <=> old.link # 0) /\ signInReq' = [signInReq EXCEPT ![r] = [old EXCEPT !.pc = pc, !.email = f.email, !.verified = f.verified]]
      BY <1>4 DEF SignIn!Profile
    <2>2. old.pc = "token" /\ (pc = "link" <=> old.link # 0)
      BY <1>4, <2>1 DEF SignIn!Profile
    <2>3. /\ f.email \in Emails \cup {NoEmail} /\ f.verified \in BOOLEAN
          /\ f.verified = TRUE => f.email \in Emails
      BY <2>1 DEF SignIn!Profiles
    <2> DEFINE q == [old EXCEPT !.pc = pc, !.email = f.email, !.verified = f.verified]
    <2>4. /\ q \in SignIn!Request /\ q.browser = old.browser /\ q.person = old.person
          /\ q.as = old.as /\ q.provider = old.provider /\ q.link = old.link
          /\ q.found = old.found /\ q.pc = pc /\ q.email = f.email /\ q.verified = f.verified
      BY <1>0, <2>3 DEF SignIn!Request, SignIn!Steps
    <2> HIDE DEF q, old
    <2>5. RefersOwn(q) /\ Knows(q)
      BY <1>0, <2>2, <2>3, <2>4 DEF RefersOwn, Knows, CallbackSteps
    <2> QED
      BY <1>3, <2>1, <2>4, <2>5 DEF q
  <1>5. CASE SignIn!ByIdentity(r)
    <2> DEFINE q == [old EXCEPT !.pc = "email", !.found = identities[SignIn!Who(r)]]
    <2>1. old.pc = "identity" /\ signInReq' = [signInReq EXCEPT ![r] = q]
      BY <1>5 DEF SignIn!ByIdentity
    <2>2. old.person \in Servers /\ old.provider \in Providers /\ old.as = old.person
          /\ old.browser \in Servers
      BY <1>0, <2>1 DEF Knows, CallbackSteps
    <2>3. identities[SignIn!Who(r)] \in SignIn!Ids /\ HeldBy(identities[SignIn!Who(r)], old.as)
      BY <2>2, SignInTypes DEF SignIn!Who, SignIn!ThirdParty
    <2>4. /\ q \in SignIn!Request /\ q.browser = old.browser /\ q.person = old.person
          /\ q.as = old.as /\ q.provider = old.provider /\ q.link = old.link
          /\ q.found = identities[SignIn!Who(r)] /\ q.pc = "email" /\ q.email = old.email
          /\ q.verified = old.verified
      BY <1>0, <2>3 DEF SignIn!Request, SignIn!Steps
    <2> HIDE DEF q, old
    <2>5. RefersOwn(q) /\ Knows(q)
      BY <1>0, <2>2, <2>3, <2>4 DEF RefersOwn, Knows, CallbackSteps
    <2> QED
      BY <1>3, <2>1, <2>4, <2>5
  <1>6. CASE SignIn!ByEmail(r)
    <2>1. PICK clash \in BOOLEAN :
            signInReq' = [signInReq EXCEPT ![r] = [old EXCEPT !.pc = "decide", !.clash = clash]]
      BY <1>6 DEF SignIn!ByEmail, SignIn!Used
    <2> DEFINE q == [old EXCEPT !.pc = "decide", !.clash = clash]
    <2>2. old.pc = "email"
      BY <1>6 DEF SignIn!ByEmail
    <2>3. /\ q \in SignIn!Request /\ q.browser = old.browser /\ q.person = old.person
          /\ q.as = old.as /\ q.provider = old.provider /\ q.link = old.link
          /\ q.found = old.found /\ q.pc = "decide" /\ q.email = old.email /\ q.verified = old.verified
      BY <1>0, <2>1 DEF SignIn!Request, SignIn!Steps
    <2> HIDE DEF q, old
    <2>4. RefersOwn(q) /\ Knows(q)
      BY <1>0, <2>2, <2>3 DEF RefersOwn, Knows, CallbackSteps
    <2> QED
      BY <1>3, <2>1, <2>3, <2>4 DEF q
  <1>7. ASSUME NEW pc \in {"touch", "account", "open"}, old.pc \in {"decide", "touch"},
               pc = "account" => old.verified = TRUE,
               SignIn!Goto(r, pc)
        PROVE  SignInInv'
    <2> DEFINE q == [old EXCEPT !.pc = pc]
    <2>1. signInReq' = [signInReq EXCEPT ![r] = q]
      BY <1>7 DEF SignIn!Goto
    <2>2. /\ q \in SignIn!Request /\ q.browser = old.browser /\ q.person = old.person
          /\ q.as = old.as /\ q.provider = old.provider /\ q.link = old.link
          /\ q.found = old.found /\ q.pc = pc /\ q.email = old.email /\ q.verified = old.verified
      BY <1>0 DEF SignIn!Request, SignIn!Steps
    <2> HIDE DEF q, old
    <2>3. RefersOwn(q) /\ Knows(q)
      BY <1>0, <1>7, <2>2 DEF RefersOwn, Knows, CallbackSteps
    <2> QED
      BY <1>3, <2>1, <2>2, <2>3
  <1>8. CASE SignIn!End(r)
    BY <1>3, <1>8, EndType
  <1>9. CASE SignIn!Decide(r)
    <2>1. \/ SignIn!End(r) \/ SignIn!Goto(r, "touch")
          \/ SignIn!Goto(r, "account") /\ old.verified = TRUE
      BY <1>0, <1>9 DEF SignIn!Decide, SignIn!Request
    <2> QED
      BY <1>7, <1>8, <1>9, <2>1 DEF SignIn!Decide
  <1>10. CASE SignIn!Touch(r)
    BY <1>7, <1>10 DEF SignIn!Touch
  <1>11. CASE SignIn!Fails(r)
    BY <1>8, <1>11 DEF SignIn!Fails
  <1> QED
    BY <1>4, <1>5, <1>6, <1>9, <1>10, <1>11

(* The steps of a request that write: a row, or a session. *)
LEMMA SignInWrites ==
  ASSUME SignInInv, NEW r \in Requests,
         \/ SignIn!Link(r) \/ SignIn!InsertIdentity(r) \/ SignIn!InsertAccount(r)
         \/ SignIn!OpenSession(r) \/ SignIn!Cross(r) \/ SignIn!HubSignOut(r)
  PROVE  SignInInv'
  <1> DEFINE old == signInReq[r]
  <1>0. /\ old \in SignIn!Request /\ RefersOwn(old) /\ Knows(old)
        /\ old.found \in SignIn!Ids /\ old.link \in SignIn!Ids
        /\ HeldBy(old.found, old.as) /\ HeldBy(old.link, old.as)
    BY SignInTypes DEF SignIn!Request, RefersOwn
  <1>1. CASE SignIn!Link(r)
    <2>1. old.person \in Servers /\ old.provider \in Providers
      BY <1>0, <1>1 DEF SignIn!Link, Knows, CallbackSteps
    <2>2. SignIn!End(r) /\ (SignIn!Bind(r, old.link) \/ UNCHANGED identities)
          /\ UNCHANGED <<accounts, attempts, handoffs, begun, cookie, faults>>
      BY <1>1 DEF SignIn!Link
    <2>3. /\ identities' \in [SignIn!ThirdParty -> SignIn!Ids] /\ IdentitiesOwn' /\ NumberedInv'
          /\ \A n, p : HeldBy(n, p) /\ n \in Nat => HeldBy(n, p)'
          /\ CookiesOwn' /\ cookie' \in [SignIn!Hosts -> [Servers -> SignIn!Session]]
      BY <1>0, <2>1, <2>2, BindType
    <2>4. RefersOwn(SignIn!Idle)'
      BY <2>2, <2>3, EndType, OwnStays
    <2>5. faults' \in 0 .. MaxFaults
      BY <2>2, SignInTypes
    <2> QED
      BY <2>2, <2>3, <2>4, <2>5, EndType, SignInRequestStep
  <1>2. CASE SignIn!InsertIdentity(r)
    <2>1. old.person \in Servers /\ old.provider \in Providers /\ old.pc = "bind"
      BY <1>0, <1>2 DEF SignIn!InsertIdentity, Knows, CallbackSteps
    <2>2. /\ SignIn!End(r) \/ SignIn!Goto(r, "open")
          /\ SignIn!Bind(r, old.found) \/ UNCHANGED identities
          /\ UNCHANGED <<accounts, attempts, handoffs, begun, cookie, faults>>
      BY <1>2 DEF SignIn!InsertIdentity
    <2>3. PICK q \in SignIn!Request :
            RefersOwn(q) /\ Knows(q) /\ signInReq' = [signInReq EXCEPT ![r] = q]
      <3>1. CASE SignIn!End(r)
        BY <3>1, EndType
      <3>2. CASE SignIn!Goto(r, "open")
        <4>1. PICK q : q = [old EXCEPT !.pc = "open"]
          OBVIOUS
        <4>2. signInReq' = [signInReq EXCEPT ![r] = q]
          BY <3>2, <4>1 DEF SignIn!Goto
        <4>3. /\ q \in SignIn!Request /\ q.browser = old.browser /\ q.person = old.person
          /\ q.as = old.as /\ q.provider = old.provider /\ q.link = old.link
              /\ q.found = old.found /\ q.pc = "open" /\ q.email = old.email /\ q.verified = old.verified
          BY <1>0, <4>1 DEF SignIn!Request, SignIn!Steps
        <4> HIDE DEF old
        <4>4. RefersOwn(q) /\ Knows(q)
          BY <1>0, <2>1, <4>3 DEF RefersOwn, Knows, CallbackSteps
        <4> QED
          BY <4>2, <4>3, <4>4
      <3> QED
        BY <2>2, <3>1, <3>2
    <2>4. /\ identities' \in [SignIn!ThirdParty -> SignIn!Ids] /\ IdentitiesOwn' /\ NumberedInv'
          /\ \A n, p : HeldBy(n, p) /\ n \in Nat => HeldBy(n, p)'
          /\ CookiesOwn' /\ cookie' \in [SignIn!Hosts -> [Servers -> SignIn!Session]]
      BY <1>0, <2>1, <2>2, BindType
    <2>5. RefersOwn(q)'
      BY <2>3, <2>4, OwnStays
    <2>6. faults' \in 0 .. MaxFaults
      BY <2>2, SignInTypes
    <2> QED
      BY <2>2, <2>3, <2>4, <2>5, <2>6, SignInRequestStep
  <1>3. CASE SignIn!InsertAccount(r)
    <2>1. CASE SignIn!End(r) /\ UNCHANGED accounts
      <3>1. UNCHANGED <<accounts, identities, attempts, handoffs, begun, cookie, faults>>
        BY <1>3, <2>1 DEF SignIn!InsertAccount
      <3> QED
        BY <2>1, <3>1, EndType, SameCookies, SignInTypes, SignInPlainStep
    <2>2. CASE ~(SignIn!End(r) /\ UNCHANGED accounts)
      <3>1. PICK n, was : n = Cardinality(accounts) /\ was = old
        OBVIOUS
      <3>0. was \in SignIn!Request /\ RefersOwn(was) /\ Knows(was)
        BY <1>0, <3>1
      <3>2. PICK q : q = [was EXCEPT !.pc = "bind", !.found = n + 1]
        OBVIOUS
      <3>3. /\ was.pc = "account" /\ ~SignIn!Used(was.email) /\ n < MaxAccounts
            /\ accounts' = accounts \cup {SignIn!NewAccount(was.email, FALSE, was.person)}
            /\ signInReq' = [signInReq EXCEPT ![r] = q]
            /\ UNCHANGED <<identities, attempts, handoffs, begun, cookie, faults>>
        BY <1>3, <2>2, <3>1, <3>2, SameCardinality DEF SignIn!InsertAccount
      <3>4. was.person \in Servers /\ was.as = was.person /\ was.email \in Emails
        BY <3>0, <3>3 DEF Knows, CallbackSteps
      <3>5. /\ NumberedInv'
            /\ (accounts \subseteq SignIn!Account /\ \A a, b \in accounts : a # b => a.id # b.id /\ a.email # b.email)'
            /\ \A id, p : HeldBy(id, p) /\ id \in Nat => HeldBy(id, p)'
            /\ HeldBy(n + 1, was.person)' /\ n + 1 \in 1 .. MaxAccounts
        BY <3>1, <3>3, <3>4, NewAccountStep
      <3>6. /\ q \in SignIn!Request /\ q.browser = was.browser /\ q.person = was.person
            /\ q.as = was.as /\ q.provider = was.provider /\ q.link = was.link
            /\ q.found = n + 1 /\ q.pc = "bind" /\ q.email = was.email /\ q.verified = was.verified
        <4>1. n + 1 \in SignIn!Ids
          BY <3>5, SignInBounds DEF SignIn!Ids
        <4> QED
          BY <3>0, <3>2, <4>1 DEF SignIn!Request, SignIn!Steps
      <3>7. SignIn!TypeOK'
        BY <3>3, <3>5, <3>6 DEF SignInInv, SignIn!TypeOK
      <3>8. \A p \in Requests : signInReq'[p] = IF p = r THEN q ELSE signInReq[p]
        BY <3>3 DEF SignInInv, SignIn!TypeOK
      <3>9. RefersOwn(q)' /\ Knows(q)
        <4>1. was.link \in Nat /\ HeldBy(was.link, was.as)
          BY <3>0, SignInBounds DEF RefersOwn, SignIn!Request, SignIn!Ids
        <4>2. HeldBy(was.link, was.as)'
          BY <3>5, <4>1
        <4>3. PICK link, found, as : link = q.link /\ found = q.found /\ as = q.as
          OBVIOUS
        <4>4. HeldBy(link, as)' /\ HeldBy(found, as)'
          BY <3>4, <3>5, <3>6, <4>2, <4>3
        <4>5. RefersOwn(q)'
          BY <4>3, <4>4 DEF RefersOwn, HeldBy
        <4>6. Knows(q)
          BY <3>0, <3>3, <3>4, <3>6 DEF Knows, CallbackSteps
        <4> QED
          BY <4>5, <4>6
      <3>10. (\A p \in Requests : Knows(signInReq[p]))'
        BY <3>8, <3>9 DEF SignInInv, Knows
      <3>11. RequestsOwn'
        <4>1. SUFFICES ASSUME NEW p \in Requests
                       PROVE  RefersOwn(signInReq[p])'
          BY DEF RequestsOwn
        <4>2. PICK now : now = signInReq'[p]
          OBVIOUS
        <4>3. now = q \/ (now \in SignIn!Request /\ RefersOwn(now))
          BY <3>8, <4>2, SignInTypes
        <4>4. RefersOwn(now)'
          BY <3>5, <3>9, <4>3, OwnStays DEF RefersOwn, HeldBy
        <4> QED
          BY <4>2, <4>4 DEF RefersOwn, HeldBy
      <3>12. OwnInv'
        BY <3>3, <3>5, <3>11, OwnStays DEF OwnInv
      <3> QED
        BY <3>5, <3>7, <3>10, <3>12 DEF SignInInv
    <2> QED
      BY <2>1, <2>2
  <1>4. ASSUME NEW h \in SignIn!Hosts, old.pc # "idle", SignIn!SetSession(h, old.browser, old.found, old.as),
               SignIn!End(r), UNCHANGED <<accounts, identities, attempts, handoffs, begun, faults>>
        PROVE  SignInInv'
    <2>1. PICK s : s = [account |-> old.found, as |-> old.as]
      OBVIOUS
    <2>2. s \in SignIn!Session /\ s.account = old.found /\ s.as = old.as /\ old.browser \in Servers
      BY <1>0, <1>4, <2>1 DEF SignIn!Session, SignIn!Request, Knows
    <2>3. cookie' = [cookie EXCEPT ![h][old.browser] = s]
      BY <1>4, <2>1 DEF SignIn!SetSession
    <2>4. cookie' \in [SignIn!Hosts -> [Servers -> SignIn!Session]] /\ CookiesOwn'
      BY <1>0, <1>4, <2>2, <2>3, SetSessionType
    <2> QED
      BY <1>4, <2>4, EndType, SignInTypes, SignInPlainStep
  <1>5. CASE SignIn!OpenSession(r)
    BY <1>4, <1>5 DEF SignIn!OpenSession, SignIn!Hosts
  <1>6. CASE SignIn!Cross(r)
    BY <1>4, <1>6 DEF SignIn!Cross, SignIn!Hosts
  <1>7. CASE SignIn!HubSignOut(r)
    <2>1. /\ old.browser \in Servers /\ SignIn!DropSession("id", old.browser) /\ SignIn!End(r)
          /\ UNCHANGED <<accounts, identities, attempts, handoffs, begun, faults>>
      BY <1>0, <1>7 DEF SignIn!HubSignOut, Knows
    <2>2. cookie' \in [SignIn!Hosts -> [Servers -> SignIn!Session]] /\ CookiesOwn'
      BY <2>1, DropSessionType DEF SignIn!Hosts
    <2> QED
      BY <2>1, <2>2, EndType, SignInTypes, SignInPlainStep
  <1> QED
    BY <1>1, <1>2, <1>3, <1>5, <1>6, <1>7

(* Accounts and bindings stay; what refers to them is as it should be. *)
LEMMA SignInRefers ==
  ASSUME SignInInv, UNCHANGED <<accounts, identities, signInReq, faults>>,
         begun' \in [attempts : 0 .. MaxAttempts, codes : 0 .. MaxCodes],
         attempts' \subseteq SignIn!Attempt, \A a \in attempts' : HeldBy(a.link, a.as),
         handoffs' \subseteq SignIn!Handoff, \A c \in handoffs' : HeldBy(c.account, c.as),
         cookie' \in [SignIn!Hosts -> [Servers -> SignIn!Session]], CookiesOwn'
  PROVE  SignInInv'
  <1>1. SignIn!TypeOK'
    BY DEF SignInInv, SignIn!TypeOK
  <1>2. AttemptsOwn' /\ HandoffsOwn'
    BY SameAccounts DEF AttemptsOwn, HandoffsOwn
  <1>3. RequestsOwn' /\ (\A r \in Requests : Knows(signInReq[r]))'
    BY SameAccounts DEF SignInInv, OwnInv, RequestsOwn, Knows
  <1> QED
    BY <1>1, <1>2, <1>3, SameAccounts DEF SignInInv, OwnInv

LEMMA SignInStep ==
  ASSUME SignInInv, [SignIn!Next]_(SignIn!vars)
  PROVE  SignInInv'
  <1>0. /\ begun \in [attempts : 0 .. MaxAttempts, codes : 0 .. MaxCodes]
        /\ attempts \subseteq SignIn!Attempt /\ \A a \in attempts : HeldBy(a.link, a.as)
        /\ handoffs \subseteq SignIn!Handoff /\ \A c \in handoffs : HeldBy(c.account, c.as)
    BY DEF SignInInv, SignIn!TypeOK, OwnInv, AttemptsOwn, HandoffsOwn
  <1>1. ASSUME NEW u \in Servers, NEW e \in Emails, SignIn!Register(u, e)
        PROVE  SignInInv'
    <2>1. PICK n : n = Cardinality(accounts)
      OBVIOUS
    <2>2. PICK s : s = [account |-> n + 1, as |-> u]
      OBVIOUS
    <2>3. /\ n < MaxAccounts /\ ~SignIn!Used(e)
          /\ accounts' = accounts \cup {SignIn!NewAccount(e, TRUE, u)}
          /\ cookie' = [cookie EXCEPT !["id"][u] = s]
          /\ UNCHANGED <<identities, attempts, handoffs, begun, signInReq, faults>>
      BY <1>1, <2>1, <2>2, SameCardinality DEF SignIn!Register, SignIn!SetSession
    <2>4. /\ NumberedInv'
          /\ (accounts \subseteq SignIn!Account /\ \A a, b \in accounts : a # b => a.id # b.id /\ a.email # b.email)'
          /\ \A id, p : HeldBy(id, p) /\ id \in Nat => HeldBy(id, p)'
          /\ HeldBy(n + 1, u)' /\ n + 1 \in 1 .. MaxAccounts
      BY <2>1, <2>3, NewAccountStep
    <2>5. s \in SignIn!Session /\ s.account = n + 1 /\ s.as = u
      BY <2>2, <2>4, SignInBounds DEF SignIn!Session, SignIn!Ids, SignIn!People
    <2>6. cookie' \in [SignIn!Hosts -> [Servers -> SignIn!Session]]
      BY <2>3, <2>5, SignInTypes
    <2>7. CookiesOwn'
      <3>1. SUFFICES ASSUME NEW h \in SignIn!Hosts, NEW p \in Servers
                     PROVE  HeldBy(cookie[h][p].account, cookie[h][p].as)'
        BY DEF CookiesOwn
      <3>2. PICK now : now = cookie'[h][p]
        OBVIOUS
      <3>3. now = s \/ now = cookie[h][p]
        BY <2>3, <3>2, SignInTypes
      <3>4. PICK id, as : id = now.account /\ as = now.as
        OBVIOUS
      <3>5. HeldBy(id, as)'
        <4>1. CASE now = s
          BY <2>4, <2>5, <3>4, <4>1
        <4>2. CASE now = cookie[h][p]
          <5>1. id \in Nat /\ HeldBy(id, as)
            BY <3>4, <4>2, SignInBounds, SignInTypes DEF SignIn!Session, SignIn!Ids
          <5> QED
            BY <2>4, <5>1
        <4> QED
          BY <3>3, <4>1, <4>2
      <3> QED
        BY <3>2, <3>4, <3>5 DEF HeldBy
    <2>8. SignIn!TypeOK'
      BY <2>3, <2>4, <2>6 DEF SignInInv, SignIn!TypeOK
    <2>9. RequestsOwn'
      <3>1. SUFFICES ASSUME NEW r \in Requests
                     PROVE  RefersOwn(signInReq[r])'
        BY DEF RequestsOwn
      <3>2. PICK now : now = signInReq[r]
        OBVIOUS
      <3>3. RefersOwn(now)'
        BY <2>4, <3>2, SignInTypes, OwnStays
      <3> QED
        BY <2>3, <3>2, <3>3 DEF RefersOwn, HeldBy
    <2>10. OwnInv'
      BY <2>3, <2>4, <2>7, <2>9, OwnStays DEF OwnInv
    <2>11. (\A r \in Requests : Knows(signInReq[r]))'
      BY <2>3 DEF SignInInv, Knows
    <2> QED
      BY <2>4, <2>8, <2>10, <2>11 DEF SignInInv
  <1>2. ASSUME NEW u \in Servers,
               SignIn!Login(u) \/ SignIn!Logout(u)
        PROVE  SignInInv'
    <2>1. UNCHANGED <<accounts, identities, attempts, handoffs, begun, signInReq, faults>>
      BY <1>2 DEF SignIn!Login, SignIn!Logout
    <2>2. cookie' \in [SignIn!Hosts -> [Servers -> SignIn!Session]] /\ CookiesOwn'
      <3>1. CASE SignIn!Login(u)
        <4>1. PICK a \in accounts : a.owner = u /\ SignIn!SetSession("id", u, a.id, u)
          BY <3>1 DEF SignIn!Login
        <4>2. PICK s : s = [account |-> a.id, as |-> u]
          OBVIOUS
        <4>3. a.id \in SignIn!Ids /\ HeldBy(a.id, u)
          BY <4>1, SignInBounds
             DEF SignInInv, NumberedInv, HeldBy, SignIn!TypeOK, SignIn!Account, SignIn!Ids, SignIn!Holders
        <4>4. s \in SignIn!Session /\ s.account = a.id /\ s.as = u
          BY <4>2, <4>3 DEF SignIn!Session, SignIn!People
        <4>5. cookie' = [cookie EXCEPT !["id"][u] = s]
          BY <4>1, <4>2 DEF SignIn!SetSession
        <4> QED
          BY <2>1, <4>3, <4>4, <4>5, SetSessionType DEF SignIn!Hosts
      <3>2. CASE SignIn!Logout(u)
        BY <2>1, <3>2, DropSessionType DEF SignIn!Logout, SignIn!Hosts
      <3> QED
        BY <1>2, <3>1, <3>2
    <2> QED
      BY <1>0, <2>1, <2>2, SignInRefers
  <1>3. ASSUME NEW u \in Servers, SignIn!HubStart(u)
        PROVE  SignInInv'
    <2>0. PICK s : s = cookie["id"][u]
      OBVIOUS
    <2>1. PICK c : c = [nr |-> begun.codes + 1, account |-> s.account, as |-> s.as]
      OBVIOUS
    <2>2. /\ begun.codes < MaxCodes /\ begun' = [begun EXCEPT !.codes = begun.codes + 1]
          /\ handoffs' = handoffs \cup {c}
          /\ UNCHANGED <<accounts, identities, attempts, cookie, signInReq, faults>>
      BY <1>3, <2>0, <2>1 DEF SignIn!HubStart
    <2>3. begun.codes + 1 \in 1 .. MaxCodes
      BY <1>0, <2>2, SignInBounds
    <2>4. s \in SignIn!Session /\ HeldBy(s.account, s.as)
      BY <2>0, SignInTypes DEF SignIn!Hosts
    <2>5. c \in SignIn!Handoff /\ c.account = s.account /\ c.as = s.as
      BY <2>1, <2>3, <2>4 DEF SignIn!Handoff, SignIn!Session
    <2>6. begun' \in [attempts : 0 .. MaxAttempts, codes : 0 .. MaxCodes]
      BY <1>0, <2>2, <2>3, SignInBounds
    <2>7. handoffs' \subseteq SignIn!Handoff /\ \A d \in handoffs' : HeldBy(d.account, d.as)
      BY <1>0, <2>2, <2>4, <2>5
    <2>8. cookie' \in [SignIn!Hosts -> [Servers -> SignIn!Session]] /\ CookiesOwn'
      BY <2>2, SameCookies
    <2> QED
      BY <1>0, <2>2, <2>6, <2>7, <2>8, SignInRefers
  <1>4. ASSUME NEW u \in Servers, NEW p \in Providers, NEW linking \in BOOLEAN, SignIn!Start(u, p, linking)
        PROVE  SignInInv'
    <2>1. PICK s : s = IF linking THEN cookie["id"][u] ELSE SignIn!NoSession
      OBVIOUS
    <2>2. PICK a : a = [nr |-> begun.attempts + 1, provider |-> p, link |-> s.account, as |-> s.as]
      OBVIOUS
    <2>3. /\ begun.attempts < MaxAttempts /\ begun' = [begun EXCEPT !.attempts = begun.attempts + 1]
          /\ attempts' = attempts \cup {a}
          /\ UNCHANGED <<accounts, identities, handoffs, cookie, signInReq, faults>>
      BY <1>4, <2>1, <2>2, NoSessionType DEF SignIn!Start
    <2>4. begun.attempts + 1 \in 1 .. MaxAttempts
      BY <1>0, <2>3, SignInBounds
    <2>5. s \in SignIn!Session /\ HeldBy(s.account, s.as)
      BY <2>1, NoSessionType, NoAccount, SignInTypes DEF SignIn!Hosts
    <2>6. a \in SignIn!Attempt /\ a.link = s.account /\ a.as = s.as
      BY <2>2, <2>4, <2>5 DEF SignIn!Attempt, SignIn!Session
    <2>7. begun' \in [attempts : 0 .. MaxAttempts, codes : 0 .. MaxCodes]
      BY <1>0, <2>3, <2>4, SignInBounds
    <2>8. attempts' \subseteq SignIn!Attempt /\ \A b \in attempts' : HeldBy(b.link, b.as)
      BY <1>0, <2>3, <2>5, <2>6
    <2>9. cookie' \in [SignIn!Hosts -> [Servers -> SignIn!Session]] /\ CookiesOwn'
      BY <2>3, SameCookies
    <2> QED
      BY <1>0, <2>3, <2>7, <2>8, <2>9, SignInRefers
  <1>5. ASSUME UNCHANGED <<accounts, identities, begun, cookie, signInReq, faults>>,
               attempts' \subseteq attempts, handoffs' \subseteq handoffs
        PROVE  SignInInv'
    BY <1>0, <1>5, SameCookies, SignInRefers
  <1>6. ASSUME NEW a \in attempts, NEW r \in Requests, NEW b \in Servers, NEW w \in Servers,
               SignIn!Callback(r, a, b, w)
        PROVE  SignInInv'
    <2>1. PICK as : as = IF a.link # 0 THEN a.as ELSE w
      OBVIOUS
    <2>2. PICK q : q = [SignIn!Idle EXCEPT !.pc = "token", !.browser = b, !.person = w,
                                           !.provider = a.provider, !.link = a.link, !.as = as]
      OBVIOUS
    <2>3. /\ attempts' = attempts \ {a} /\ signInReq' = [signInReq EXCEPT ![r] = q]
          /\ UNCHANGED <<accounts, identities, handoffs, begun, cookie, faults>>
      BY <1>6, <2>1, <2>2 DEF SignIn!Callback
    <2>4. a \in SignIn!Attempt /\ HeldBy(a.link, a.as) /\ as \in SignIn!People
      BY <1>0, <2>1 DEF SignIn!Attempt, SignIn!People
    <2>5. /\ q \in SignIn!Request /\ q.pc = "token" /\ q.browser = b /\ q.person = w /\ q.as = as
          /\ q.provider = a.provider /\ q.link = a.link /\ q.found = 0 /\ q.verified = FALSE
      BY <2>2, <2>4, IdleSignIn DEF SignIn!Attempt, SignIn!Request, SignIn!Steps, SignIn!People
    <2>6. RefersOwn(q)
      BY <2>1, <2>4, <2>5, NoAccount, SignInTypes DEF RefersOwn
    <2>7. Knows(q)
      BY <2>1, <2>4, <2>5 DEF SignIn!Attempt, Knows, CallbackSteps
    <2> QED
      BY <2>3, <2>5, <2>6, <2>7, SameCookies, SignInTypes, SignInPlainStep
  <1>7. ASSUME NEW c \in handoffs, NEW r \in Requests, NEW b \in Servers, SignIn!HubComplete(r, c, b)
        PROVE  SignInInv'
    <2>1. PICK q : q = [SignIn!Idle EXCEPT !.pc = "cross", !.browser = b, !.as = c.as, !.found = c.account]
      OBVIOUS
    <2>2. /\ handoffs' = handoffs \ {c} /\ signInReq' = [signInReq EXCEPT ![r] = q]
          /\ UNCHANGED <<accounts, identities, attempts, begun, cookie, faults>>
      BY <1>7, <2>1 DEF SignIn!HubComplete
    <2>3. c \in SignIn!Handoff /\ HeldBy(c.account, c.as)
      BY <1>0
    <2>4. /\ q \in SignIn!Request /\ q.pc = "cross" /\ q.browser = b /\ q.as = c.as
          /\ q.link = 0 /\ q.found = c.account /\ q.verified = FALSE
      BY <2>1, <2>3, IdleSignIn DEF SignIn!Handoff, SignIn!Request, SignIn!Steps, SignIn!People
    <2>5. RefersOwn(q) /\ Knows(q)
      BY <2>3, <2>4, NoAccount, SignInTypes DEF RefersOwn, Knows, CallbackSteps
    <2> QED
      BY <2>2, <2>4, <2>5, SameCookies, SignInTypes, SignInPlainStep
  <1>8. ASSUME NEW r \in Requests, NEW u \in Servers, SignIn!SignOut(r, u)
        PROVE  SignInInv'
    <2>1. PICK q : q = [SignIn!Idle EXCEPT !.pc = "leave", !.browser = u]
      OBVIOUS
    <2>2. /\ SignIn!DropSession("hub", u) /\ signInReq' = [signInReq EXCEPT ![r] = q]
          /\ UNCHANGED <<accounts, identities, attempts, handoffs, begun, faults>>
      BY <1>8, <2>1 DEF SignIn!SignOut
    <2>3. /\ q \in SignIn!Request /\ q.pc = "leave" /\ q.browser = u
          /\ q.link = 0 /\ q.found = 0 /\ q.verified = FALSE
      BY <2>1, IdleSignIn DEF SignIn!Request, SignIn!Steps, SignIn!People
    <2>4. RefersOwn(q) /\ Knows(q)
      BY <2>3, NoAccount, SignInTypes DEF RefersOwn, Knows, CallbackSteps
    <2>5. cookie' \in [SignIn!Hosts -> [Servers -> SignIn!Session]] /\ CookiesOwn'
      BY <2>2, DropSessionType DEF SignIn!Hosts
    <2> QED
      BY <2>2, <2>3, <2>4, <2>5, SignInTypes, SignInPlainStep
  <1>9. ASSUME NEW a \in attempts, SignIn!AttemptExpires(a)
        PROVE  SignInInv'
    BY <1>5, <1>9 DEF SignIn!AttemptExpires
  <1>10. ASSUME NEW c \in handoffs, SignIn!HandoffExpires(c)
         PROVE  SignInInv'
    BY <1>5, <1>10 DEF SignIn!HandoffExpires
  <1>11. CASE UNCHANGED SignIn!vars
    BY <1>5, <1>11 DEF SignIn!vars
  <1> QED
    BY <1>1, <1>2, <1>3, <1>4, <1>6, <1>7, <1>8, <1>9, <1>10, <1>11, SignInReads, SignInWrites
       DEF SignIn!Next

(* The inductive invariant of sign-in through providers. *)
THEOREM SignInInvHolds == DesktopSpec => [](part = "provider" => SignInInv)
  <1>1. DesktopInit => (part = "provider" => SignInInv)
    BY SignInInit DEF DesktopInit
  <1>2. (part = "provider" => SignInInv) /\ [DesktopNext]_desktopVars
          => (part = "provider" => SignInInv)'
    BY PartStep, SignInStep
  <1> QED
    BY <1>1, <1>2, PTL DEF DesktopSpec

(* Whatever addresses the providers report and whoever delivers a state or a code, a    *)
(* session of an account, and a linking to it, stands on somebody who can sign in to     *)
(* it (routes.ts, the callback, and oauthProviders.ts, matchBrokerAccount).           *)
THEOREM ProvenOnlyHolds == DesktopSpec => []ProvenOnly
  <1>1. ASSUME SignInInv
        PROVE  SignIn!ProvenOnly
    <2>1. SUFFICES ASSUME NEW a \in accounts
                   PROVE  /\ \A h \in SignIn!Hosts, u \in Servers :
                               cookie[h][u].account = a.id => cookie[h][u].as \in SignIn!Holders(a)
                          /\ \A t \in attempts : t.link = a.id => t.as \in SignIn!Holders(a)
                          /\ \A r \in Requests : signInReq[r].link = a.id => signInReq[r].as \in SignIn!Holders(a)
      BY DEF SignIn!ProvenOnly
    <2>2. \A id, p : HeldBy(id, p) /\ a.id = id => p \in SignIn!Holders(a)
      BY DEF HeldBy
    <2> QED
      BY <1>1, <2>2 DEF SignInInv, OwnInv, CookiesOwn, AttemptsOwn, RequestsOwn, RefersOwn
  <1>2. (part = "provider" => SignInInv) => ProvenOnly
    BY <1>1 DEF ProvenOnly
  <1> QED
    BY SignInInvHolds, <1>2, PTL

-------------------------------------------------------------------------------
(* ServerTokens *)

(* Once the server is revoked its rows say so, unless a request that had found none   *)
(* was under way.                                                                *)
GrantInv ==
  /\ revoked => Tokens!Rows # {}
  /\ revoked /\ ~straggler => \A v \in Requests : grants[v] # "live"

(* An answer on its way to the server drops no key it holds and is still published. *)
KeyInv ==
  /\ published \cup cache \cup flight.keys \subseteq 1 .. signing
  /\ flight.at = "answered" => cache \cap published \subseteq flight.keys

(* A visit that found no row does not outlast the revocation, and one that began      *)
(* after it goes nowhere.                                                        *)
VisitGrantInv(q) ==
  /\ q.late => revoked
  /\ straggler \/ /\ revoked /\ q.pc = "grant" => q.found
                  /\ q.late => q.pc \in {"idle", "refused"}

(* While its token is in date the key is published, and the server that held the key  *)
(* when it was presented holds it still.                                          *)
VisitKeyInv(q) ==
  /\ q.key <= signing
  /\ q.key # 0 /\ ~q.expired => q.key \in published
  /\ q.held => q.pc \notin {"idle", "grant"}
  /\ q.held /\ ~q.expired => q.key \in cache /\ q.pc # "unknown" /\ q.why # "key"
  /\ q.why # "" => q.pc = "refused"

TokensInv ==
  /\ Tokens!TypeOK /\ GrantInv /\ KeyInv
  /\ \A v \in Requests : VisitGrantInv(visit[v]) /\ VisitKeyInv(visit[v])

LEMMA TokensBounds == MaxKeys \in Nat \ {0} /\ MaxFaults \in Nat
  BY PartsAssumption DEF Tokens!ServerTokensAssumption

LEMMA NewVisitType ==
  /\ Tokens!NewVisit \in Tokens!Visit /\ Tokens!NewVisit.pc = "idle"
  /\ Tokens!NewVisit.key = 0 /\ Tokens!NewVisit.why = ""
  /\ Tokens!NewVisit.late = FALSE /\ Tokens!NewVisit.held = FALSE
  BY TokensBounds DEF Tokens!NewVisit, Tokens!Visit, Tokens!Steps

LEMMA NoFlightType ==
  Tokens!NoFlight \in Tokens!Flights /\ Tokens!NoFlight.at = "none" /\ Tokens!NoFlight.keys = {}
  BY DEF Tokens!NoFlight, Tokens!Flights

LEMMA AskedType ==
  /\ [Tokens!NoFlight EXCEPT !.at = "asked"] = [at |-> "asked", keys |-> {}]
  /\ [at |-> "asked", keys |-> {}] \in Tokens!Flights
  <1>1. [Tokens!NoFlight EXCEPT !.at = "asked"] = [at |-> "asked", keys |-> {}]
    BY DEF Tokens!NoFlight
  <1>2. [at |-> "asked", keys |-> {}] \in Tokens!Flights
    BY DEF Tokens!Flights
  <1> QED
    BY <1>1, <1>2

LEMMA TokensInit == Tokens!Init => TokensInv
  <1> SUFFICES ASSUME Tokens!Init
               PROVE  TokensInv
    OBVIOUS
  <1>1. Tokens!TypeOK
    <2>1. visit \in [Requests -> Tokens!Visit]
      BY NewVisitType DEF Tokens!Init
    <2>2. grants \in [Requests -> {"none", "live", "revoked"}]
      BY DEF Tokens!Init
    <2>3. flight \in Tokens!Flights
      BY NoFlightType DEF Tokens!Init
    <2>4. published \subseteq Tokens!Keys /\ signing \in published /\ cache \subseteq Tokens!Keys
      BY TokensBounds DEF Tokens!Init, Tokens!Keys
    <2>5. faults \in 0 .. MaxFaults
      BY TokensBounds DEF Tokens!Init
    <2>6. revoked \in BOOLEAN /\ straggler \in BOOLEAN /\ stale \in BOOLEAN
      BY DEF Tokens!Init
    <2> QED
      BY <2>1, <2>2, <2>3, <2>4, <2>5, <2>6 DEF Tokens!TypeOK
  <1>2. GrantInv /\ KeyInv
    BY TokensBounds DEF Tokens!Init, GrantInv, KeyInv, Tokens!NoFlight
  <1>3. \A v \in Requests : VisitGrantInv(visit[v]) /\ VisitKeyInv(visit[v])
    <2>1. \A v \in Requests : visit[v] = Tokens!NewVisit
      BY DEF Tokens!Init
    <2>2. 0 <= signing
      BY DEF Tokens!Init
    <2>3. VisitGrantInv(Tokens!NewVisit) /\ VisitKeyInv(Tokens!NewVisit)
      BY <2>2, NewVisitType, Zenon DEF VisitGrantInv, VisitKeyInv
    <2> QED
      BY <2>1, <2>3
  <1> QED
    BY <1>1, <1>2, <1>3 DEF TokensInv

(* What one visit comes to says nothing of the others. *)
LEMMA VisitStep ==
  ASSUME TokensInv, NEW v \in Requests, NEW q \in Tokens!Visit,
         visit' = [visit EXCEPT ![v] = q],
         UNCHANGED <<revoked, straggler, signing, published, cache, stale, faults>>,
         grants' \in [Requests -> {"none", "live", "revoked"}], flight' \in Tokens!Flights,
         GrantInv', KeyInv', VisitGrantInv(q), VisitKeyInv(q)
  PROVE  TokensInv'
  <1>1. Tokens!TypeOK'
    BY DEF TokensInv, Tokens!TypeOK
  <1>2. \A p \in Requests : visit'[p] = IF p = v THEN q ELSE visit[p]
    BY DEF TokensInv, Tokens!TypeOK
  <1>3. \A p \in Requests : VisitGrantInv(visit'[p]) /\ VisitKeyInv(visit'[p])
    BY <1>2 DEF TokensInv
  <1>4. (\A p \in Requests : VisitGrantInv(visit[p]) /\ VisitKeyInv(visit[p]))'
    BY <1>3 DEF VisitGrantInv, VisitKeyInv
  <1> QED
    BY <1>1, <1>4 DEF TokensInv

(* A step that asks for the keys, or joins who asked. *)
LEMMA AskKeeps ==
  ASSUME TokensInv, Tokens!Ask \/ UNCHANGED flight,
         UNCHANGED <<grants, revoked, straggler, signing, published, cache>>
  PROVE  flight' \in Tokens!Flights /\ GrantInv' /\ KeyInv'
         /\ grants' \in [Requests -> {"none", "live", "revoked"}]
  <1>1. flight' \in Tokens!Flights /\ (flight' = flight \/ (flight'.at = "asked" /\ flight'.keys = {}))
    <2>1. flight \in Tokens!Flights
      BY DEF TokensInv, Tokens!TypeOK
    <2>2. CASE UNCHANGED flight
      BY <2>1, <2>2
    <2>3. CASE flight' = [Tokens!NoFlight EXCEPT !.at = "asked"]
      <3>1. flight' = [at |-> "asked", keys |-> {}]
        BY <2>3, AskedType
      <3> QED
        BY <3>1, AskedType
    <2> QED
      BY <2>2, <2>3 DEF Tokens!Ask
  <1>2. GrantInv'
    BY DEF TokensInv, GrantInv, Tokens!Rows
  <1>3. KeyInv'
    BY <1>1 DEF TokensInv, KeyInv
  <1> QED
    BY <1>1, <1>2, <1>3 DEF TokensInv, Tokens!TypeOK

(* What a visit may go on to without a change to what is known of it. *)
LEMMA VisitGoesOn ==
  ASSUME NEW q \in Tokens!Visit, VisitGrantInv(q), VisitKeyInv(q), q.pc \notin {"idle", "grant", "refused"},
         NEW p \in Tokens!Visit, p.late = q.late, p.key = q.key, p.expired = q.expired,
         p.held = q.held \/ p.held = (p.key \in cache), p.why = q.why,
         p.pc \notin {"idle", "grant"}, p.pc = "unknown" => p.key \notin cache
  PROVE  VisitGrantInv(p) /\ VisitKeyInv(p)
  BY DEF VisitGrantInv, VisitKeyInv, Tokens!Visit

LEMMA TokensStep ==
  ASSUME TokensInv, [Tokens!Next]_(Tokens!vars)
  PROVE  TokensInv'
  <1> USE DEF Tokens!grantVars, Tokens!keyVars, Tokens!cacheVars
  <1>0. /\ visit \in [Requests -> Tokens!Visit] /\ grants \in [Requests -> {"none", "live", "revoked"}]
        /\ \A v \in Requests : VisitGrantInv(visit[v]) /\ VisitKeyInv(visit[v])
    BY DEF TokensInv, Tokens!TypeOK
  <1>1. ASSUME NEW v \in Requests, Tokens!ReadGrant(v)
        PROVE  TokensInv'
    <2>1. visit[v].pc = "idle" /\ visit[v] \in Tokens!Visit /\ VisitGrantInv(visit[v]) /\ VisitKeyInv(visit[v])
      BY <1>0, <1>1 DEF Tokens!ReadGrant
    <2>2. PICK q : /\ visit' = [visit EXCEPT ![v] = q]
                   /\ \/ Tokens!Rows = {} /\ q = [visit[v] EXCEPT !.pc = "grant", !.late = revoked]
                      \/ \E row \in Tokens!Rows :
                           \/ grants[row] = "revoked" /\ q = [visit[v] EXCEPT !.pc = "refused", !.why = "revoked"]
                           \/ /\ grants[row] # "revoked"
                              /\ q = [visit[v] EXCEPT !.pc = "grant", !.found = TRUE, !.late = revoked]
      BY <1>0, <1>1 DEF Tokens!ReadGrant, Tokens!Refused
    <2>3. q \in Tokens!Visit
      BY <2>1, <2>2 DEF Tokens!Visit, Tokens!Steps, TokensInv, Tokens!TypeOK
    <2>4. VisitKeyInv(q)
      BY <2>1, <2>2 DEF Tokens!Visit, VisitKeyInv
    <2>5. VisitGrantInv(q)
      BY <1>0, <2>1, <2>2 DEF Tokens!Visit, VisitGrantInv, GrantInv, TokensInv, Tokens!Rows
    <2> QED
      BY <1>1, <2>2, <2>3, <2>4, <2>5, AskKeeps, VisitStep DEF Tokens!ReadGrant
  <1>2. ASSUME NEW v \in Requests, Tokens!Issue(v)
        PROVE  TokensInv'
    <2> DEFINE q == [visit[v] EXCEPT !.pc = "page", !.key = signing]
    <2>1. /\ visit[v].pc = "grant" /\ visit[v] \in Tokens!Visit
          /\ VisitGrantInv(visit[v]) /\ VisitKeyInv(visit[v])
      BY <1>0, <1>2 DEF Tokens!Issue
    <2>2. /\ visit' = [visit EXCEPT ![v] = q]
          /\ grants' = IF visit[v].found THEN grants ELSE [grants EXCEPT ![v] = "live"]
          /\ UNCHANGED <<revoked, straggler, signing, published, cache, stale, flight, faults>>
      BY <1>2 DEF Tokens!Issue
    <2>3. /\ q.pc = "page" /\ q.key = signing /\ q.late = visit[v].late /\ q.held = visit[v].held
          /\ q.why = visit[v].why /\ q.expired = visit[v].expired
      BY <2>1 DEF Tokens!Visit
    <2>4. signing \in published /\ signing \in 0 .. MaxKeys /\ 1 <= signing
      BY TokensBounds DEF TokensInv, Tokens!TypeOK, Tokens!Keys
    <2>5. q \in Tokens!Visit
      BY <2>1, <2>4 DEF Tokens!Visit, Tokens!Steps
    <2> HIDE DEF q
    <2>6. VisitKeyInv(q)
      <3>1. visit[v].held = FALSE
        BY <2>1 DEF VisitKeyInv, Tokens!Visit
      <3>2. q.held = FALSE /\ q.why = ""
        BY <2>1, <2>3, <3>1 DEF VisitKeyInv
      <3>3. signing <= signing
        BY <2>4
      <3> QED
        BY <2>3, <2>4, <3>2, <3>3, Zenon DEF VisitKeyInv
    <2>7. VisitGrantInv(q)
      BY <2>1, <2>3 DEF VisitGrantInv
    <2>8. GrantInv'
      BY <1>0, <2>1, <2>2 DEF TokensInv, GrantInv, VisitGrantInv, Tokens!Rows
    <2>9. KeyInv' /\ flight' \in Tokens!Flights /\ grants' \in [Requests -> {"none", "live", "revoked"}]
      BY <1>0, <2>2 DEF TokensInv, KeyInv, Tokens!TypeOK
    <2> QED
      BY <2>2, <2>5, <2>6, <2>7, <2>8, <2>9, VisitStep
  <1>3. ASSUME NEW v \in Requests, Tokens!Present(v)
        PROVE  TokensInv'
    <2>1. /\ visit[v].pc = "page" /\ visit[v] \in Tokens!Visit
          /\ VisitGrantInv(visit[v]) /\ VisitKeyInv(visit[v])
      BY <1>0, <1>3 DEF Tokens!Present
    <2>2. PICK step \in {"check", "keys"}, h \in BOOLEAN :
            /\ h = (visit[v].key \in cache)
            /\ visit' = [visit EXCEPT ![v] = [visit[v] EXCEPT !.held = h, !.pc = step]]
            /\ Tokens!Ask \/ UNCHANGED flight
            /\ UNCHANGED <<grants, revoked, straggler, signing, published, cache, stale, faults>>
      <3> DEFINE h == visit[v].key \in cache
      <3>1. h \in BOOLEAN
        OBVIOUS
      <3> HIDE DEF h
      <3>2. PICK step \in {"check", "keys"} :
              /\ visit' = [visit EXCEPT ![v] = [[visit[v] EXCEPT !.held = h] EXCEPT !.pc = step]]
              /\ Tokens!Ask \/ UNCHANGED flight
              /\ UNCHANGED <<grants, revoked, straggler, signing, published, cache, stale, faults>>
        BY <1>3, Zenon DEF Tokens!Present, h
      <3>3. [[visit[v] EXCEPT !.held = h] EXCEPT !.pc = step] = [visit[v] EXCEPT !.held = h, !.pc = step]
        BY Zenon
      <3> QED
        BY <3>1, <3>2, <3>3, Zenon DEF h
    <2> DEFINE q == [visit[v] EXCEPT !.held = h, !.pc = step]
    <2>3. q \in Tokens!Visit /\ q.pc = step /\ q.late = visit[v].late /\ q.key = visit[v].key
          /\ q.held = h /\ q.why = visit[v].why /\ q.expired = visit[v].expired
      BY <2>1 DEF Tokens!Visit, Tokens!Steps
    <2> HIDE DEF q
    <2>4. VisitGrantInv(q) /\ VisitKeyInv(q)
      BY <2>1, <2>2, <2>3, VisitGoesOn
    <2> QED
      BY <2>2, <2>3, <2>4, AskKeeps, VisitStep DEF q
  <1>4. ASSUME NEW v \in Requests, Tokens!Check(v)
        PROVE  TokensInv'
    <2>1. /\ visit[v].pc = "check" /\ visit[v] \in Tokens!Visit
          /\ VisitGrantInv(visit[v]) /\ VisitKeyInv(visit[v])
      BY <1>0, <1>4 DEF Tokens!Check
    <2>2. PICK q :
            /\ \/ /\ visit[v].key \in cache
                  /\ \/ visit[v].expired /\ q = [visit[v] EXCEPT !.pc = "refused", !.why = "expired"]
                     \/ \E pc \in {"in", "choose"} : q = [visit[v] EXCEPT !.pc = pc, !.second = FALSE]
               \/ visit[v].key \notin cache /\ q = [visit[v] EXCEPT !.pc = "refused", !.why = "key"]
               \/ visit[v].key \notin cache /\ q = [visit[v] EXCEPT !.pc = "unknown"]
            /\ visit' = [visit EXCEPT ![v] = q]
      BY <1>0, <1>4 DEF Tokens!Check, Tokens!Refused, Tokens!Goto
    <2>3. /\ Tokens!Ask \/ UNCHANGED flight
          /\ UNCHANGED <<grants, revoked, straggler, signing, published, cache, stale, faults>>
      BY <1>4 DEF Tokens!Check
    <2>4. q \in Tokens!Visit
      BY <2>1, <2>2 DEF Tokens!Visit, Tokens!Steps
    <2>5. VisitGrantInv(q)
      BY <2>1, <2>2 DEF Tokens!Visit, VisitGrantInv
    <2>6. VisitKeyInv(q)
      BY <2>1, <2>2 DEF Tokens!Visit, VisitKeyInv
    <2> QED
      BY <2>2, <2>3, <2>4, <2>5, <2>6, AskKeeps, VisitStep
  <1>5. ASSUME NEW v \in Requests, Tokens!SignedIn(v) \/ Tokens!ChooseName(v)
        PROVE  TokensInv'
    <2>1. /\ visit[v].pc = "choose" /\ visit[v] \in Tokens!Visit
          /\ VisitGrantInv(visit[v]) /\ VisitKeyInv(visit[v])
      BY <1>0, <1>5 DEF Tokens!SignedIn, Tokens!ChooseName
    <2>2. PICK q :
            /\ q = [visit[v] EXCEPT !.pc = "in"] \/ q = [visit[v] EXCEPT !.pc = "page", !.named = TRUE]
            /\ visit' = [visit EXCEPT ![v] = q]
      BY <1>0, <1>5 DEF Tokens!SignedIn, Tokens!ChooseName, Tokens!Goto
    <2>3. UNCHANGED <<grants, revoked, straggler, signing, published, cache, stale, flight, faults>>
      BY <1>5 DEF Tokens!SignedIn, Tokens!ChooseName
    <2>4. /\ q \in Tokens!Visit /\ q.pc \in {"in", "page"} /\ q.late = visit[v].late
          /\ q.key = visit[v].key /\ q.held = visit[v].held /\ q.why = visit[v].why
          /\ q.expired = visit[v].expired
      BY <2>1, <2>2 DEF Tokens!Visit, Tokens!Steps
    <2>5. VisitGrantInv(q) /\ VisitKeyInv(q)
      BY <2>1, <2>4, VisitGoesOn
    <2> QED
      BY <2>2, <2>3, <2>4, <2>5, AskKeeps, VisitStep
  <1>6. ASSUME NEW v \in Requests, Tokens!Expire(v)
        PROVE  TokensInv'
    <2> DEFINE q == [visit[v] EXCEPT !.expired = TRUE]
    <2>1. visit[v].key # 0 /\ visit[v] \in Tokens!Visit /\ VisitGrantInv(visit[v]) /\ VisitKeyInv(visit[v])
      BY <1>0, <1>6 DEF Tokens!Expire
    <2>2. /\ visit' = [visit EXCEPT ![v] = q]
          /\ UNCHANGED <<grants, revoked, straggler, signing, published, cache, stale, flight, faults>>
      BY <1>6 DEF Tokens!Expire
    <2>3. q \in Tokens!Visit
      BY <2>1 DEF Tokens!Visit
    <2>4. VisitGrantInv(q) /\ VisitKeyInv(q)
      BY <2>1 DEF Tokens!Visit, VisitGrantInv, VisitKeyInv
    <2> HIDE DEF q
    <2> QED
      BY <2>2, <2>3, <2>4, AskKeeps, VisitStep
  <1>7. ASSUME NEW v \in Requests, Tokens!Again(v)
        PROVE  TokensInv'
    <2>1. /\ visit' = [visit EXCEPT ![v] = Tokens!NewVisit]
          /\ UNCHANGED <<grants, revoked, straggler, signing, published, cache, stale, flight, faults>>
      BY <1>7 DEF Tokens!Again
    <2>2. 0 <= signing
      BY TokensBounds DEF TokensInv, Tokens!TypeOK, Tokens!Keys
    <2>3. VisitGrantInv(Tokens!NewVisit) /\ VisitKeyInv(Tokens!NewVisit)
      BY <2>2, NewVisitType, Zenon DEF VisitGrantInv, VisitKeyInv
    <2> QED
      BY <2>1, <2>3, NewVisitType, AskKeeps, VisitStep
  <1>8. CASE Tokens!Revoke
    <2>1. /\ Tokens!Rows # {} /\ revoked' = TRUE
          /\ grants' = [v \in Requests |-> IF v \in Tokens!Rows THEN "revoked" ELSE "none"]
          /\ straggler' = (straggler \/ \E v \in Requests : visit[v].pc = "grant" /\ ~visit[v].found)
          /\ UNCHANGED <<signing, published, cache, stale, flight, visit, faults>>
      BY <1>8 DEF Tokens!Revoke
    <2>2. Tokens!TypeOK'
      BY <2>1 DEF TokensInv, Tokens!TypeOK
    <2>3. GrantInv'
      BY <2>1 DEF GrantInv, Tokens!Rows
    <2>4. KeyInv'
      BY <2>1 DEF TokensInv, KeyInv
    <2>5. ASSUME NEW v \in Requests
          PROVE  (VisitGrantInv(visit[v]) /\ VisitKeyInv(visit[v]))'
      BY <1>0, <2>1 DEF VisitGrantInv, VisitKeyInv
    <2> QED
      BY <2>2, <2>3, <2>4, <2>5 DEF TokensInv
  <1>9. CASE Tokens!Rotate
    <2>1. /\ signing < MaxKeys /\ signing' = signing + 1 /\ published' = published \cup {signing + 1}
          /\ UNCHANGED <<grants, revoked, straggler, cache, stale, flight, visit, faults>>
      BY <1>9 DEF Tokens!Rotate
    <2>2. signing \in 1 .. MaxKeys
      BY DEF TokensInv, Tokens!TypeOK, Tokens!Keys
    <2>3. Tokens!TypeOK'
      BY <2>1, <2>2, TokensBounds DEF TokensInv, Tokens!TypeOK, Tokens!Keys
    <2>4. GrantInv'
      BY <2>1 DEF TokensInv, GrantInv, Tokens!Rows
    <2>5. KeyInv'
      BY <2>1, <2>2, TokensBounds DEF TokensInv, KeyInv
    <2>6. ASSUME NEW v \in Requests
          PROVE  (VisitGrantInv(visit[v]) /\ VisitKeyInv(visit[v]))'
      <3>1. visit[v] \in Tokens!Visit
        BY <1>0
      <3>2. visit[v].key \in 0 .. MaxKeys
        BY <3>1 DEF Tokens!Visit
      <3>3. VisitKeyInv(visit[v])
        BY <1>0
      <3>4. (visit[v].key <= signing)'
        <4>1. visit[v].key <= signing
          BY <3>3 DEF VisitKeyInv
        <4>2. visit[v].key <= signing + 1
          BY <2>2, <3>2, <4>1, TokensBounds
        <4> QED
          BY <2>1, <4>2
      <3>5. VisitKeyInv(visit[v])'
        BY <2>1, <3>3, <3>4 DEF VisitKeyInv
      <3>6. VisitGrantInv(visit[v])'
        BY <1>0, <2>1 DEF VisitGrantInv
      <3> QED
        BY <3>5, <3>6
    <2> QED
      BY <2>3, <2>4, <2>5, <2>6 DEF TokensInv
  <1>10. CASE Tokens!DropRetired
    <2>1. /\ \A v \in Requests : visit[v].key \in {0, signing} \/ visit[v].expired
          /\ published' = {signing}
          /\ UNCHANGED <<grants, revoked, straggler, signing, cache, stale, flight, visit, faults>>
      BY <1>10 DEF Tokens!DropRetired
    <2>2. Tokens!TypeOK'
      BY <2>1 DEF TokensInv, Tokens!TypeOK
    <2>3. GrantInv' /\ KeyInv'
      BY <2>1 DEF TokensInv, GrantInv, KeyInv, Tokens!Rows, Tokens!TypeOK
    <2>4. ASSUME NEW v \in Requests
          PROVE  (VisitGrantInv(visit[v]) /\ VisitKeyInv(visit[v]))'
      BY <1>0, <2>1 DEF VisitGrantInv, VisitKeyInv
    <2> QED
      BY <2>2, <2>3, <2>4 DEF TokensInv
  <1>11. CASE Tokens!Stale
    <2>1. stale' = TRUE /\ UNCHANGED <<grants, revoked, straggler, signing, published, cache, flight, visit, faults>>
      BY <1>11 DEF Tokens!Stale
    <2> QED
      BY <2>1 DEF TokensInv, Tokens!TypeOK, GrantInv, KeyInv, VisitGrantInv, VisitKeyInv, Tokens!Rows
  <1>12. CASE Tokens!IssuerAnswers
    <2>1. /\ flight' = [at |-> "answered", keys |-> published]
          /\ UNCHANGED <<grants, revoked, straggler, signing, published, cache, stale, visit, faults>>
      BY <1>12 DEF Tokens!IssuerAnswers
    <2>2. flight' \in Tokens!Flights
      BY <2>1 DEF TokensInv, Tokens!TypeOK, Tokens!Flights
    <2>3. Tokens!TypeOK' /\ GrantInv'
      BY <2>1, <2>2 DEF TokensInv, Tokens!TypeOK, GrantInv, Tokens!Rows
    <2>4. KeyInv'
      BY <2>1 DEF TokensInv, KeyInv
    <2>5. ASSUME NEW v \in Requests
          PROVE  (VisitGrantInv(visit[v]) /\ VisitKeyInv(visit[v]))'
      BY <1>0, <2>1 DEF VisitGrantInv, VisitKeyInv
    <2> QED
      BY <2>3, <2>4, <2>5 DEF TokensInv
  <1>13. CASE Tokens!Refreshed
    <2>1. /\ flight.at = "answered" /\ flight' = Tokens!NoFlight
          /\ cache' = flight.keys /\ stale' = FALSE
          /\ visit' \in [Requests -> {visit'[v] : v \in Requests}]
          /\ \A v \in Requests :
               visit'[v] = IF visit[v].pc = "keys" THEN [visit[v] EXCEPT !.pc = "check"]
                           ELSE IF visit[v].pc = "unknown"
                           THEN [visit[v] EXCEPT !.pc = "check", !.second = TRUE]
                           ELSE visit[v]
          /\ UNCHANGED <<grants, revoked, straggler, signing, published, faults>>
      BY <1>13 DEF Tokens!Refreshed
    <2>2. flight \in Tokens!Flights /\ KeyInv /\ GrantInv
      BY DEF TokensInv, Tokens!TypeOK
    <2>3. cache' \subseteq Tokens!Keys
      BY <2>1, <2>2 DEF Tokens!Flights
    <2>4. ASSUME NEW v \in Requests
          PROVE  /\ visit'[v] \in Tokens!Visit
                 /\ (VisitGrantInv(visit[v]) /\ VisitKeyInv(visit[v]))'
      <3>1. visit[v] \in Tokens!Visit /\ VisitGrantInv(visit[v]) /\ VisitKeyInv(visit[v])
        BY <1>0
      <3>2. PICK q : q = visit'[v]
        OBVIOUS
      <3>3. /\ q \in Tokens!Visit /\ q.late = visit[v].late /\ q.key = visit[v].key
            /\ q.held = visit[v].held /\ q.why = visit[v].why /\ q.expired = visit[v].expired
            /\ q.found = visit[v].found
            /\ \/ q.pc = visit[v].pc /\ q.pc \notin {"keys", "unknown"}
               \/ q.pc = "check" /\ visit[v].pc \in {"keys", "unknown"}
        <4>1. CASE visit[v].pc = "keys"
          <5>1. q = [visit[v] EXCEPT !.pc = "check"]
            BY <2>1, <3>2, <4>1
          <5> QED
            BY <3>1, <4>1, <5>1 DEF Tokens!Visit, Tokens!Steps
        <4>2. CASE visit[v].pc = "unknown"
          <5>1. q = [visit[v] EXCEPT !.pc = "check", !.second = TRUE]
            BY <2>1, <3>2, <4>2
          <5> QED
            BY <3>1, <4>2, <5>1 DEF Tokens!Visit, Tokens!Steps
        <4>3. CASE visit[v].pc \notin {"keys", "unknown"}
          <5>1. q = visit[v]
            BY <2>1, <3>2, <4>3
          <5> QED
            BY <3>1, <4>3, <5>1
        <4> QED
          BY <4>1, <4>2, <4>3
      <3>4. q.held /\ ~q.expired => q.key \in flight.keys
        <4>1. q.held /\ ~q.expired => q.key \in cache
          BY <3>1, <3>3 DEF VisitKeyInv
        <4>2. cache \subseteq 1 .. signing /\ cache \cap published \subseteq flight.keys
          BY <2>1, <2>2 DEF KeyInv
        <4>3. q.key # 0 /\ ~q.expired => q.key \in published
          BY <3>1, <3>3 DEF VisitKeyInv
        <4> QED
          BY <4>1, <4>2, <4>3
      <3>5. VisitKeyInv(q)'
        BY <2>1, <3>1, <3>3, <3>4 DEF VisitKeyInv
      <3>6. VisitGrantInv(q)'
        BY <2>1, <3>1, <3>3 DEF VisitGrantInv
      <3> QED
        BY <3>2, <3>3, <3>5, <3>6
    <2>5. visit' \in [Requests -> Tokens!Visit]
      BY <2>1, <2>4
    <2>6. Tokens!TypeOK'
      BY <2>1, <2>3, <2>5, NoFlightType DEF TokensInv, Tokens!TypeOK
    <2>7. GrantInv' /\ KeyInv'
      BY <2>1, <2>2, NoFlightType DEF GrantInv, KeyInv, Tokens!Rows
    <2> QED
      BY <2>4, <2>6, <2>7 DEF TokensInv
  <1>14. CASE Tokens!RefreshFails
    <2>1. /\ faults < MaxFaults /\ faults' = faults + 1 /\ flight' = Tokens!NoFlight
          /\ visit' \in [Requests -> {visit'[v] : v \in Requests}]
          /\ \A v \in Requests :
               visit'[v] = IF visit[v].pc = "keys" /\ cache # {} THEN [visit[v] EXCEPT !.pc = "check"]
                           ELSE IF visit[v].pc \in {"keys", "unknown"}
                           THEN [visit[v] EXCEPT !.pc = "refused", !.why = "key"]
                           ELSE visit[v]
          /\ UNCHANGED <<grants, revoked, straggler, signing, published, cache, stale>>
      BY <1>14 DEF Tokens!RefreshFails, Tokens!Refused
    <2>2. ASSUME NEW v \in Requests
          PROVE  /\ visit'[v] \in Tokens!Visit
                 /\ (VisitGrantInv(visit[v]) /\ VisitKeyInv(visit[v]))'
      <3>1. visit[v] \in Tokens!Visit /\ VisitGrantInv(visit[v]) /\ VisitKeyInv(visit[v])
        BY <1>0
      <3>2. PICK q : q = visit'[v]
        OBVIOUS
      <3>3. /\ q \in Tokens!Visit /\ q.late = visit[v].late /\ q.key = visit[v].key
            /\ q.held = visit[v].held /\ q.expired = visit[v].expired /\ q.found = visit[v].found
            /\ \/ q.pc = visit[v].pc /\ q.pc \notin {"keys", "unknown"} /\ q.why = visit[v].why
               \/ q.pc = "check" /\ visit[v].pc = "keys" /\ q.why = visit[v].why
               \/ /\ q.pc = "refused" /\ q.why = "key"
                  /\ visit[v].pc = "unknown" \/ (visit[v].pc = "keys" /\ cache = {})
        <4>1. CASE visit[v].pc = "keys" /\ cache # {}
          <5>1. q = [visit[v] EXCEPT !.pc = "check"]
            BY <2>1, <3>2, <4>1
          <5> QED
            BY <3>1, <4>1, <5>1 DEF Tokens!Visit, Tokens!Steps
        <4>2. CASE visit[v].pc = "unknown" \/ (visit[v].pc = "keys" /\ cache = {})
          <5>1. q = [visit[v] EXCEPT !.pc = "refused", !.why = "key"]
            BY <2>1, <3>2, <4>2
          <5> QED
            BY <3>1, <4>2, <5>1 DEF Tokens!Visit, Tokens!Steps
        <4>3. CASE visit[v].pc \notin {"keys", "unknown"}
          <5>1. q = visit[v]
            BY <2>1, <3>2, <4>3
          <5> QED
            BY <3>1, <4>3, <5>1
        <4> QED
          BY <4>1, <4>2, <4>3
      <3>4. VisitKeyInv(q)'
        BY <2>1, <3>1, <3>3 DEF VisitKeyInv
      <3>5. VisitGrantInv(q)'
        BY <2>1, <3>1, <3>3 DEF VisitGrantInv
      <3> QED
        BY <3>2, <3>3, <3>4, <3>5
    <2>3. visit' \in [Requests -> Tokens!Visit]
      BY <2>1, <2>2
    <2>4. Tokens!TypeOK'
      <3>1. faults' \in 0 .. MaxFaults
        <4>1. faults \in 0 .. MaxFaults
          BY DEF TokensInv, Tokens!TypeOK
        <4>2. faults < MaxFaults /\ faults' = faults + 1
          BY <2>1
        <4> QED
          BY <4>1, <4>2, TokensBounds
      <3> QED
        BY <2>1, <2>3, <3>1, NoFlightType DEF TokensInv, Tokens!TypeOK
    <2>5. GrantInv' /\ KeyInv'
      BY <2>1, NoFlightType DEF TokensInv, GrantInv, KeyInv, Tokens!Rows
    <2> QED
      BY <2>2, <2>4, <2>5 DEF TokensInv
  <1>15. CASE UNCHANGED Tokens!vars
    BY <1>15 DEF Tokens!vars, TokensInv, Tokens!TypeOK, GrantInv, KeyInv, VisitGrantInv, VisitKeyInv,
                 Tokens!Rows
  <1> QED
    BY <1>1, <1>2, <1>3, <1>4, <1>5, <1>6, <1>7, <1>8, <1>9, <1>10, <1>11, <1>12, <1>13, <1>14, <1>15
       DEF Tokens!Next

(* The inductive invariant of the tokens for servers. *)
THEOREM TokensInvHolds == DesktopSpec => [](part = "tokens" => TokensInv)
  <1>1. DesktopInit => (part = "tokens" => TokensInv)
    BY TokensInit DEF DesktopInit
  <1>2. (part = "tokens" => TokensInv) /\ [DesktopNext]_desktopVars
          => (part = "tokens" => TokensInv)'
    BY PartStep, TokensStep
  <1> QED
    BY <1>1, <1>2, PTL DEF DesktopSpec

(* "New sign-ins are blocked" once a server is revoked (routes.ts, POST              *)
(* /api/connections/revoke), unless a first visit to it was under way.             *)
THEOREM RevocationHoldsTheorem == DesktopSpec => []RevocationHolds
  <1>1. (part = "tokens" => TokensInv) => RevocationHolds
    BY DEF RevocationHolds, TokensInv, Tokens!RevocationHolds, VisitGrantInv
  <1> QED
    BY TokensInvHolds, <1>1, PTL

(* A server that holds the key of a token does not refuse it because the identity     *)
(* service is away, rotates its keys or drops one (server/sso.ts: JwksCache).       *)
THEOREM OutageHarmlessHolds == DesktopSpec => []OutageHarmless
  <1>1. (part = "tokens" => TokensInv) => OutageHarmless
    BY DEF OutageHarmless, TokensInv, Tokens!OutageHarmless, VisitKeyInv
  <1> QED
    BY TokensInvHolds, <1>1, PTL

-------------------------------------------------------------------------------
(* Frame *)

Entries == Seq(Window!Entry)
OnceEach(s) == \A i, j \in DOMAIN s : s[i].id = s[j].id => i = j

(* A list holds every server that was added, each once, but for those added behind  *)
(* the back of a refresh.                                                        *)
Holds(s) ==
  /\ s \in Entries /\ OnceEach(s)
  /\ \A server \in joined \ risky : \E i \in DOMAIN s : s[i].id = server

(* It is so of the store, and of the list that a refresh will write back. *)
FrameInv ==
  /\ address \in [Servers -> Addresses]
  /\ Holds(store)
  /\ refresh.pc = "probing" => Holds(refresh.read)

LEMMA RememberedIds ==
  ASSUME NEW s \in Entries
  PROVE  Window!Remembered(s) = {s[i].id : i \in DOMAIN s}
  BY DEF Window!Remembered, Window!ToSet

LEMMA FrameInit == Window!Init => FrameInv
  <1> SUFFICES ASSUME Window!Init
               PROVE  FrameInv
    OBVIOUS
  <1>1. address \in [Servers -> Addresses]
    BY DEF Window!Init, Window!Injection, Window!IsInjective
  <1>2. store \in Entries /\ Len(store) <= 1
    <2>1. PICK n \in 0 .. Window!Cardinality(Servers) : store \in [1 .. n -> Window!Entry]
      BY DEF Window!Init, Window!Lists
    <2> QED
      BY <2>1 DEF Window!Init, Entries
  <1>3. OnceEach(store)
    BY <1>2 DEF OnceEach, Entries
  <1>4. \A server \in joined : \E i \in DOMAIN store : store[i].id = server
    BY <1>2, RememberedIds DEF Window!Init
  <1>5. refresh.pc # "probing"
    BY DEF Window!Init, Window!NoRefresh
  <1> QED
    BY <1>1, <1>2, <1>3, <1>4, <1>5 DEF FrameInv, Holds

(* A server that is remembered, and what is remembered besides. *)
LEMMA RememberKeeps ==
  ASSUME NEW s \in Entries, OnceEach(s), NEW e \in Window!Entry,
         NEW t, t = Window!Remember(s, e)
  PROVE  /\ t \in Entries /\ OnceEach(t)
         /\ \A i \in DOMAIN s : \E j \in DOMAIN t : t[j].id = s[i].id
         /\ \E j \in DOMAIN t : t[j].id = e.id
  <1>1. CASE e.id \in Window!Remembered(s)
    <2>1. t = [i \in DOMAIN s |-> IF s[i].id = e.id THEN e ELSE s[i]]
      BY <1>1 DEF Window!Remember
    <2>2. DOMAIN t = DOMAIN s /\ \A i \in DOMAIN s : t[i].id = s[i].id /\ t[i] \in Window!Entry
      BY <2>1 DEF Entries
    <2>3. t \in Entries
      BY <2>1, <2>2 DEF Entries
    <2> QED
      BY <1>1, <2>2, <2>3, RememberedIds DEF OnceEach
  <1>2. CASE e.id \notin Window!Remembered(s)
    <2>1. t = Append(s, e)
      BY <1>2 DEF Window!Remember
    <2>2. /\ t \in Entries /\ DOMAIN t = 1 .. Len(s) + 1 /\ DOMAIN s = 1 .. Len(s) /\ Len(s) \in Nat
          /\ \A i \in DOMAIN s : t[i] = s[i]
          /\ t[Len(s) + 1] = e
      BY <2>1 DEF Entries
    <2>3. \A i \in DOMAIN s : s[i].id # e.id
      BY <1>2, RememberedIds
    <2>4. OnceEach(t)
      BY <2>2, <2>3 DEF OnceEach
    <2> QED
      BY <2>2, <2>4
  <1> QED
    BY <1>1, <1>2

LEMMA FrameStep ==
  ASSUME FrameInv, [Window!Next]_(Window!vars)
  PROVE  FrameInv'
  <1> USE DEF Window!stage, Window!world
  (* A step that changes neither the store nor what was added, and no refresh begins. *)
  <1>1. ASSUME UNCHANGED <<store, refresh, joined, risky>>, address' \in [Servers -> Addresses]
        PROVE  FrameInv'
    BY <1>1 DEF FrameInv, Holds, OnceEach
  <1>2. CASE Window!Launch
    BY <1>1, <1>2 DEF Window!Launch, FrameInv
  <1>3. CASE Window!RefreshAll
    <2>1. /\ refresh'.pc = "probing" /\ refresh'.read = store
          /\ UNCHANGED <<store, address, joined, risky>>
      BY <1>3 DEF Window!RefreshAll
    <2> QED
      BY <2>1 DEF FrameInv, Holds, OnceEach
  <1>4. CASE Window!Refreshed
    <2>1. /\ refresh.pc = "probing" /\ refresh' = [refresh EXCEPT !.pc = "done"]
          /\ store' = refresh.read /\ UNCHANGED <<address, joined, risky>>
      BY <1>4 DEF Window!Refreshed, Window!Write
    <2>2. refresh'.pc # "probing"
      BY <2>1
    <2> QED
      BY <2>1, <2>2 DEF FrameInv, Holds, OnceEach
  <1>5. ASSUME NEW c \in Requests, Window!Connected(c)
        PROVE  FrameInv'
    <2>1. PICK s \in Servers :
            /\ address[s] = connect[c].host
            /\ store' = Window!Remember(store, [id |-> s, host |-> connect[c].host])
            /\ joined' = joined \cup {s}
            /\ risky' = IF refresh.pc = "probing" /\ s \notin Window!Remembered(refresh.read)
                        THEN risky \cup {s} ELSE IF refresh.pc = "probing" THEN risky ELSE risky \ {s}
            /\ UNCHANGED <<refresh, address>>
      BY <1>5 DEF Window!Connected
    <2>2. PICK e : e = [id |-> s, host |-> connect[c].host]
      OBVIOUS
    <2>3. e \in Window!Entry /\ e.id = s
      BY <2>1, <2>2 DEF FrameInv, Window!Entry
    <2>4. store \in Entries /\ OnceEach(store) /\ store' = Window!Remember(store, e)
      BY <2>1, <2>2 DEF FrameInv, Holds
    <2>5. /\ store' \in Entries /\ OnceEach(store')
          /\ \A i \in DOMAIN store : \E j \in DOMAIN store' : store'[j].id = store[i].id
          /\ \E j \in DOMAIN store' : store'[j].id = s
      BY <2>3, <2>4, RememberKeeps
    <2>6. Holds(store)'
      <3>1. joined' \ risky' \subseteq (joined \ risky) \cup {s}
        BY <2>1
      <3> QED
        BY <2>5, <3>1 DEF FrameInv, Holds, OnceEach
    <2>7. ASSUME refresh.pc = "probing"
          PROVE  Holds(refresh.read)'
      <3>1. refresh.read \in Entries /\ Holds(refresh.read)
        BY <2>7 DEF FrameInv, Holds
      <3>2. \A server \in joined' \ risky' : server \in joined \ risky \/ server \in Window!Remembered(refresh.read)
        BY <2>1, <2>7
      <3>3. \A server \in joined' \ risky' : \E i \in DOMAIN refresh.read : refresh.read[i].id = server
        BY <3>1, <3>2, RememberedIds DEF Holds
      <3> QED
        BY <2>1, <3>1, <3>3 DEF Holds, OnceEach
    <2> QED
      BY <2>1, <2>6, <2>7 DEF FrameInv
  <1>6. ASSUME NEW c \in Requests,
               Window!NotConnected(c) \/ \E a \in Addresses : Window!Connect(c, a)
        PROVE  FrameInv'
    BY <1>1, <1>6 DEF Window!NotConnected, Window!Connect, FrameInv
  <1>7. ASSUME NEW e, Window!Select(e)
        PROVE  FrameInv'
    BY <1>1, <1>7 DEF Window!Select, FrameInv
  <1>8. CASE Window!Dialog \/ Window!Effect
    BY <1>1, <1>8 DEF Window!Dialog, Window!Effect, FrameInv
  <1>9. ASSUME NEW k \in Calls,
               Window!HideServers(k) \/ Window!ShowServer(k) \/ Window!RaiseServer(k)
        PROVE  FrameInv'
    BY <1>1, <1>9 DEF Window!HideServers, Window!ShowServer, Window!RaiseServer, FrameInv
  <1>10. ASSUME NEW s \in Servers, NEW a \in Addresses, Window!Move(s, a)
         PROVE  FrameInv'
    <2>1. UNCHANGED <<store, refresh, joined, risky>> /\ address' = [address EXCEPT ![s] = a]
      BY <1>10 DEF Window!Move
    <2>2. address' \in [Servers -> Addresses]
      BY <2>1 DEF FrameInv
    <2> QED
      BY <1>1, <2>1, <2>2
  <1>11. CASE UNCHANGED Window!vars
    BY <1>1, <1>11 DEF Window!vars, FrameInv
  <1> QED
    BY <1>2, <1>3, <1>4, <1>5, <1>6, <1>7, <1>8, <1>9, <1>10, <1>11 DEF Window!Next

(* The inductive invariant of the frame's list of servers. *)
THEOREM FrameInvHolds == DesktopSpec => [](part = "frame" => FrameInv)
  <1>1. DesktopInit => (part = "frame" => FrameInv)
    BY FrameInit DEF DesktopInit
  <1>2. (part = "frame" => FrameInv) /\ [DesktopNext]_desktopVars
          => (part = "frame" => FrameInv)'
    BY PartStep, FrameStep
  <1> QED
    BY <1>1, <1>2, PTL DEF DesktopSpec

(* "A server that's off stays in the list" (desktop/src/App.tsx:258), and so does one  *)
(* that was added, once, unless a refresh that had not read it was under way.      *)
THEOREM RememberedOnceHolds == DesktopSpec => []RememberedOnce
  <1>1. (part = "frame" => FrameInv) => RememberedOnce
    BY RememberedIds DEF RememberedOnce, Window!RememberedOnce, FrameInv, Holds, OnceEach
  <1> QED
    BY FrameInvHolds, <1>1, PTL
===============================================================================
