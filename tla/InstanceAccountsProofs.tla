------------------------- MODULE InstanceAccountsProofs -------------------------
(*****************************************************************************)
(* Proofs about InstanceAccounts, for every set of identities, any number of  *)
(* requests in flight and any bounds; and, as MCInstance composes them, about  *)
(* Discovery, for any number of changes of the world, and SurfaceConformance,  *)
(* for any number of disturbances.                                            *)
(*****************************************************************************)
EXTENDS MCInstance, Sequences, FiniteSetTheorems, TLAPS

(* Accounts are numbered without gaps, so the next number is one nobody has. *)
LEMMA NextId ==
  ASSUME TypeOK
  PROVE  \E n \in 0..MaxAccounts :
           Accounts = 1..n /\ Cardinality(Accounts) = n /\ (Accounts = {} <=> n = 0)
  <1>1. PICK n \in 0..MaxAccounts : Accounts = 1..n
    BY DEF TypeOK
  <1>2. n \in Nat
    BY BoundsAssumption
  <1>3. Cardinality(1..n) = IF 1 > n THEN 0 ELSE n - 1 + 1
    BY <1>2, FS_Interval
  <1>4. Cardinality(1..n) = n
    BY <1>2, <1>3
  <1>5. 1..n = {} <=> n = 0
    BY <1>2
  <1> QED
    BY <1>1, <1>4, <1>5

LEMMA IdleFacts == Idle \in Request /\ Idle.pc = "idle"
  BY BoundsAssumption DEF Idle, Request, Steps, NobodyId

LEMMA EffectiveFacts ==
  \A stored \in Policy \union {"none"} : Effective(stored) \in Policy
  BY EnvPolicyAssumption DEF Effective, Policy

(* A request begins with the policy in force. *)
LEMMA BeginFacts ==
  ASSUME TypeOK, NEW goal \in Steps
  PROVE  /\ Begin(goal) \in Request
         /\ Begin(goal) = [Idle EXCEPT !.pc = goal, !.inForce = {Effective(saved)}]
         /\ Begin(goal).pc = goal /\ Begin(goal).inForce = {Effective(saved)}
  <1>1. {Effective(saved)} \in SUBSET Policy
    BY EffectiveFacts DEF TypeOK
  <1>2. Begin(goal) = [Idle EXCEPT !.pc = goal, !.inForce = {Effective(saved)}]
    BY DEF Begin
  <1> QED
    BY <1>1, <1>2, IdleFacts DEF Request

(* A request's own move to another step. *)
LEMMA GotoFacts ==
  ASSUME TypeOK, NEW r \in Requests, NEW goal \in Steps, Goto(r, goal)
  PROVE  \E q \in Request :
           /\ req' = [req EXCEPT ![r] = q]
           /\ q.pc = goal /\ q.user = req[r].user /\ q.target = req[r].target
           /\ q.subject = req[r].subject /\ q.role = req[r].role
           /\ q.policy = req[r].policy /\ q.inForce = req[r].inForce
  <1> DEFINE q == [req[r] EXCEPT !.pc = goal]
  <1>1. req[r] \in Request /\ req \in [Requests -> Request]
    BY DEF TypeOK
  <1>2. q \in Request
    BY <1>1 DEF Request
  <1>3. /\ q.pc = goal /\ q.user = req[r].user /\ q.target = req[r].target
        /\ q.subject = req[r].subject /\ q.role = req[r].role
        /\ q.policy = req[r].policy /\ q.inForce = req[r].inForce
    BY <1>1 DEF Request
  <1>4. req' = [req EXCEPT ![r] = q]
    BY <1>1 DEF Goto
  <1> QED
    BY <1>2, <1>3, <1>4

-----------------------------------------------------------------------------
(* The users table *)

(* A new account takes the next number and leaves the others alone. *)
LEMMA InsertFacts ==
  ASSUME TypeOK, NEW role \in {"user", "admin"}, NEW s \in Subjects \union {Unbound},
         s = Unbound \/ BoundTo(s) = {}, Insert(role, s)
  PROVE  /\ users' \in [Ids -> User]
         /\ \E n \in 0..MaxAccounts : Accounts' = 1..n
         /\ \A t \in Subjects : \A u, v \in BoundTo(t)' : u = v
         /\ Accounts \subseteq Accounts' /\ Accounts' # {}
         /\ \E n \in Ids : /\ n = Cardinality(Accounts) + 1 /\ n \notin Accounts
                           /\ (n = 1 <=> Accounts = {})
                           /\ users' = [users EXCEPT ![n] = [role |-> role, sso |-> s]]
  <1>1. PICK n \in 0..MaxAccounts :
          Accounts = 1..n /\ Cardinality(Accounts) = n /\ (Accounts = {} <=> n = 0)
    BY NextId
  <1>2. n \in Nat /\ n + 1 \in Ids /\ n + 1 \in 0..MaxAccounts
    BY <1>1, BoundsAssumption DEF Insert, Ids
  <1>3. users' = [users EXCEPT ![n + 1] = [role |-> role, sso |-> s]]
    BY <1>1 DEF Insert
  <1>4. users \in [Ids -> User] /\ [role |-> role, sso |-> s] \in User
    BY DEF TypeOK, User
  <1>5. users' \in [Ids -> User]
    BY <1>3, <1>4
  <1>6. Accounts' = Accounts \union {n + 1}
    BY <1>2, <1>3, <1>4 DEF Accounts
  <1>7. Accounts' = 1..(n + 1) /\ n + 1 \notin Accounts
    BY <1>1, <1>2, <1>6
  <1>8. ASSUME NEW t \in Subjects, NEW u \in BoundTo(t)', NEW v \in BoundTo(t)'
        PROVE  u = v
    <2>1. \A w \in BoundTo(t)' : w \in BoundTo(t) \/ (w = n + 1 /\ s = t)
      BY <1>2, <1>3, <1>4, <1>6 DEF BoundTo, Accounts
    <2>2. s # t \/ BoundTo(t) = {}
      BY UnboundAssumption
    <2> QED
      BY <1>8, <2>1, <2>2 DEF TypeOK
  <1>9. n + 1 = 1 <=> Accounts = {}
    BY <1>1, <1>2
  <1>10. Accounts \subseteq Accounts' /\ Accounts' # {}
    BY <1>6
  <1>11. \E m \in Ids : /\ m = Cardinality(Accounts) + 1 /\ m \notin Accounts
                       /\ (m = 1 <=> Accounts = {})
                       /\ users' = [users EXCEPT ![m] = [role |-> role, sso |-> s]]
    BY <1>1, <1>2, <1>3, <1>7, <1>9
  <1> QED
    BY <1>2, <1>5, <1>7, <1>8, <1>10, <1>11

(* An account keeps existing when a column of its row changes. *)
LEMMA UpdateFacts ==
  ASSUME TypeOK, NEW u \in Accounts, NEW row \in User, row.role # "none",
         users' = [users EXCEPT ![u] = row]
  PROVE  users' \in [Ids -> User] /\ Accounts' = Accounts
  BY DEF TypeOK, Accounts

(* What a step of the whole instance does to the users table. *)
LEMMA UsersStep ==
  ASSUME IndInv, NEW r \in Requests, Step(r)
  PROVE  /\ users' \in [Ids -> User]
         /\ \E n \in 0..MaxAccounts : Accounts' = 1..n
         /\ \A t \in Subjects : \A u, v \in BoundTo(t)' : u = v
         /\ Accounts \subseteq Accounts'
         /\ \/ users' = users /\ boots' = boots
            \/ /\ req[r].pc = "bind" /\ Accounts # {} /\ Accounts' = Accounts /\ boots' = boots
               /\ \A u \in Ids : users'[u].role = users[u].role
            \/ /\ req[r].pc = "setRole" /\ Accounts # {} /\ Accounts' = Accounts /\ boots' = boots
               /\ req' = [req EXCEPT ![r] = Idle]
               /\ \A u \in Ids : users'[u].role = IF u = req[r].target THEN req[r].role ELSE users[u].role
            \/ \E n \in Ids :
                 /\ n \notin Accounts /\ Accounts' # {} /\ (n = 1 <=> Accounts = {})
                 /\ \A u \in Ids \ {n} : users'[u].role = users[u].role
                 /\ IF Accounts = {} THEN boots' = boots \union {1}
                      ELSE boots' = boots /\ users'[n].role = "user" /\ CanRegister(req[r], FALSE)
                 /\ req[r].pc \in {"create", "ssoCreate"}
                 /\ req' = [req EXCEPT ![r] = Idle]
  <1>1. TypeOK /\ Sound(req[r]) /\ req[r] \in Request
    BY DEF IndInv, TypeOK
  <1>2. CASE users' = users /\ boots' = boots
    BY <1>1, <1>2 DEF TypeOK, Accounts, BoundTo
  <1>3. CASE CreateUserUnderBootstrapLock(r)
    <2> DEFINE role == IF Accounts = {} THEN "admin" ELSE "user"
    <2>1. CASE CanRegister(req[r], Accounts = {})
      <3>1. Insert(role, Unbound) /\ role \in {"user", "admin"}
        BY <1>3, <2>1 DEF CreateUserUnderBootstrapLock
      <3>2. boots' = IF Accounts = {} THEN boots \union {Cardinality(Accounts) + 1} ELSE boots
        BY <1>3, <2>1 DEF CreateUserUnderBootstrapLock
      <3>3. req[r].pc = "create" /\ req' = [req EXCEPT ![r] = Idle]
        BY <1>3 DEF CreateUserUnderBootstrapLock, End
      <3>4. users \in [Ids -> User]
        BY <1>1 DEF TypeOK
      <3> HIDE DEF role
      <3>5. /\ users' \in [Ids -> User]
            /\ \E n \in 0..MaxAccounts : Accounts' = 1..n
            /\ \A t \in Subjects : \A u, v \in BoundTo(t)' : u = v
            /\ Accounts \subseteq Accounts' /\ Accounts' # {}
        BY <1>1, <3>1, InsertFacts
      <3>6. PICK n \in Ids : /\ n = Cardinality(Accounts) + 1 /\ n \notin Accounts
                             /\ (n = 1 <=> Accounts = {})
                             /\ users' = [users EXCEPT ![n] = [role |-> role, sso |-> Unbound]]
        BY <1>1, <3>1, InsertFacts
      <3>7. users'[n].role = role /\ \A u \in Ids \ {n} : users'[u].role = users[u].role
        BY <3>4, <3>6
      <3>8. IF Accounts = {} THEN boots' = boots \union {1}
              ELSE boots' = boots /\ users'[n].role = "user" /\ CanRegister(req[r], FALSE)
        <4>1. CASE Accounts = {}
          BY <3>2, <3>6, <4>1
        <4>2. CASE Accounts # {}
          <5>1. (Accounts = {}) = FALSE
            BY <4>2
          <5> QED
            BY <2>1, <3>2, <3>7, <4>2, <5>1 DEF role
        <4> QED
          BY <4>1, <4>2
      <3> QED
        BY <3>3, <3>5, <3>6, <3>7, <3>8
    <2>2. CASE ~CanRegister(req[r], Accounts = {})
      BY <1>2, <1>3, <2>2 DEF CreateUserUnderBootstrapLock
    <2> QED
      BY <2>1, <2>2
  <1>4. CASE CreateSsoUser(r)
    <2>0. req[r].pc = "ssoCreate" /\ req' = [req EXCEPT ![r] = Idle] /\ boots' = boots
      BY <1>4 DEF CreateSsoUser, End
    <2>1. CASE CanRegister(req[r], FALSE) /\ BoundTo(req[r].subject) = {}
      <3>1. Insert("user", req[r].subject) /\ req[r].subject \in Subjects /\ Accounts # {}
        BY <1>1, <1>4, <2>0, <2>1 DEF CreateSsoUser, Sound
      <3>2. users \in [Ids -> User]
        BY <1>1 DEF TypeOK
      <3>3. /\ users' \in [Ids -> User]
            /\ \E n \in 0..MaxAccounts : Accounts' = 1..n
            /\ \A t \in Subjects : \A u, v \in BoundTo(t)' : u = v
            /\ Accounts \subseteq Accounts' /\ Accounts' # {}
        BY <1>1, <2>1, <3>1, InsertFacts
      <3>4. PICK n \in Ids : /\ n = Cardinality(Accounts) + 1 /\ n \notin Accounts
                             /\ (n = 1 <=> Accounts = {})
                             /\ users' = [users EXCEPT ![n] = [role |-> "user", sso |-> req[r].subject]]
        BY <1>1, <2>1, <3>1, InsertFacts
      <3>5. users'[n].role = "user" /\ \A u \in Ids \ {n} : users'[u].role = users[u].role
        BY <3>2, <3>4
      <3> QED
        BY <2>0, <2>1, <3>1, <3>3, <3>4, <3>5
    <2>2. CASE ~(CanRegister(req[r], FALSE) /\ BoundTo(req[r].subject) = {})
      BY <1>2, <1>4, <2>0, <2>2 DEF CreateSsoUser
    <2> QED
      BY <2>1, <2>2
  <1>5. CASE LinkSsoSubject(r)
    <2> DEFINE u == req[r].user
               s == req[r].subject
    <2>0. u \in Accounts /\ s \in Subjects /\ req[r].pc = "bind" /\ boots' = boots /\ users \in [Ids -> User]
      BY <1>1, <1>5 DEF LinkSsoSubject, Sound, TypeOK
    <2>1. CASE BoundTo(s) \subseteq {u}
      <3>1. users' = [users EXCEPT ![u] = [users[u] EXCEPT !.sso = s]]
        BY <1>5, <2>0, <2>1 DEF LinkSsoSubject
      <3>2. /\ u \in Ids /\ users[u].role # "none" /\ [users[u] EXCEPT !.sso = s] \in User
            /\ [users[u] EXCEPT !.sso = s].role = users[u].role
            /\ [users[u] EXCEPT !.sso = s].sso = s
        BY <2>0 DEF Accounts, User
      <3> HIDE DEF u, s
      <3>3. users' \in [Ids -> User] /\ Accounts' = Accounts
        BY <1>1, <2>0, <3>1, <3>2, UpdateFacts
      <3>4. \A w \in Ids : users'[w].role = users[w].role
        BY <2>0, <3>1, <3>2
      <3>5. \A t \in Subjects : \A v, w \in BoundTo(t)' : v = w
        <4>1. \A t \in Subjects : \A w \in BoundTo(t)' : w \in BoundTo(t) \/ (w = u /\ t = s)
          BY <2>0, <3>1, <3>2, <3>3 DEF BoundTo, Accounts
        <4> QED
          BY <1>1, <2>1, <4>1 DEF TypeOK
      <3> QED
        BY <1>1, <2>0, <3>3, <3>4, <3>5 DEF TypeOK
    <2>2. CASE ~(BoundTo(s) \subseteq {u})
      BY <1>2, <1>5, <2>0, <2>2 DEF LinkSsoSubject
    <2> QED
      BY <2>1, <2>2
  <1>6. CASE WriteUserRole(r)
    <2> DEFINE u == req[r].target
    <2>0. /\ u \in Accounts /\ req[r].pc = "setRole" /\ boots' = boots /\ users \in [Ids -> User]
          /\ req[r].role \in {"user", "admin"} /\ req' = [req EXCEPT ![r] = Idle]
      BY <1>1, <1>6 DEF WriteUserRole, End, Sound, TypeOK, Request
    <2>1. users' = [users EXCEPT ![u] = [users[u] EXCEPT !.role = req[r].role]]
      BY <1>6, <2>0 DEF WriteUserRole
    <2>2. /\ u \in Ids /\ [users[u] EXCEPT !.role = req[r].role] \in User
          /\ [users[u] EXCEPT !.role = req[r].role].role = req[r].role
          /\ [users[u] EXCEPT !.role = req[r].role].sso = users[u].sso
      BY <2>0 DEF Accounts, User
    <2> HIDE DEF u
    <2>3. users' \in [Ids -> User] /\ Accounts' = Accounts
      BY <1>1, <2>0, <2>1, <2>2, UpdateFacts
    <2>4. \A w \in Ids : /\ users'[w].role = IF w = u THEN req[r].role ELSE users[w].role
                         /\ users'[w].sso = users[w].sso
      BY <2>0, <2>1, <2>2
    <2>5. \A t \in Subjects : BoundTo(t)' = BoundTo(t)
      BY <2>3, <2>4 DEF BoundTo, Accounts
    <2> QED
      BY <1>1, <2>0, <2>3, <2>4, <2>5 DEF TypeOK, u
  <1>7. CASE \/ \E token, invited \in BOOLEAN : Register(r, token, invited)
             \/ \E s \in Subjects : SsoRegister(r, s) \/ \E u \in Ids : LinkSso(r, u, s)
             \/ \E u, target \in Ids, role \in {"user", "admin"} : SetUserRole(r, u, target, role)
             \/ \E u \in Ids, policy \in Policy \union {"keep"} : UpdateSettings(r, u, policy)
    BY <1>2, <1>7 DEF Register, SsoRegister, LinkSso, SetUserRole, UpdateSettings
  <1>8. CASE RegisterSettings(r) \/ SsoSubject(r) \/ SsoCount(r) \/ SsoSettings(r) \/ LinkOwner(r)
             \/ SaveRead(r) \/ SaveSettings(r) \/ Abort(r)
    BY <1>2, <1>8
    DEF RegisterSettings, SsoSubject, SsoCount, SsoSettings, LinkOwner, SaveRead, SaveSettings, Abort
  <1> QED
    BY <1>3, <1>4, <1>5, <1>6, <1>7, <1>8 DEF Step

-----------------------------------------------------------------------------
(* The requests *)

(* What a request has checked stays true as the instance gains accounts. *)
LEMMA SoundKept ==
  ASSUME IndInv, UNCHANGED saved, Accounts \subseteq Accounts',
         faults' \in Nat, faults <= faults'
  PROVE  \A s \in Requests : req'[s] = req[s] => Sound(req[s])'
  <1>1. faults \in Nat /\ (faults > 0 => faults' > 0)
    BY BoundsAssumption DEF IndInv, TypeOK
  <1>2. ASSUME NEW s \in Requests, req'[s] = req[s] PROVE Sound(req[s])'
    <2>1. Sound(req[s])
      BY DEF IndInv
    <2> QED
      BY <1>1, <1>2, <2>1 DEF Sound
  <1> QED
    BY <1>2

(* So the requests stay sound when one of them moves soundly. *)
LEMMA RequestsKept ==
  ASSUME IndInv, NEW r \in Requests, NEW q \in Request, req' = [req EXCEPT ![r] = q],
         UNCHANGED saved, Accounts \subseteq Accounts', faults' \in 0..MaxFaults, faults <= faults',
         Sound(req[r])'
  PROVE  req' \in [Requests -> Request] /\ \A s \in Requests : Sound(req[s])'
  <1>1. req \in [Requests -> Request]
    BY DEF IndInv, TypeOK
  <1>2. \A s \in Requests : s # r => req'[s] = req[s]
    BY <1>1
  <1> QED
    BY <1>1, <1>2, SoundKept, BoundsAssumption

(* A request that ends leaves nothing behind. *)
LEMMA IdleSound ==
  ASSUME NEW r \in Requests, req'[r] = Idle
  PROVE  Sound(req[r])'
  BY IdleFacts DEF Sound

(* A request begins on grounds that stay true. *)
LEMMA BeginSound ==
  ASSUME IndInv, NEW r \in Requests, UNCHANGED <<users, saved, faults>>,
         \/ \E token, invited \in BOOLEAN : Register(r, token, invited)
         \/ \E s \in Subjects : SsoRegister(r, s) \/ \E u \in Ids : LinkSso(r, u, s)
         \/ \E u, target \in Ids, role \in {"user", "admin"} : SetUserRole(r, u, target, role)
         \/ \E u \in Ids, policy \in Policy \union {"keep"} : UpdateSettings(r, u, policy)
  PROVE  \E q \in Request : req' = [req EXCEPT ![r] = q] /\ Sound(req[r])'
  <1> DEFINE Goal == \E q \in Request : req' = [req EXCEPT ![r] = q] /\ Sound(req[r])'
  <1>1. TypeOK /\ req \in [Requests -> Request] /\ Effective(saved') = Effective(saved)
    BY DEF IndInv, TypeOK
  <1>2. Ids \subseteq 0..MaxAccounts /\ Accounts \subseteq Ids /\ Accounts' = Accounts
    BY BoundsAssumption DEF Ids, Accounts
  <1>3. ASSUME NEW q \in Request, req' = [req EXCEPT ![r] = q], Effective(saved) \in q.inForce,
               \/ q.pc = "settings"
               \/ q.pc = "subject" /\ q.subject \in Subjects
               \/ q.pc = "owner" /\ q.subject \in Subjects /\ q.user \in Accounts
               \/ q.pc = "setRole" /\ q.target \in Accounts
               \/ q.pc = "saveRead"
        PROVE  Goal
    <2>1. req'[r] = q
      BY <1>1, <1>3
    <2>2. Sound(req[r])'
      BY <1>1, <1>2, <1>3, <2>1 DEF Sound
    <2> QED
      BY <1>3, <2>2
  <1>4. ASSUME NEW token \in BOOLEAN, NEW invited \in BOOLEAN, Register(r, token, invited) PROVE Goal
    <2> DEFINE q == [Begin("settings") EXCEPT !.token = token, !.invited = invited]
    <2>1. Begin("settings") \in Request /\ Begin("settings").pc = "settings"
          /\ Begin("settings").inForce = {Effective(saved)}
      BY <1>1, BeginFacts DEF Steps
    <2>2. q \in Request /\ q.pc = "settings" /\ Effective(saved) \in q.inForce
      BY <2>1 DEF Request
    <2>3. req' = [req EXCEPT ![r] = q]
      BY <1>4 DEF Register
    <2> HIDE DEF q
    <2> QED
      BY <1>3, <2>2, <2>3
  <1>5. ASSUME NEW s \in Subjects, SsoRegister(r, s) PROVE Goal
    <2> DEFINE q == [Begin("subject") EXCEPT !.subject = s]
    <2>1. Begin("subject") \in Request /\ Begin("subject").pc = "subject"
          /\ Begin("subject").inForce = {Effective(saved)}
      BY <1>1, BeginFacts DEF Steps
    <2>2. q \in Request /\ q.pc = "subject" /\ q.subject = s /\ Effective(saved) \in q.inForce
      BY <2>1 DEF Request
    <2>3. req' = [req EXCEPT ![r] = q]
      BY <1>5 DEF SsoRegister
    <2> HIDE DEF q
    <2> QED
      BY <1>3, <2>2, <2>3
  <1>6. ASSUME NEW s \in Subjects, NEW u \in Ids, LinkSso(r, u, s) PROVE Goal
    <2> DEFINE q == [Begin("owner") EXCEPT !.user = u, !.subject = s]
    <2>1. Begin("owner") \in Request /\ Begin("owner").pc = "owner"
          /\ Begin("owner").inForce = {Effective(saved)}
      BY <1>1, BeginFacts DEF Steps
    <2>2. q \in Request /\ q.pc = "owner" /\ q.subject = s /\ q.user = u /\ Effective(saved) \in q.inForce
      BY <1>2, <2>1 DEF Request
    <2>3. req' = [req EXCEPT ![r] = q] /\ u \in Accounts
      BY <1>6 DEF LinkSso
    <2> HIDE DEF q
    <2> QED
      BY <1>3, <2>2, <2>3
  <1>7. ASSUME NEW u \in Ids, NEW target \in Ids, NEW role \in {"user", "admin"},
               SetUserRole(r, u, target, role)
        PROVE  Goal
    <2> DEFINE q == [Begin("setRole") EXCEPT !.user = u, !.target = target, !.role = role]
    <2>1. Begin("setRole") \in Request /\ Begin("setRole").pc = "setRole"
          /\ Begin("setRole").inForce = {Effective(saved)}
      BY <1>1, BeginFacts DEF Steps
    <2>2. q \in Request /\ q.pc = "setRole" /\ q.target = target /\ Effective(saved) \in q.inForce
      BY <1>2, <2>1 DEF Request
    <2>3. req' = [req EXCEPT ![r] = q] /\ target \in Accounts
      BY <1>7 DEF SetUserRole
    <2> HIDE DEF q
    <2> QED
      BY <1>3, <2>2, <2>3
  <1>8. ASSUME NEW u \in Ids, NEW policy \in Policy \union {"keep"}, UpdateSettings(r, u, policy) PROVE Goal
    <2> DEFINE q == [Begin("saveRead") EXCEPT !.user = u, !.policy = policy]
    <2>1. Begin("saveRead") \in Request /\ Begin("saveRead").pc = "saveRead"
          /\ Begin("saveRead").inForce = {Effective(saved)}
      BY <1>1, BeginFacts DEF Steps
    <2>2. q \in Request /\ q.pc = "saveRead" /\ Effective(saved) \in q.inForce
      BY <1>2, <2>1 DEF Request
    <2>3. req' = [req EXCEPT ![r] = q]
      BY <1>8 DEF UpdateSettings
    <2> HIDE DEF q
    <2> QED
      BY <1>3, <2>2, <2>3
  <1> QED
    BY <1>4, <1>5, <1>6, <1>7, <1>8

(* A request that reads keeps its grounds: what it read is in force, or was     *)
(* taken from the environment after a fault.                                    *)
LEMMA ReadSound ==
  ASSUME IndInv, NEW r \in Requests, UNCHANGED <<users, saved>>,
         \/ RegisterSettings(r) \/ SsoSubject(r) \/ SsoCount(r) \/ SsoSettings(r) \/ LinkOwner(r)
         \/ SaveRead(r) \/ Abort(r)
  PROVE  /\ faults' \in 0..MaxFaults /\ faults <= faults'
         /\ \E q \in Request : req' = [req EXCEPT ![r] = q] /\ Sound(req[r])'
  <1> DEFINE Goal == \E q \in Request : req' = [req EXCEPT ![r] = q] /\ Sound(req[r])'
             Counted == faults' \in 0..MaxFaults /\ faults <= faults'
  <1>1. /\ TypeOK /\ Sound(req[r]) /\ req[r] \in Request /\ req \in [Requests -> Request]
        /\ faults \in 0..MaxFaults /\ MaxFaults \in Nat
    BY BoundsAssumption DEF IndInv, TypeOK
  <1>2. Accounts' = Accounts /\ saved' = saved
    BY DEF Accounts
  <1>3. ASSUME End(r) PROVE Goal
    BY <1>1, <1>3, IdleFacts, IdleSound DEF End
  <1>4. ASSUME NEW goal \in {"count", "ssoSettings", "bind", "saveInsert", "saveUpdate"}, Goto(r, goal),
               req[r].pc # "idle",
               goal \in {"count", "ssoSettings", "bind"} => req[r].subject \in Subjects,
               goal \in {"ssoSettings", "bind"} => Accounts # {},
               goal = "bind" => req[r].user \in Accounts,
               goal = "saveUpdate" => saved # "none"
        PROVE  Goal
    <2>1. PICK q \in Request :
           /\ req' = [req EXCEPT ![r] = q]
           /\ q.pc = goal /\ q.user = req[r].user /\ q.target = req[r].target
           /\ q.subject = req[r].subject /\ q.role = req[r].role
           /\ q.policy = req[r].policy /\ q.inForce = req[r].inForce
      BY <1>1, <1>4, GotoFacts DEF Steps
    <2>2. req'[r] = q
      BY <1>1, <2>1
    <2>3. Effective(saved) \in q.inForce
      BY <1>1, <1>4, <2>1 DEF Sound
    <2>4. Sound(req[r])'
      BY <1>2, <1>4, <2>1, <2>2, <2>3 DEF Sound
    <2> QED
      BY <2>1, <2>4
  <1>5. ASSUME NEW next \in {"create", "ssoCreate"}, ReadSettings(r, next), req[r].pc # "idle",
               next = "ssoCreate" => Accounts # {} /\ req[r].subject \in Subjects
        PROVE  Counted /\ Goal
    <2>1. ASSUME NEW policy \in Policy, req' = [req EXCEPT ![r].pc = next, ![r].policy = policy],
                 policy \in req[r].inForce \/ (policy = EnvPolicy /\ faults' > 0)
          PROVE  Goal
      <3> DEFINE q == [req[r] EXCEPT !.pc = next, !.policy = policy]
      <3>1. /\ q \in Request /\ q.pc = next /\ q.policy = policy
            /\ q.subject = req[r].subject /\ q.inForce = req[r].inForce
        BY <1>1, <1>5, <2>1 DEF Request, Steps
      <3>2. req' = [req EXCEPT ![r] = q]
        BY <1>1, <2>1
      <3> HIDE DEF q
      <3>3. req'[r] = q
        BY <1>1, <3>2
      <3>4. Effective(saved) \in q.inForce
        BY <1>1, <1>5, <3>1 DEF Sound
      <3>5. Sound(req[r])'
        BY <1>2, <1>5, <2>1, <3>1, <3>3, <3>4 DEF Sound
      <3> QED
        BY <3>1, <3>2, <3>5
    <2>2. Effective(saved) \in req[r].inForce /\ Effective(saved) \in Policy /\ EnvPolicy \in Policy
      BY <1>1, <1>5, EffectiveFacts, EnvPolicyAssumption DEF Sound, TypeOK, Policy
    <2>3. CASE faults' = faults
      BY <1>1, <1>5, <2>1, <2>2, <2>3 DEF ReadSettings
    <2>4. CASE faults' # faults
      <3>1. faults < MaxFaults /\ faults' = faults + 1
            /\ req' = [req EXCEPT ![r].pc = next, ![r].policy = EnvPolicy]
        BY <1>5, <2>4 DEF ReadSettings
      <3>2. Counted /\ faults' > 0
        BY <1>1, <3>1
      <3> QED
        BY <2>1, <2>2, <3>1, <3>2
    <2> QED
      BY <2>3, <2>4
  <1>6. CASE RegisterSettings(r) \/ SsoSettings(r)
    BY <1>1, <1>5, <1>6 DEF RegisterSettings, SsoSettings, Sound
  <1>7. CASE SsoSubject(r) \/ SsoCount(r) \/ LinkOwner(r) \/ Abort(r)
    <2>1. Counted
      BY <1>1, <1>7 DEF SsoSubject, SsoCount, LinkOwner, Abort
    <2> QED
      BY <1>1, <1>3, <1>4, <1>7, <2>1 DEF SsoSubject, SsoCount, LinkOwner, Abort, Sound
  <1>8. CASE SaveRead(r)
    <2>1. Counted
      BY <1>1, <1>8 DEF SaveRead
    <2> QED
      BY <1>4, <1>8, <2>1 DEF SaveRead
  <1> QED
    BY <1>6, <1>7, <1>8

(* Saved settings are in force from then on for every request being served. *)
LEMMA SaveFacts ==
  ASSUME IndInv, NEW r \in Requests, SaveSettings(r)
  PROVE  /\ saved' \in Policy \union {"none"} /\ faults' = faults
         /\ req' \in [Requests -> Request] /\ \A s \in Requests : Sound(req[s])'
  <1> DEFINE policy == Effective(Written(r))
  <1>1. TypeOK /\ Sound(req[r]) /\ req[r] \in Request /\ req \in [Requests -> Request]
    BY DEF IndInv, TypeOK
  <1>2. /\ req[r].pc \in {"saveInsert", "saveUpdate"} /\ saved' = Written(r)
        /\ UNCHANGED <<users, faults>>
    BY <1>1 DEF SaveSettings
  <1>3. Written(r) \in Policy
    BY <1>1, <1>2 DEF Written, Sound, TypeOK, Request, Policy
  <1>4. policy \in Policy /\ Effective(saved') = policy /\ saved' # "none" /\ Accounts' = Accounts
    BY <1>2, <1>3, EffectiveFacts DEF Policy, Accounts
  <1>5. \A s \in Requests :
          req'[s] = IF s = r \/ req[s].pc = "idle" THEN Idle
                    ELSE [req[s] EXCEPT !.inForce = @ \union {policy}]
    BY DEF SaveSettings
  <1>6. req' = [s \in Requests |-> req'[s]]
    BY DEF SaveSettings
  <1> HIDE DEF policy
  <1>7. ASSUME NEW s \in Requests
        PROVE  req'[s] \in Request /\ Sound(req[s])'
    <2>1. req[s] \in Request /\ Sound(req[s])
      BY <1>1 DEF IndInv
    <2>2. CASE s = r \/ req[s].pc = "idle"
      BY <1>5, <2>2, IdleFacts, IdleSound
    <2>3. CASE s # r /\ req[s].pc # "idle"
      <3> DEFINE q == [req[s] EXCEPT !.inForce = @ \union {policy}]
      <3>1. /\ q \in Request /\ q.pc = req[s].pc /\ q.user = req[s].user /\ q.target = req[s].target
            /\ q.subject = req[s].subject /\ q.policy = req[s].policy
            /\ q.inForce = req[s].inForce \union {policy}
        BY <1>4, <2>1 DEF Request
      <3>2. req'[s] = q
        BY <1>5, <2>3
      <3> HIDE DEF q
      <3>3. Sound(req[s])'
        BY <1>2, <1>4, <2>1, <3>1, <3>2 DEF Sound
      <3> QED
        BY <3>1, <3>2, <3>3
    <2> QED
      BY <2>2, <2>3
  <1> QED
    BY <1>2, <1>3, <1>6, <1>7

-----------------------------------------------------------------------------
(* The invariant *)

LEMMA InitInd == Init => IndInv
  <1> SUFFICES ASSUME Init PROVE IndInv
    OBVIOUS
  <1>1. Accounts = {} /\ \A s \in Subjects : BoundTo(s) = {}
    BY DEF Init, Accounts, BoundTo, NoUser
  <1>2. 0 \in 0..MaxAccounts /\ 0 \in 0..MaxFaults /\ 1..0 = {}
    BY BoundsAssumption
  <1>3. TypeOK
    BY <1>1, <1>2, IdleFacts DEF Init, TypeOK, User, NoUser
  <1>4. OneBootstrap
    <2>1. Cardinality({}) = 0
      BY FS_EmptySet
    <2> QED
      BY <1>1, <2>1 DEF Init, OneBootstrap
  <1>5. \A r \in Requests : Sound(req[r])
    BY IdleFacts DEF Init, Sound
  <1> QED
    BY <1>3, <1>4, <1>5 DEF IndInv, Init

(* The first account is the only one created as such. *)
LEMMA BootstrapKept ==
  ASSUME IndInv, NEW r \in Requests, Step(r)
  PROVE  boots' \subseteq Ids /\ OneBootstrap' /\ (Accounts' = {} => boots' = {})
  <1>1. boots \subseteq Ids /\ OneBootstrap /\ (Accounts = {} => boots = {})
    BY DEF IndInv, TypeOK
  <1>2. Accounts \subseteq Accounts'
    BY UsersStep
  <1>3. Cardinality({1}) = 1 /\ 1 \in Ids
    <2>1. Cardinality({1}) = 1
      BY FS_Singleton
    <2> QED
      BY <2>1, BoundsAssumption DEF Ids
  <1>4. CASE boots' = boots /\ (Accounts' = {} <=> Accounts = {})
    BY <1>1, <1>4 DEF OneBootstrap
  <1>5. CASE Accounts' # {} /\ boots' = {1}
    BY <1>3, <1>5 DEF OneBootstrap
  <1>6. users' = users => Accounts' = Accounts
    BY DEF Accounts
  <1>7. \/ boots' = boots /\ (Accounts' = {} <=> Accounts = {})
        \/ Accounts' # {} /\ boots' = IF Accounts = {} THEN boots \union {1} ELSE boots
    BY <1>6, UsersStep
  <1> QED
    BY <1>1, <1>2, <1>4, <1>5, <1>7 DEF OneBootstrap

LEMMA NextInd == IndInv /\ [Next]_vars => IndInv'
  <1> SUFFICES ASSUME IndInv, [Next]_vars PROVE IndInv'
    OBVIOUS
  <1>1. /\ TypeOK /\ saved \in Policy \union {"none"} /\ req \in [Requests -> Request]
        /\ faults \in 0..MaxFaults /\ faults \in Nat
    BY BoundsAssumption DEF IndInv, TypeOK
  <1>2. ASSUME NEW r \in Requests, Step(r) PROVE IndInv'
    <2>1. /\ users' \in [Ids -> User]
          /\ \E n \in 0..MaxAccounts : Accounts' = 1..n
          /\ \A t \in Subjects : \A u, v \in BoundTo(t)' : u = v
          /\ Accounts \subseteq Accounts'
      BY <1>2, UsersStep
    <2>2. boots' \subseteq Ids /\ OneBootstrap' /\ (Accounts' = {} => boots' = {})
      BY <1>2, BootstrapKept
    <2> DEFINE Served == /\ saved' \in Policy \union {"none"} /\ faults' \in 0..MaxFaults
                         /\ req' \in [Requests -> Request]
                         /\ \A s \in Requests : Sound(req[s])'
    <2>3. ASSUME CreateUserUnderBootstrapLock(r) \/ CreateSsoUser(r) \/ LinkSsoSubject(r) \/ WriteUserRole(r)
          PROVE  Served
      <3>1. UNCHANGED <<saved, faults>> /\ req' = [req EXCEPT ![r] = Idle]
        BY <2>3 DEF CreateUserUnderBootstrapLock, CreateSsoUser, LinkSsoSubject, WriteUserRole, End
      <3>2. req'[r] = Idle
        BY <1>1, <3>1
      <3>3. Sound(req[r])'
        BY <3>2, IdleSound
      <3>4. faults' \in 0..MaxFaults /\ faults <= faults'
        BY <1>1, <3>1
      <3> QED
        BY <1>1, <2>1, <3>1, <3>3, <3>4, IdleFacts, RequestsKept
    <2>4. ASSUME \/ \E token, invited \in BOOLEAN : Register(r, token, invited)
                 \/ \E s \in Subjects : SsoRegister(r, s) \/ \E u \in Ids : LinkSso(r, u, s)
                 \/ \E u, target \in Ids, role \in {"user", "admin"} : SetUserRole(r, u, target, role)
                 \/ \E u \in Ids, policy \in Policy \union {"keep"} : UpdateSettings(r, u, policy)
          PROVE  Served
      <3>1. UNCHANGED <<users, saved, faults>>
        BY <2>4 DEF Register, SsoRegister, LinkSso, SetUserRole, UpdateSettings
      <3>2. PICK q \in Request : req' = [req EXCEPT ![r] = q] /\ Sound(req[r])'
        BY <2>4, <3>1, BeginSound
      <3>3. faults' \in 0..MaxFaults /\ faults <= faults'
        BY <1>1, <3>1
      <3> QED
        BY <1>1, <2>1, <3>1, <3>2, <3>3, RequestsKept
    <2>5. ASSUME RegisterSettings(r) \/ SsoSubject(r) \/ SsoCount(r) \/ SsoSettings(r) \/ LinkOwner(r)
                 \/ SaveRead(r) \/ Abort(r)
          PROVE  Served
      <3>1. UNCHANGED <<users, saved>>
        BY <2>5 DEF RegisterSettings, SsoSubject, SsoCount, SsoSettings, LinkOwner, SaveRead, Abort
      <3>2. faults' \in 0..MaxFaults /\ faults <= faults'
        BY <2>5, <3>1, ReadSound
      <3>3. PICK q \in Request : req' = [req EXCEPT ![r] = q] /\ Sound(req[r])'
        BY <2>5, <3>1, ReadSound
      <3> QED
        BY <1>1, <2>1, <3>1, <3>2, <3>3, RequestsKept
    <2>6. ASSUME SaveSettings(r) PROVE Served
      BY <1>1, <2>6, SaveFacts
    <2>7. Served
      BY <1>2, <2>3, <2>4, <2>5, <2>6 DEF Step
    <2> QED
      BY <2>1, <2>2, <2>7 DEF IndInv, TypeOK
  <1>3. CASE UNCHANGED vars
    BY <1>3 DEF vars, IndInv, TypeOK, OneBootstrap, Accounts, BoundTo, Sound
  <1> QED
    BY <1>2, <1>3 DEF Next

(* What requests have checked stays true of them, and the policies they go by   *)
(* are ones that were in force or the environment's after a fault.             *)
THEOREM IndInvHolds == Spec => []IndInv
  BY InitInd, NextInd, PTL DEF Spec

(* Every variable keeps its type, accounts are numbered without gaps, and no     *)
(* two accounts are ever bound to one identity.                                *)
THEOREM TypesHold == Spec => []TypeOK
  <1>1. IndInv => TypeOK
    BY DEF IndInv
  <1> QED
    BY <1>1, IndInvHolds, PTL

(* The instance is taken by its first account once, however many registrations  *)
(* race for it.                                                                *)
THEOREM OneBootstrapHolds == Spec => []OneBootstrap
  <1>1. IndInv => OneBootstrap
    BY DEF IndInv
  <1> QED
    BY <1>1, IndInvHolds, PTL

(* Whoever becomes an administrator is the first account, or is the target of a *)
(* request that an administrator began.                                        *)
THEOREM AdminsGrantedHolds == Spec => AdminsGranted
  <1> DEFINE Granted(u) ==
        \/ Accounts = {} /\ u = 1
        \/ \E r \in Requests :
             /\ req[r].pc = "setRole" /\ req[r].target = u /\ req[r].role = "admin"
             /\ req'[r] # req[r]
  <1>1. ASSUME IndInv, [Next]_vars, NEW u \in Ids, users[u].role # "admin", users'[u].role = "admin"
        PROVE  Granted(u)
    <2>1. PICK r \in Requests : Step(r)
      BY <1>1 DEF Next, vars
    <2>2. req \in [Requests -> Request]
      BY <1>1 DEF IndInv, TypeOK
    <2>3. CASE /\ req[r].pc = "setRole" /\ req' = [req EXCEPT ![r] = Idle]
               /\ \A v \in Ids : users'[v].role = IF v = req[r].target THEN req[r].role ELSE users[v].role
      <3>1. req'[r] # req[r] /\ req[r].target = u /\ req[r].role = "admin"
        BY <1>1, <2>2, <2>3, IdleFacts
      <3> QED
        BY <2>3, <3>1
    <2>4. ASSUME NEW n \in Ids, n = 1 <=> Accounts = {},
                 \A v \in Ids \ {n} : users'[v].role = users[v].role,
                 Accounts # {} => users'[n].role = "user"
          PROVE  Granted(u)
      BY <1>1, <2>4
    <2> QED
      BY <1>1, <2>1, <2>3, <2>4, UsersStep
  <1>2. IndInv /\ [Next]_vars =>
          \A u \in Ids : users[u].role # "admin" /\ users'[u].role = "admin" => Granted(u)
    BY <1>1
  <1> QED
    BY <1>2, IndInvHolds, PTL DEF Spec, AdminsGranted

(* Every account but the first was admitted by a policy in force while its       *)
(* request was served, or by the environment's in place of one that could not    *)
(* be read.                                                                    *)
THEOREM AdmittedByPolicyHolds == Spec => AdmittedByPolicy
  <1> DEFINE Admitted ==
        \E r \in Requests :
          /\ req[r].pc \in {"create", "ssoCreate"} /\ req'[r] # req[r]
          /\ \E policy \in req[r].inForce \union (IF faults > 0 THEN {EnvPolicy} ELSE {}) :
               Admits(policy, req[r])
  <1>1. ASSUME IndInv, [Next]_vars, NEW u \in Ids \ {1}, users[u].role = "none", users'[u].role # "none"
        PROVE  Admitted
    <2>1. PICK r \in Requests : Step(r)
      BY <1>1 DEF Next, vars
    <2>2. req \in [Requests -> Request] /\ Sound(req[r]) /\ u \notin Accounts
      BY <1>1 DEF IndInv, TypeOK, Accounts
    <2>3. /\ Accounts # {} /\ CanRegister(req[r], FALSE)
          /\ req[r].pc \in {"create", "ssoCreate"} /\ req' = [req EXCEPT ![r] = Idle]
      <3>1. \A v \in Accounts' : u # v \/ Accounts' # Accounts
        BY <2>2
      <3>2. u \in Accounts'
        BY <1>1 DEF Accounts
      <3> QED
        BY <1>1, <2>1, <2>2, <3>1, <3>2, UsersStep
    <2>4. req'[r] # req[r]
      BY <2>2, <2>3, IdleFacts
    <2>5. Admits(req[r].policy, req[r])
      BY <2>3 DEF CanRegister, Admits
    <2> QED
      BY <2>2, <2>3, <2>4, <2>5 DEF Sound
  <1>2. IndInv /\ [Next]_vars =>
          \A u \in Ids \ {1} : users[u].role = "none" /\ users'[u].role # "none" => Admitted
    BY <1>1
  <1> QED
    BY <1>2, IndInvHolds, PTL DEF Spec, AdmittedByPolicy

-------------------------------------------------------------------------------
(* Discovery *)

Endpoints == {"instance", "capabilities", "version", "health", "ready", "matrixVersions"}

(* What has been asked of an instance that is settled says what the instance says now.  *)
AnswersAreSo ==
  /\ run.at >= 2 => run.got.instance = Public!InstanceDescriptor
  /\ run.at >= 3 => run.got.capabilities = Public!InstanceDescriptor
  /\ run.at = 7 =>
       run.got.matrixVersions =
         IF env.url # "none" /\ homeserver # "down" THEN [ok |-> TRUE, body |-> homeserver]
         ELSE Public!Lost

PublicInv ==
  /\ Public!TypeOK
  /\ run = [at |-> run.at, got |-> [asked \in Endpoints |-> run.got[asked]]]
  /\ settled = TRUE => Public!Settled /\ AnswersAreSo

LEMMA ChangesBound == MaxChanges \in Nat
  BY PartsAssumption DEF Public!DiscoveryAssumption

LEMMA IdleRun ==
  /\ Public!Idle.at = 0
  /\ Public!Idle = [at |-> Public!Idle.at, got |-> [asked \in Endpoints |-> Public!Idle.got[asked]]]
  BY DEF Public!Idle, Public!Lost, Endpoints

(* The first probe of a process. *)
LEMMA FirstProbe ==
  [timer |-> "out", request |-> "idle"] \in [Public!Probers -> Public!Answers \union {"idle", "out"}]
  BY DEF Public!Probers

LEMMA PublicBegins == Public!Init => PublicInv
  <1> SUFFICES ASSUME Public!Init PROVE PublicInv
    OBVIOUS
  <1>5. run.at = 0 /\ 0 \in 0..7 /\ 0 \in 0..MaxChanges
    BY IdleRun, ChangesBound DEF Public!Init
  <1>1. run = [at |-> run.at, got |-> [asked \in Endpoints |-> run.got[asked]]]
    BY IdleRun DEF Public!Init
  <1>2. /\ env \in Public!Env /\ homeserver \in Public!Answers
        /\ probe \in [Public!Probers -> Public!Answers \union {"idle", "out"}]
    BY FirstProbe DEF Public!Init
  <1>3. policySaved = "none" /\ database = TRUE /\ cached = "none" /\ expired = FALSE
        /\ settled = FALSE /\ changes = 0
    BY DEF Public!Init
  <1>4. Public!TypeOK
    BY <1>5, <1>2, <1>3 DEF Public!TypeOK
  <1> QED
    BY <1>1, <1>3, <1>4 DEF PublicInv

(* While the homeserver stays as it is, verdicts that say what is the case lead to the     *)
(* same answer.                                                                      *)
LEMMA DescriptorStays ==
  ASSUME PublicInv, Public!Settled, Public!Settled', UNCHANGED <<env, policySaved, database, homeserver>>
  PROVE  Public!InstanceDescriptor' = Public!InstanceDescriptor
  <1>1. CASE Public!ParsePublicMatrixUrl(env.url) = "none"
    <2>1. \A v : Public!DirectSyncStatus(env.url, v) = "no-public-url"
      BY <1>1 DEF Public!DirectSyncStatus
    <2>2. Public!E2eeAvailable' = Public!E2eeAvailable
      BY <2>1 DEF Public!E2eeAvailable
    <2>3. Public!InstanceInfo' = Public!InstanceInfo
      BY DEF Public!InstanceInfo
    <2> QED
      BY <2>1, <2>2, <2>3 DEF Public!InstanceDescriptor
  <1>2. CASE Public!ParsePublicMatrixUrl(env.url) # "none"
    <2>1. cached = homeserver /\ cached' = homeserver
      BY <1>2 DEF Public!Settled
    <2> QED
      BY <2>1 DEF Public!InstanceDescriptor, Public!E2eeAvailable, Public!InstanceInfo, Public!Known
  <1> QED
    BY <1>1, <1>2

(* An answer goes where it was asked for. *)
LEMMA ReceiveFacts ==
  ASSUME PublicInv, NEW answer, Public!Receive(answer), run.at \in 1..6
  PROVE  /\ run' = [at |-> run'.at, got |-> [asked \in Endpoints |-> run'.got[asked]]]
         /\ run'.at = run.at + 1 /\ run'.at \in 0..7
         /\ run.at = 1 => run'.got.instance = answer
         /\ run.at # 1 => run'.got.instance = run.got.instance
         /\ run.at = 2 => run'.got.capabilities = answer
         /\ run.at # 2 => run'.got.capabilities = run.got.capabilities
         /\ run.at = 6 => run'.got.matrixVersions = answer
  <1> DEFINE k == Public!Asked[run.at]
  <1>1. /\ k \in Endpoints
        /\ k = "instance" <=> run.at = 1
        /\ k = "capabilities" <=> run.at = 2
        /\ k = "matrixVersions" <=> run.at = 6
    <2>1. run.at = 1 \/ run.at = 2 \/ run.at = 3 \/ run.at = 4 \/ run.at = 5 \/ run.at = 6
      OBVIOUS
    <2> QED
      BY <2>1 DEF Public!Asked, Endpoints
  <1>2. run' = [run EXCEPT !.at = @ + 1, !.got[k] = answer]
    BY DEF Public!Receive
  <1> HIDE DEF k
  <1>3. run = [at |-> run.at, got |-> [asked \in Endpoints |-> run.got[asked]]]
    BY DEF PublicInv
  <1>4. run'.at = run.at + 1 /\ run'.got = [run.got EXCEPT ![k] = answer]
    BY <1>2, <1>3
  <1>5. DOMAIN run.got = Endpoints
    BY <1>3
  <1>6. run'.got = [asked \in Endpoints |-> IF asked = k THEN answer ELSE run.got[asked]]
    BY <1>4, <1>5, <1>3
  <1>7. run' = [at |-> run'.at, got |-> run'.got]
    BY <1>2, <1>3
  <1>8. run'.got = [asked \in Endpoints |-> run'.got[asked]]
    BY <1>6
  <1> QED
    BY <1>1, <1>4, <1>6, <1>7, <1>8 DEF Endpoints

(* The verdicts change, and the run does not. *)
LEMMA ProbesStep ==
  ASSUME PublicInv,
         \/ Public!Expire \/ Public!RefreshDirectSync
         \/ \E p \in Public!Probers : Public!HomeserverAnswers(p) \/ Public!Land(p)
  PROVE  PublicInv'
  <1>1. UNCHANGED <<env, policySaved, database, homeserver, run, settled, changes>>
    BY DEF Public!Expire, Public!RefreshDirectSync, Public!HomeserverAnswers, Public!Land
  <1>2. Public!TypeOK'
    BY DEF PublicInv, Public!TypeOK, Public!Expire, Public!RefreshDirectSync, Public!HomeserverAnswers,
           Public!Land, Public!Answers, Public!Probers
  <1>3. Public!Settled => Public!Settled'
    BY DEF PublicInv, Public!TypeOK, Public!Settled, Public!Expire, Public!RefreshDirectSync,
           Public!HomeserverAnswers, Public!Land, Public!Answers, Public!Probers
  <1>4. Public!Settled => Public!InstanceDescriptor' = Public!InstanceDescriptor
    BY <1>1, <1>3, DescriptorStays
  <1> QED
    BY <1>1, <1>2, <1>3, <1>4 DEF PublicInv, AnswersAreSo

(* Once anything changes, the run is not of a settled instance. *)
LEMMA ChangesStep ==
  ASSUME PublicInv,
         Public!HomeserverChanges \/ Public!DatabaseChanges \/ Public!UpdateSettings \/ Public!Restart
  PROVE  PublicInv'
  <1>1. settled' = FALSE /\ UNCHANGED <<env, run>> /\ changes < MaxChanges /\ changes' = changes + 1
    BY DEF Public!HomeserverChanges, Public!DatabaseChanges, Public!UpdateSettings, Public!Restart, Public!Change
  <1>2. changes' \in 0..MaxChanges
    BY <1>1, ChangesBound DEF PublicInv, Public!TypeOK
  <1>3. /\ policySaved' \in {"none", "open", "invite", "closed"}
        /\ homeserver' \in Public!Answers /\ cached' \in Public!Answers \union {"none"}
        /\ probe' \in [Public!Probers -> Public!Answers \union {"idle", "out"}]
    BY FirstProbe
    DEF PublicInv, Public!TypeOK, Public!HomeserverChanges, Public!DatabaseChanges, Public!UpdateSettings,
        Public!Restart
  <1>4. database' \in BOOLEAN /\ expired' \in BOOLEAN
    BY DEF PublicInv, Public!TypeOK, Public!HomeserverChanges, Public!DatabaseChanges, Public!UpdateSettings,
           Public!Restart
  <1> QED
    BY <1>1, <1>2, <1>3, <1>4 DEF PublicInv, Public!TypeOK

LEMMA RunBeginsAndEnds ==
  ASSUME PublicInv, Public!StartRun \/ Public!EndRun
  PROVE  PublicInv'
  <1>1. UNCHANGED <<env, policySaved, database, homeserver, cached, expired, probe, changes>>
    BY DEF Public!StartRun, Public!EndRun
  <1>2. CASE Public!StartRun
    <2>1. run' = [Public!Idle EXCEPT !.at = 1] /\ settled' = Public!Settled /\ settled' \in BOOLEAN
      BY <1>2 DEF Public!StartRun, Public!Settled
    <2>2. run'.at = 1 /\ run' = [at |-> run'.at, got |-> [asked \in Endpoints |-> run'.got[asked]]]
      BY <2>1, IdleRun DEF Public!Idle, Endpoints
    <2>3. Public!Settled' = Public!Settled
      BY <1>1 DEF Public!Settled
    <2> QED
      BY <1>1, <2>1, <2>2, <2>3 DEF PublicInv, AnswersAreSo, Public!TypeOK
  <1>3. CASE Public!EndRun
    <2>1. run' = Public!Idle /\ settled' = FALSE
      BY <1>3 DEF Public!EndRun
    <2>4. run'.at = 0 /\ 0 \in 0..7
      BY <2>1, IdleRun
    <2>2. run' = [at |-> run'.at, got |-> [asked \in Endpoints |-> run'.got[asked]]]
      BY <2>1, IdleRun
    <2>3. Public!TypeOK'
      BY <1>1, <2>1, <2>4 DEF PublicInv, Public!TypeOK
    <2> QED
      BY <2>4, <2>1, <2>2, <2>3 DEF PublicInv
  <1> QED
    BY <1>2, <1>3

LEMMA AskDescriptorStep ==
  ASSUME PublicInv, Public!AskDescriptor
  PROVE  PublicInv'
  <1>1. /\ UNCHANGED <<env, policySaved, database, homeserver, cached, expired, settled, changes>>
        /\ run.at \in {1, 2} /\ run.at \in 1..6
        /\ Public!Receive(Public!InstanceDescriptor)
    BY DEF Public!AskDescriptor
  <1>2. probe' \in [Public!Probers -> Public!Answers \union {"idle", "out"}]
        /\ (Public!Settled => Public!Settled')
    BY <1>1 DEF PublicInv, Public!TypeOK, Public!AskDescriptor, Public!DirectSync, Public!Settled, Public!Answers,
           Public!Probers
  <1>3. Public!Settled => Public!InstanceDescriptor' = Public!InstanceDescriptor
    BY <1>1, <1>2, DescriptorStays
  <1>4. /\ run' = [at |-> run'.at, got |-> [asked \in Endpoints |-> run'.got[asked]]]
        /\ run'.at = run.at + 1 /\ run'.at \in 0..7
        /\ run.at = 1 => run'.got.instance = Public!InstanceDescriptor
        /\ run.at # 1 => run'.got.instance = run.got.instance
        /\ run.at = 2 => run'.got.capabilities = Public!InstanceDescriptor
    BY <1>1, ReceiveFacts
  <1>5. Public!TypeOK'
    BY <1>1, <1>2, <1>4 DEF PublicInv, Public!TypeOK
  <1>6. settled = TRUE => AnswersAreSo'
    BY <1>1, <1>3, <1>4 DEF PublicInv, AnswersAreSo
  <1> QED
    BY <1>1, <1>2, <1>4, <1>5, <1>6 DEF PublicInv

LEMMA AskProcessStep ==
  ASSUME PublicInv, Public!AskProcess
  PROVE  PublicInv'
  <1>1. /\ UNCHANGED <<env, policySaved, database, homeserver, cached, expired, probe, settled, changes>>
        /\ run.at \in {3, 4, 5} /\ run.at \in 1..6
        /\ Public!Receive([ok |-> TRUE, status |-> IF run.at = 5 /\ ~database THEN 503 ELSE 200])
    BY DEF Public!AskProcess
  <1>2. /\ run' = [at |-> run'.at, got |-> [asked \in Endpoints |-> run'.got[asked]]]
        /\ run'.at = run.at + 1 /\ run'.at \in 0..7
        /\ run.at # 1 => run'.got.instance = run.got.instance
        /\ run.at # 2 => run'.got.capabilities = run.got.capabilities
    BY <1>1, ReceiveFacts
  <1>3. Public!Settled' = Public!Settled /\ Public!InstanceDescriptor' = Public!InstanceDescriptor
    BY <1>1 DEF Public!Settled, Public!InstanceDescriptor, Public!E2eeAvailable, Public!InstanceInfo, Public!Known
  <1> QED
    BY <1>1, <1>2, <1>3 DEF PublicInv, AnswersAreSo, Public!TypeOK

LEMMA AskMatrixStep ==
  ASSUME PublicInv, Public!AskMatrix
  PROVE  PublicInv'
  <1>1. /\ UNCHANGED <<env, policySaved, database, homeserver, cached, expired, probe, settled, changes>>
        /\ run.at = 6 /\ run.at \in 1..6
    BY DEF Public!AskMatrix
  <1>2. Public!Settled' = Public!Settled /\ Public!InstanceDescriptor' = Public!InstanceDescriptor
    BY <1>1 DEF Public!Settled, Public!InstanceDescriptor, Public!E2eeAvailable, Public!InstanceInfo, Public!Known
  <1>3. CASE run' = Public!Idle
    BY <1>1, <1>2, <1>3, IdleRun DEF PublicInv, AnswersAreSo, Public!TypeOK
  <1>4. CASE run' # Public!Idle
    <2> DEFINE answer == IF run.got.instance.ok /\ run.got.instance.baseUrl # "none" /\ homeserver # "down"
                         THEN [ok |-> TRUE, body |-> homeserver] ELSE Public!Lost
    <2>1. Public!Receive(answer)
      BY <1>4 DEF Public!AskMatrix
    <2>2. settled = TRUE => answer = IF env.url # "none" /\ homeserver # "down"
                                     THEN [ok |-> TRUE, body |-> homeserver] ELSE Public!Lost
      BY <1>1 DEF PublicInv, AnswersAreSo, Public!InstanceDescriptor
    <2> HIDE DEF answer
    <2>3. /\ run' = [at |-> run'.at, got |-> [asked \in Endpoints |-> run'.got[asked]]]
          /\ run'.at = 7
          /\ run'.got.instance = run.got.instance /\ run'.got.capabilities = run.got.capabilities
          /\ run'.got.matrixVersions = answer
      BY <1>1, <2>1, ReceiveFacts
    <2> QED
      BY <1>1, <1>2, <2>2, <2>3 DEF PublicInv, AnswersAreSo, Public!TypeOK
  <1> QED
    BY <1>3, <1>4

LEMMA LoseRequestStep ==
  ASSUME PublicInv, Public!LoseRequest
  PROVE  PublicInv'
  <1>1. /\ UNCHANGED <<env, policySaved, database, homeserver, cached, expired, probe>>
        /\ settled' = FALSE /\ changes < MaxChanges /\ changes' = changes + 1
        /\ Public!Receive(Public!Lost)
        /\ run.at \in DOMAIN Public!Asked
    BY DEF Public!LoseRequest, Public!Change
  <1>2. run.at \in 1..6
    BY <1>1 DEF Public!Asked
  <1>3. /\ run' = [at |-> run'.at, got |-> [asked \in Endpoints |-> run'.got[asked]]]
        /\ run'.at \in 0..7
    BY <1>1, <1>2, ReceiveFacts
  <1>4. changes' \in 0..MaxChanges
    BY <1>1, ChangesBound DEF PublicInv, Public!TypeOK
  <1>5. Public!TypeOK'
    BY <1>1, <1>3, <1>4 DEF PublicInv, Public!TypeOK
  <1> QED
    BY <1>1, <1>3, <1>5 DEF PublicInv

LEMMA PublicStep == PublicInv /\ [Public!Next]_publicVars => PublicInv'
  <1> SUFFICES ASSUME PublicInv, [Public!Next]_publicVars PROVE PublicInv'
    OBVIOUS
  <1>1. CASE Public!Next
    BY <1>1, ProbesStep, ChangesStep, RunBeginsAndEnds, AskDescriptorStep, AskProcessStep, AskMatrixStep,
       LoseRequestStep
    DEF Public!Next
  <1>2. CASE UNCHANGED publicVars
    BY <1>2
    DEF publicVars, PublicInv, AnswersAreSo, Public!TypeOK, Public!Settled, Public!InstanceDescriptor,
        Public!E2eeAvailable, Public!InstanceInfo, Public!Known
  <1> QED
    BY <1>1, <1>2

(* What a settled instance says of itself is so, and its endpoints agree. *)
LEMMA SettledConforms ==
  ASSUME PublicInv, settled = TRUE, run.at = 7, env.url # "bare", env.sso # "bare"
  PROVE  Public!Conformant(Public!Verdict)
  <1> DEFINE d == Public!InstanceDescriptor
             m == run.got.matrixVersions
  <1>1. run.got.instance = d /\ run.got.capabilities = d
    BY DEF PublicInv, AnswersAreSo
  <1>2. m = IF env.url # "none" /\ homeserver # "down" THEN [ok |-> TRUE, body |-> homeserver] ELSE Public!Lost
    BY DEF PublicInv, AnswersAreSo
  <1>3. /\ d.ok = TRUE /\ d.baseUrl = env.url /\ d.identityIssuer = Public!InstanceInfo.issuer
        /\ d.joinPolicy = Public!InstanceInfo.policy
        /\ d.capabilities.e2ee = Public!E2eeAvailable
        /\ d.capabilities.sso = (env.sso # "off")
        /\ d.capabilities.publicRegistration = (Public!InstanceInfo.policy = "open")
        /\ d.capabilities.clientMatrix = (Public!DirectSyncStatus(env.url, Public!Known) = "available")
        /\ d.capabilities.eventIngest = env.appservice
    BY DEF Public!InstanceDescriptor
  <1>4. Public!ParseInstanceDescriptor(d)
    BY <1>3 DEF Public!ParseInstanceDescriptor, Public!InstanceInfo
  <1>5. d.capabilities.clientMatrix => env.url = "good" /\ homeserver = "up" /\ m.ok = TRUE /\ m.body = "up"
    <2>1. SUFFICES ASSUME Public!DirectSyncStatus(env.url, Public!Known) = "available"
                   PROVE  env.url = "good" /\ homeserver = "up" /\ m.ok = TRUE /\ m.body = "up"
      BY <1>3
    <2>2. env.url = "good" /\ Public!ParsePublicMatrixUrl(env.url) # "none"
      BY <2>1 DEF Public!DirectSyncStatus, Public!ParsePublicMatrixUrl
    <2>3. cached = homeserver
      BY <2>2 DEF PublicInv, Public!Settled
    <2>4. homeserver = "up"
      BY <2>1, <2>2, <2>3 DEF Public!DirectSyncStatus, Public!Known, PublicInv, Public!TypeOK, Public!Answers
    <2> QED
      BY <1>2, <2>2, <2>4
  <1> HIDE DEF d, m
  <1>6. Public!Conformant(Public!CheckConsistency(d, m))
    <2>1. Public!CheckMatrixReachable(d, m) # "fail"
      BY <1>3, <1>5 DEF Public!CheckMatrixReachable
    <2>2. Public!Promise(d.capabilities.publicRegistration, d.joinPolicy = "open") # "fail"
      BY <1>3 DEF Public!Promise
    <2>3. Public!Promise(d.capabilities.e2ee, d.capabilities.clientMatrix /\ d.capabilities.eventIngest) # "fail"
      BY <1>3 DEF Public!Promise, Public!E2eeAvailable
    <2>4. Public!Promise(d.capabilities.clientMatrix, d.baseUrl # "none") # "fail"
      BY <1>3, <1>5 DEF Public!Promise
    <2>5. Public!Promise(d.capabilities.sso, d.identityIssuer # "none") # "fail"
      <3>1. Public!InstanceInfo.issuer = IF env.sso = "off" THEN "none" ELSE env.sso
        BY DEF Public!InstanceInfo
      <3>2. env.sso \in {"off", "bare", "good"}
        BY DEF PublicInv, Public!TypeOK, Public!Env
      <3> QED
        BY <1>3, <3>1, <3>2 DEF Public!Promise
    <2> QED
      BY <2>1, <2>2, <2>3, <2>4, <2>5 DEF Public!Conformant, Public!CheckConsistency
  <1>7. /\ Public!CheckCapabilities(run.got.capabilities, run.got.instance) # "fail"
        /\ Public!CheckVersion(run.got.version) # "fail" /\ Public!CheckHealth(run.got.health) # "fail"
        /\ Public!CheckReady(run.got.ready) # "fail"
    BY <1>1, <1>3 DEF Public!CheckCapabilities, Public!CheckVersion, Public!CheckHealth, Public!CheckReady
  <1>8. Public!Verdict =
          {<<"capabilities", Public!CheckCapabilities(run.got.capabilities, run.got.instance)>>,
           <<"version", Public!CheckVersion(run.got.version)>>,
           <<"health", Public!CheckHealth(run.got.health)>>,
           <<"ready", Public!CheckReady(run.got.ready)>>}
          \union Public!CheckConsistency(d, m)
    BY <1>1, <1>3, <1>4 DEF Public!Verdict, Public!RunConformance, m
  <1> QED
    BY <1>6, <1>7, <1>8 DEF Public!Conformant

(* An instance whose addresses are URLs conforms when the suite finds it settled and nothing *)
(* changes meanwhile, although verdicts expire and probes land between two answers       *)
(* (directSync of server/matrixPublic.ts, runConformance of shared/conformance.ts).       *)
THEOREM HonestInstanceConformsHolds == InstanceSpec => []HonestInstanceConforms
  <1>1. InstanceInit => (part = "public" => PublicInv)
    BY PublicBegins DEF InstanceInit
  <1>2. (part = "public" => PublicInv) /\ [InstanceNext]_<<part, vars, publicVars, surfaceVars>>
          => (part = "public" => PublicInv)'
    BY PublicStep DEF InstanceNext
  <1>3. (part = "public" => PublicInv) => HonestInstanceConforms
    BY SettledConforms DEF HonestInstanceConforms, Public!HonestInstanceConforms, Public!Over, PublicInv, Public!TypeOK
  <1> QED
    BY <1>1, <1>2, <1>3, PTL DEF InstanceSpec

-------------------------------------------------------------------------------
(* SurfaceConformance *)

(* What the suite is known to have done when nothing disturbs it, and what the instance is  *)
(* then: who was let in, who is a member, who has written.                               *)
GoesWell ==
  /\ step > 1 => mem.policy = inst.policy
  /\ step <= 5 => "newA" \notin inst.names
  /\ step <= 19 => "b" \notin inst.members
  /\ "registerA" \in mem.done => "newA" \in inst.names /\ inst.fresh = FALSE
  /\ "createServer" \in mem.done => inst.created = TRUE
  /\ "createInvite" \in mem.done => inst.code = TRUE
  /\ "join" \in mem.done => "b" \in inst.members
  /\ "postTarget" \in mem.done => "a" \in inst.messages /\ "b" \in inst.members
  /\ "memberSend" \in mem.done /\ step <= 26 => "b" \in inst.messages

Tolerated == {"selfElevation"} \union (IF inst.fresh THEN {"registerA"} ELSE {})

SurfaceInv ==
  /\ inst \in Surface!Instance /\ args \in [supplied : BOOLEAN, invite : BOOLEAN]
  /\ step \in 1..28 /\ steady \in BOOLEAN
  /\ steady = TRUE /\ inst.limited = FALSE => GoesWell /\ failed \subseteq Tolerated

LEMMA WalkIs ==
  /\ Len(Surface!Walk) = 28
  /\ Surface!Walk[1] = "instance" /\ Surface!Walk[2] = "anonMe" /\ Surface!Walk[3] = "registerRefused"
  /\ Surface!Walk[4] = "closedInvite" /\ Surface!Walk[5] = "registerA" /\ Surface!Walk[6] = "duplicate"
  /\ Surface!Walk[7] = "registerB" /\ Surface!Walk[8] = "loginA" /\ Surface!Walk[9] = "loginB"
  /\ Surface!Walk[10] = "badPassword" /\ Surface!Walk[11] = "createServer"
  /\ Surface!Walk[12] = "readServer" /\ Surface!Walk[13] = "readMessages"
  /\ Surface!Walk[14] = "writeWall" /\ Surface!Walk[15] = "createInvite" /\ Surface!Walk[16] = "preview"
  /\ Surface!Walk[17] = "unknownCode" /\ Surface!Walk[18] = "malformedCode" /\ Surface!Walk[19] = "join"
  /\ Surface!Walk[20] = "memberRead" /\ Surface!Walk[21] = "memberSend" /\ Surface!Walk[22] = "roleFloor"
  /\ Surface!Walk[23] = "selfElevation" /\ Surface!Walk[24] = "postTarget"
  /\ Surface!Walk[25] = "deleteOthers" /\ Surface!Walk[26] = "deleteOwn" /\ Surface!Walk[27] = "logout"
  /\ Surface!Walk[28] = "over"
  BY DEF Surface!Walk, Surface!AccountWalk, Surface!ServerWalk

(* What is asked in the steps up to the server's. *)
LEMMA AccountExchangeIs ==
  /\ Surface!Exchange("instance") = Surface!Refuse("OK")
  /\ Surface!Exchange("anonMe") = Surface!Refuse("OK")
  /\ Surface!Exchange("registerRefused") = Surface!Register("anon", "newA", FALSE)
  /\ Surface!Exchange("closedInvite") = Surface!Register("anon", "newA", TRUE)
  /\ Surface!Exchange("registerA") = Surface!Register("a", "newA", args.invite)
  /\ Surface!Exchange("duplicate") = Surface!Register("anon", "newA", args.invite)
  /\ Surface!Exchange("registerB") = Surface!Register("b", "newB", args.invite)
  /\ Surface!Exchange("loginA") = Surface!Login("a", TRUE)
  /\ Surface!Exchange("loginB") = Surface!Login("b", TRUE)
  /\ Surface!Exchange("badPassword") = Surface!Login("anon", FALSE)
  <1>1. \A s \in {"instance", "anonMe", "registerRefused", "closedInvite", "registerA", "duplicate",
                  "registerB", "loginA", "loginB", "badPassword"} : Surface!OfAccounts(s)
    BY DEF Surface!OfAccounts, Surface!AccountWalk
  <1> QED
    BY <1>1 DEF Surface!Exchange, Surface!AccountExchange

(* What is asked in the steps about the sandbox server. *)
LEMMA ServerExchangeIs ==
  /\ Surface!Exchange("createServer") = Surface!CreateServer
  /\ \A s \in {"readServer", "readMessages", "memberRead"} : Surface!Exchange(s) = Surface!Read("b")
  /\ \A s \in {"writeWall", "memberSend"} : Surface!Exchange(s) = Surface!Send("b")
  /\ Surface!Exchange("createInvite") = Surface!CreateInvite("a")
  /\ Surface!Exchange("preview") = Surface!Preview("live")
  /\ Surface!Exchange("unknownCode") = Surface!Preview("unknown")
  /\ Surface!Exchange("malformedCode") = Surface!Preview("malformed")
  /\ Surface!Exchange("join") = Surface!JoinByInvite("b")
  /\ Surface!Exchange("roleFloor") = Surface!CreateChannel("b")
  /\ Surface!Exchange("selfElevation") = Surface!SetRole("b", "b")
  /\ Surface!Exchange("postTarget") = Surface!Send("a")
  /\ Surface!Exchange("deleteOthers") = Surface!Delete("b", "a")
  /\ Surface!Exchange("deleteOwn") = Surface!Delete("b", "b")
  /\ Surface!Exchange("logout") = Surface!Logout("b")
  <1>1. \A s \in {"createServer", "readServer", "readMessages", "memberRead", "writeWall", "memberSend",
                  "createInvite", "preview", "unknownCode", "malformedCode", "join", "roleFloor",
                  "selfElevation", "postTarget", "deleteOthers", "deleteOwn", "logout"} :
          ~Surface!OfAccounts(s)
    BY DEF Surface!OfAccounts, Surface!AccountWalk
  <1> QED
    BY <1>1 DEF Surface!Exchange, Surface!ServerExchange

LEMMA ExpectedIs ==
  /\ \A s \in {"anonMe", "registerA", "loginA", "memberRead", "deleteOwn", "logout", "preview"} :
       Surface!Expected(s) = {"OK"}
  /\ \A s \in {"registerRefused", "closedInvite", "readServer", "readMessages", "writeWall", "roleFloor",
               "selfElevation", "deleteOthers"} :
       Surface!Expected(s) = {"FORBIDDEN"}
  /\ Surface!Expected("duplicate") = {"CONFLICT"}
  /\ Surface!Expected("badPassword") = {"UNAUTHORIZED", "TOO_MANY_REQUESTS"}
  /\ Surface!Expected("unknownCode") = {"404"} /\ Surface!Expected("malformedCode") = {"400"}
  /\ Surface!Expected("memberSend") = IF inst.encrypts THEN {"PRECONDITION_FAILED"} ELSE {"OK"}
  /\ \A s \in {"instance", "registerB", "loginB", "createServer", "createInvite", "join", "postTarget"} :
       Surface!Expected(s) = {Surface!Exchange(s).code, "LOST"}
  BY DEF Surface!Expected, Surface!AccountCodes, Surface!MemberCodes, Surface!RankCodes,
         Surface!InviteCodes

LEMMA AppliesIs ==
  /\ Surface!Applies("registerRefused") => mem.policy # "open"
  /\ Surface!Applies("closedInvite") => mem.policy = "closed"
  /\ Surface!Applies("registerA") => mem.policy = "open" \/ (mem.policy = "invite" /\ args.invite = TRUE)
  /\ Surface!Applies("duplicate") => "registerA" \in mem.done
  /\ Surface!Applies("preview") => "createInvite" \in mem.done
  /\ Surface!Applies("memberRead") => "join" \in mem.done
  /\ Surface!Applies("memberSend") => "join" \in mem.done
  /\ Surface!Applies("postTarget") => "join" \in mem.done
  /\ Surface!Applies("deleteOthers") => "postTarget" \in mem.done
  /\ Surface!Applies("deleteOwn") => "postTarget" \in mem.done /\ "memberSend" \in mem.done
  <1>1. \A s \in {"preview", "memberRead", "memberSend", "postTarget", "deleteOthers", "deleteOwn"} :
          ~Surface!OfAccounts(s)
    BY DEF Surface!OfAccounts, Surface!AccountWalk
  <1>2. \A s \in {"registerRefused", "closedInvite", "registerA", "duplicate"} : Surface!OfAccounts(s)
    BY DEF Surface!OfAccounts, Surface!AccountWalk
  <1> QED
    BY <1>1, <1>2 DEF Surface!Applies, Surface!AccountStepApplies, Surface!ServerStepApplies, Surface!Done

LEMMA ReplyIs ==
  \A code, then : /\ Surface!Reply(code, then).code = code
                  /\ Surface!Reply(code, then).then = then
  BY DEF Surface!Reply

(* What no handler of the walk touches. *)
Same(then) ==
  /\ then \in Surface!Instance /\ then.policy = inst.policy /\ then.fresh = inst.fresh
  /\ then.encrypts = inst.encrypts /\ then.limited = inst.limited

LEMMA RepliesKeep ==
  ASSUME inst \in Surface!Instance, step \in 1..27
  PROVE  Same(Surface!Exchange(Surface!Walk[step]).then)
  <1>1. Same(inst)
    BY DEF Same
  <1>2. \A code : Same(Surface!Refuse(code).then)
    BY <1>1 DEF Surface!Refuse, Surface!Reply
  <1>3. ASSUME NEW who \in {"anon", "a", "b"}, NEW name \in {"newA", "newB"}, NEW invite
        PROVE  Same(Surface!Register(who, name, invite).then)
    <2>1. Same([inst EXCEPT !.names = @ \union {name}, !.sessions = @ \union {who}])
      BY DEF Same, Surface!Instance
    <2> QED
      BY <1>2, <2>1 DEF Surface!Register, Surface!Reply
  <1>4. ASSUME NEW who \in {"anon", "a", "b"}, NEW right
        PROVE  Same(Surface!Login(who, right).then)
    <2>1. Same([inst EXCEPT !.sessions = @ \union {who}])
      BY DEF Same, Surface!Instance
    <2> QED
      BY <1>2, <2>1 DEF Surface!Login, Surface!Reply
  <1>5. /\ Same(Surface!CreateServer.then) /\ Same(Surface!Logout("b").then)
        /\ Same(Surface!CreateInvite("a").then) /\ Same(Surface!JoinByInvite("b").then)
    <2>1. /\ Same([inst EXCEPT !.created = TRUE, !.members = {"a"}]) /\ Same([inst EXCEPT !.code = TRUE])
          /\ Same([inst EXCEPT !.sessions = @ \ {"b"}]) /\ Same([inst EXCEPT !.members = @ \union {"b"}])
      BY DEF Same, Surface!Instance
    <2> QED
      BY <1>2, <2>1
      DEF Surface!CreateServer, Surface!Logout, Surface!CreateInvite, Surface!RequireAdmin,
          Surface!JoinByInvite, Surface!Reply
  <1>6. /\ Same(Surface!Read("b").then) /\ Same(Surface!CreateChannel("b").then)
        /\ Same(Surface!SetRole("b", "b").then)
    BY <1>1, <1>2
    DEF Surface!Read, Surface!CreateChannel, Surface!RequireAdmin, Surface!SetRole, Surface!Reply
  <1>7. /\ Same(Surface!Send("a").then) /\ Same(Surface!Send("b").then)
        /\ Same(Surface!Delete("b", "a").then) /\ Same(Surface!Delete("b", "b").then)
    <2>1. \A who \in {"a", "b"} : /\ Same([inst EXCEPT !.messages = @ \union {who}])
                                  /\ Same([inst EXCEPT !.messages = @ \ {who}])
      BY DEF Same, Surface!Instance
    <2> QED
      BY <1>2, <2>1 DEF Surface!Send, Surface!Post, Surface!Delete, Surface!Reply
  <1>8. \A code : Same(Surface!Preview(code).then)
    BY <1>2 DEF Surface!Preview
  <1>9. CASE step <= 10
    <2>1. /\ Same(Surface!Register("anon", "newA", FALSE).then)
          /\ Same(Surface!Register("anon", "newA", TRUE).then)
          /\ Same(Surface!Register("anon", "newA", args.invite).then)
          /\ Same(Surface!Register("a", "newA", args.invite).then)
          /\ Same(Surface!Register("b", "newB", args.invite).then)
      BY <1>3
    <2>2. /\ Same(Surface!Login("a", TRUE).then) /\ Same(Surface!Login("b", TRUE).then)
          /\ Same(Surface!Login("anon", FALSE).then) /\ Same(Surface!Refuse("OK").then)
      BY <1>2, <1>4
    <2>3. /\ Same(Surface!Exchange("instance").then) /\ Same(Surface!Exchange("anonMe").then)
          /\ Same(Surface!Exchange("registerRefused").then) /\ Same(Surface!Exchange("closedInvite").then)
          /\ Same(Surface!Exchange("registerA").then) /\ Same(Surface!Exchange("duplicate").then)
          /\ Same(Surface!Exchange("registerB").then) /\ Same(Surface!Exchange("loginA").then)
          /\ Same(Surface!Exchange("loginB").then) /\ Same(Surface!Exchange("badPassword").then)
      BY <2>1, <2>2, AccountExchangeIs, Zenon
    <2> QED
      BY <1>9, <2>3, WalkIs
  <1>10. CASE step > 10
    BY <1>5, <1>6, <1>7, <1>8, <1>10, WalkIs, ServerExchangeIs
  <1> QED
    BY <1>9, <1>10

(* The suite goes on: an answer that leaves everything but sessions as it was, to a step       *)
(* that nothing later is built on.                                                    *)
LEMMA QuietAnswer ==
  ASSUME GoesWell, step \in 1..27, step' = step + 1, NEW s, s = Surface!Walk[step],
         mem'.policy = IF s = "instance" THEN inst.policy ELSE mem.policy, inst'.policy = inst.policy,
         mem'.done \subseteq mem.done \union {s}, inst'.fresh = inst.fresh,
         inst'.names = inst.names, inst'.members = inst.members, inst'.created = inst.created,
         inst'.code = inst.code, inst'.messages = inst.messages,
         s \notin {"registerA", "createServer", "createInvite", "join", "postTarget", "memberSend"}
  PROVE  GoesWell'
  <1>1. s # "instance" => step > 1
    BY WalkIs
  <1> QED
    BY <1>1 DEF GoesWell

(* The refusals of the walk's first half are those the suite expects. *)
LEMMA RefusalsOfAccounts ==
  ASSUME SurfaceInv, steady = TRUE, inst.limited = FALSE, Surface!Applies(Surface!Walk[step]),
         step \in {1, 2, 3, 4, 6, 10}
  PROVE  /\ Surface!Exchange(Surface!Walk[step]).then = inst
         /\ Surface!Exchange(Surface!Walk[step]).code \in Surface!Expected(Surface!Walk[step])
         /\ step \in {3, 4, 6, 10} => Surface!Exchange(Surface!Walk[step]).code # "OK"
  <1> USE DEF Surface!Refuse, Surface!Reply
  <1>1. GoesWell
    BY DEF SurfaceInv
  <1>2. CASE step \in {1, 2}
    BY <1>2, WalkIs, AccountExchangeIs, ExpectedIs
  <1>3. CASE step \in {3, 4}
    <2>1. "newA" \notin inst.names
      BY <1>1, <1>3 DEF GoesWell
    <2>2. CASE step = 3
      <3>1. inst.policy # "open"
        BY <1>1, <2>2, WalkIs, AppliesIs DEF GoesWell
      <3>2. ~Surface!CanRegister(FALSE)
        BY <3>1 DEF Surface!CanRegister
      <3>3. Surface!Exchange("registerRefused") = Surface!Refuse("FORBIDDEN")
        BY <2>1, <3>2, AccountExchangeIs DEF Surface!Register
      <3> QED
        BY <2>2, <3>3, WalkIs, ExpectedIs
    <2>3. CASE step = 4
      <3>1. inst.policy = "closed"
        BY <1>1, <2>3, WalkIs, AppliesIs DEF GoesWell
      <3>2. ~Surface!CanRegister(TRUE)
        BY <3>1 DEF Surface!CanRegister
      <3>3. Surface!Exchange("closedInvite") = Surface!Refuse("FORBIDDEN")
        BY <2>1, <3>2, AccountExchangeIs DEF Surface!Register
      <3> QED
        BY <2>3, <3>3, WalkIs, ExpectedIs
    <2> QED
      BY <1>3, <2>2, <2>3
  <1>4. CASE step = 6
    <2>1. "newA" \in inst.names
      BY <1>1, <1>4, WalkIs, AppliesIs DEF GoesWell
    <2>2. Surface!Exchange("duplicate") = Surface!Refuse("CONFLICT")
      BY <2>1, AccountExchangeIs DEF Surface!Register
    <2> QED
      BY <1>4, <2>2, WalkIs, ExpectedIs
  <1>5. CASE step = 10
    <2>1. Surface!Exchange("badPassword") = Surface!Refuse("UNAUTHORIZED")
      BY AccountExchangeIs DEF Surface!Login
    <2> QED
      BY <1>5, <2>1, WalkIs, ExpectedIs
  <1> QED
    BY <1>2, <1>3, <1>4, <1>5

(* ... and so are those of the second half, but for the role a member gives themselves. *)
LEMMA RefusalsOfServer ==
  ASSUME SurfaceInv, steady = TRUE, inst.limited = FALSE, Surface!Applies(Surface!Walk[step]),
         step \in {12, 13, 14, 16, 17, 18, 20, 22, 23, 25}
  PROVE  /\ Surface!Exchange(Surface!Walk[step]).then = inst
         /\ \/ Surface!Exchange(Surface!Walk[step]).code \in Surface!Expected(Surface!Walk[step])
            \/ step = 23
  <1> USE DEF Surface!Refuse, Surface!Reply
  <1>1. GoesWell
    BY DEF SurfaceInv
  <1>2. CASE step \in {12, 13, 14}
    <2>1. Surface!Role("b") = "none"
      BY <1>1, <1>2 DEF GoesWell, Surface!Role
    <2>2. Surface!Read("b") = Surface!Refuse("FORBIDDEN") /\ Surface!Send("b") = Surface!Refuse("FORBIDDEN")
      BY <2>1 DEF Surface!Read, Surface!Send
    <2> QED
      BY <1>2, <2>2, WalkIs, ServerExchangeIs, ExpectedIs
  <1>3. CASE step \in {16, 17, 18}
    <2>1. step = 16 => inst.code = TRUE
      BY <1>1, WalkIs, AppliesIs DEF GoesWell
    <2>2. /\ Surface!Preview("malformed") = Surface!Refuse("400")
          /\ Surface!Preview("unknown") = Surface!Refuse("404")
          /\ inst.code = TRUE => Surface!Preview("live") = Surface!Refuse("OK")
      BY DEF Surface!Preview
    <2> QED
      BY <1>3, <2>1, <2>2, WalkIs, ServerExchangeIs, ExpectedIs
  <1>4. CASE step = 20
    <2>1. Surface!Role("b") = "member"
      BY <1>1, <1>4, WalkIs, AppliesIs DEF GoesWell, Surface!Role
    <2>2. Surface!Exchange("memberRead") = Surface!Refuse("OK")
      BY <2>1, ServerExchangeIs DEF Surface!Read
    <2> QED
      BY <1>4, <2>2, WalkIs, ExpectedIs
  <1>5. CASE step = 22
    <2>1. Surface!Role("b") # "owner"
      BY DEF Surface!Role
    <2>2. Surface!Exchange("roleFloor") = Surface!Refuse("FORBIDDEN")
      BY <2>1, ServerExchangeIs DEF Surface!CreateChannel, Surface!RequireAdmin
    <2> QED
      BY <1>5, <2>2, WalkIs, ExpectedIs
  <1>6. CASE step = 23
    BY <1>6, WalkIs, ServerExchangeIs DEF Surface!SetRole
  <1>7. CASE step = 25
    <2>1. "a" \in inst.messages /\ Surface!Role("b") = "member"
      BY <1>1, <1>7, WalkIs, AppliesIs DEF GoesWell, Surface!Role
    <2>2. Surface!Exchange("deleteOthers") = Surface!Refuse("FORBIDDEN")
      BY <2>1, ServerExchangeIs DEF Surface!Delete
    <2> QED
      BY <1>7, <2>2, WalkIs, ExpectedIs
  <1> QED
    BY <1>2, <1>3, <1>4, <1>5, <1>6, <1>7

(* Nothing disturbs the run: a question more, and the suite has found nothing to object to. *)
LEMMA UndisturbedAsk ==
  ASSUME SurfaceInv, Surface!Ask, steady = TRUE, inst.limited = FALSE, step \in 1..27, step' = step + 1,
         NEW s, s = Surface!Walk[step], NEW reply, reply = Surface!Exchange(s),
         inst' = reply.then, Same(inst'),
         mem'.policy = IF s = "instance" THEN inst.policy ELSE mem.policy,
         mem'.done = IF reply.code \in {"OK", "LOST"} THEN mem.done \union {s} ELSE mem.done,
         failed' \subseteq failed \union {s},
         reply.code \in Surface!Expected(s) /\ Surface!SessionChecked(s, reply.then) => failed' = failed
  PROVE  GoesWell' /\ failed' \subseteq Tolerated'
  <1>1. /\ GoesWell /\ failed \subseteq Tolerated /\ Tolerated' = Tolerated
        /\ inst'.policy = inst.policy /\ inst'.fresh = inst.fresh /\ Surface!Applies(s)
        /\ inst \in Surface!Instance /\ args.invite \in BOOLEAN
    BY DEF SurfaceInv, Same, Tolerated, Surface!Ask, Surface!This
  <1>2. s \notin {"registerA", "loginA", "logout"} => Surface!SessionChecked(s, reply.then)
    BY DEF Surface!SessionChecked
  <1>3. CASE step \in {1, 2, 3, 4, 6, 10}
    <2>1. /\ inst' = inst /\ reply.code \in Surface!Expected(s)
      BY <1>1, <1>3, RefusalsOfAccounts
    <2>2. s \notin {"registerA", "createServer", "createInvite", "join", "postTarget", "memberSend",
                    "loginA", "logout"}
      BY <1>3, WalkIs
    <2>3. GoesWell'
      BY <1>1, <2>1, <2>2, QuietAnswer
    <2> QED
      BY <1>1, <1>2, <2>1, <2>2, <2>3
  <1>4. CASE step \in {12, 13, 14, 16, 17, 18, 20, 22, 23, 25}
    <2>1. inst' = inst /\ (reply.code \in Surface!Expected(s) \/ step = 23)
      BY <1>1, <1>4, RefusalsOfServer
    <2>2. /\ s \notin {"registerA", "createServer", "createInvite", "join", "postTarget", "memberSend",
                       "loginA", "logout"}
          /\ step = 23 => s = "selfElevation"
      BY <1>4, WalkIs
    <2>3. GoesWell'
      BY <1>1, <2>1, <2>2, QuietAnswer
    <2> QED
      BY <1>1, <1>2, <2>1, <2>2, <2>3 DEF Tolerated
  <1>5. CASE step \in {8, 9, 27}
    <2>1. /\ reply.code = "OK"
          /\ \/ step = 8 /\ inst' = [inst EXCEPT !.sessions = @ \union {"a"}]
             \/ step = 9 /\ inst' = [inst EXCEPT !.sessions = @ \union {"b"}]
             \/ step = 27 /\ inst' = [inst EXCEPT !.sessions = @ \ {"b"}]
      <3>1. \A w : Surface!Login(w, TRUE) = Surface!Reply("OK", [inst EXCEPT !.sessions = @ \union {w}])
        BY DEF Surface!Login
      <3>2. CASE step = 8
        <4>1. reply = Surface!Login("a", TRUE)
          BY <3>2, WalkIs, AccountExchangeIs
        <4>2. reply = Surface!Reply("OK", [inst EXCEPT !.sessions = @ \union {"a"}])
          BY <3>1, <4>1, Zenon
        <4> QED
          BY <3>2, <4>2, ReplyIs
      <3>3. CASE step = 9
        <4>1. reply = Surface!Login("b", TRUE)
          BY <3>3, WalkIs, AccountExchangeIs
        <4>2. reply = Surface!Reply("OK", [inst EXCEPT !.sessions = @ \union {"b"}])
          BY <3>1, <4>1, Zenon
        <4> QED
          BY <3>3, <4>2, ReplyIs
      <3>4. CASE step = 27
        BY <3>4, WalkIs, ServerExchangeIs DEF Surface!Logout, Surface!Reply
      <3> QED
        BY <1>5, <3>2, <3>3, <3>4
    <2>2. /\ inst'.names = inst.names /\ inst'.members = inst.members /\ inst'.created = inst.created
          /\ inst'.code = inst.code /\ inst'.messages = inst.messages
          /\ step = 8 => "a" \in inst'.sessions
          /\ step = 27 => "b" \notin inst'.sessions
      BY <1>1, <2>1 DEF Surface!Instance
    <2>3. (s = "loginA" /\ step = 8) \/ s = "loginB" \/ (s = "logout" /\ step = 27)
      BY <1>5, WalkIs
    <2>4. GoesWell'
      BY <1>1, <2>2, <2>3, QuietAnswer
    <2>5. reply.code \in Surface!Expected(s) /\ Surface!SessionChecked(s, reply.then)
      BY <2>1, <2>2, <2>3, ExpectedIs DEF Surface!SessionChecked
    <2> QED
      BY <1>1, <2>4, <2>5
  <1>6. CASE step = 5
    <2>1. s = "registerA" /\ reply = Surface!Register("a", "newA", args.invite) /\ "newA" \notin inst.names
      BY <1>1, <1>6, WalkIs, AccountExchangeIs DEF GoesWell
    <2>2. CASE ~Surface!CanRegister(args.invite)
      <3>1. reply.code = "FORBIDDEN" /\ inst' = inst
        BY <2>1, <2>2 DEF Surface!Register, Surface!Refuse, Surface!Reply
      <3>2. mem.policy = inst.policy /\ (mem.policy = "open" \/ (mem.policy = "invite" /\ args.invite = TRUE))
        BY <1>1, <1>6, <2>1, AppliesIs DEF GoesWell
      <3>3. inst.fresh = TRUE
        BY <1>1, <2>2, <3>2 DEF Surface!CanRegister, Surface!Instance
      <3>4. "registerA" \in Tolerated
        BY <3>3 DEF Tolerated
      <3>5. GoesWell'
        BY <1>1, <1>6, <2>1, <3>1 DEF GoesWell
      <3> QED
        BY <1>1, <2>1, <3>4, <3>5
    <2>3. CASE Surface!CanRegister(args.invite)
      <3>1. /\ reply.code = "OK" /\ inst.fresh = FALSE
            /\ inst' = [inst EXCEPT !.names = @ \union {"newA"}, !.sessions = @ \union {"a"}]
        BY <1>1, <2>1, <2>3 DEF Surface!Register, Surface!Reply, Surface!CanRegister, Surface!Instance
      <3>2. /\ "newA" \in inst'.names /\ inst'.members = inst.members /\ inst'.created = inst.created
            /\ inst'.code = inst.code /\ inst'.messages = inst.messages /\ "a" \in inst'.sessions
        BY <1>1, <3>1 DEF Surface!Instance
      <3>3. GoesWell'
        BY <1>1, <1>6, <2>1, <3>1, <3>2 DEF GoesWell
      <3>4. reply.code \in Surface!Expected(s) /\ Surface!SessionChecked(s, reply.then)
        BY <2>1, <3>1, <3>2, ExpectedIs DEF Surface!SessionChecked
      <3> QED
        BY <1>1, <3>3, <3>4
    <2> QED
      BY <2>2, <2>3
  (* A step whose answer is not checked fails nothing. *)
  <1>7. CASE step \in {7, 11, 15, 19, 24}
    <2>1. failed' \subseteq Tolerated'
      <3>1. reply.code \in Surface!Expected(s) /\ s \notin {"registerA", "loginA", "logout"}
        BY <1>7, WalkIs, ExpectedIs
      <3> QED
        BY <1>1, <1>2, <3>1
    <2>2. CASE step = 7
      <3>1. s = "registerB" /\ reply = Surface!Register("b", "newB", args.invite)
        BY <2>2, WalkIs, AccountExchangeIs
      <3>2. \/ inst' = inst
            \/ inst' = [inst EXCEPT !.names = @ \union {"newB"}, !.sessions = @ \union {"b"}]
        BY <3>1 DEF Surface!Register, Surface!Refuse, Surface!Reply
      <3>3. /\ inst.names \subseteq inst'.names /\ inst'.members = inst.members
            /\ inst'.created = inst.created /\ inst'.code = inst.code /\ inst'.messages = inst.messages
        BY <1>1, <3>2 DEF Surface!Instance
      <3> QED
        BY <1>1, <2>1, <2>2, <3>1, <3>3 DEF GoesWell
    <2>3. CASE step = 11
      <3>1. s = "createServer" /\ inst' = [inst EXCEPT !.created = TRUE, !.members = {"a"}]
        BY <2>3, WalkIs, ServerExchangeIs DEF Surface!CreateServer, Surface!Reply
      <3>2. /\ inst'.names = inst.names /\ inst'.members = {"a"}
            /\ inst'.created = TRUE /\ inst'.code = inst.code /\ inst'.messages = inst.messages
        BY <1>1, <3>1 DEF Surface!Instance
      <3> QED
        BY <1>1, <2>1, <2>3, <3>1, <3>2 DEF GoesWell
    <2>4. CASE step = 15
      <3>1. s = "createInvite" /\ reply = Surface!CreateInvite("a")
        BY <2>4, WalkIs, ServerExchangeIs
      <3>2. \/ inst' = inst /\ reply.code = "FORBIDDEN"
            \/ inst' = [inst EXCEPT !.code = TRUE]
        <4>1. \/ reply = Surface!Reply("OK", [inst EXCEPT !.code = TRUE])
              \/ reply = Surface!Reply("FORBIDDEN", inst)
          BY <3>1 DEF Surface!CreateInvite, Surface!RequireAdmin, Surface!Refuse
        <4> QED
          BY <4>1, ReplyIs
      <3>3. /\ inst'.names = inst.names /\ inst'.members = inst.members
            /\ inst'.created = inst.created /\ inst'.messages = inst.messages
            /\ inst.code = TRUE \/ "createInvite" \in mem'.done => inst'.code = TRUE
        BY <1>1, <3>1, <3>2 DEF Surface!Instance, GoesWell
      <3> QED
        BY <1>1, <2>1, <2>4, <3>1, <3>3 DEF GoesWell
    <2>5. CASE step = 19
      <3>1. s = "join" /\ reply = Surface!JoinByInvite("b")
        BY <2>5, WalkIs, ServerExchangeIs
      <3>2. \/ inst' = inst /\ reply.code = "NOT_FOUND"
            \/ inst' = [inst EXCEPT !.members = @ \union {"b"}]
        BY <3>1 DEF Surface!JoinByInvite, Surface!Refuse, Surface!Reply
      <3>3. /\ inst'.names = inst.names /\ inst.members \subseteq inst'.members
            /\ inst'.created = inst.created /\ inst'.messages = inst.messages /\ inst'.code = inst.code
            /\ "join" \in mem'.done => "b" \in inst'.members
        BY <1>1, <3>1, <3>2 DEF Surface!Instance, GoesWell
      <3> QED
        BY <1>1, <2>1, <2>5, <3>1, <3>3 DEF GoesWell
    <2>6. CASE step = 24
      <3>1. s = "postTarget" /\ reply = Surface!Send("a") /\ "b" \in inst.members
        BY <1>1, <2>6, WalkIs, ServerExchangeIs, AppliesIs DEF GoesWell
      <3>2. \/ inst' = inst /\ reply.code \in {"FORBIDDEN", "PRECONDITION_FAILED"}
            \/ inst' = [inst EXCEPT !.messages = @ \union {"a"}]
        BY <3>1 DEF Surface!Send, Surface!Post, Surface!Refuse, Surface!Reply
      <3>3. /\ inst'.names = inst.names /\ inst'.members = inst.members
            /\ inst'.created = inst.created /\ inst.messages \subseteq inst'.messages
            /\ inst'.code = inst.code
            /\ "postTarget" \in mem'.done => "a" \in inst'.messages
        BY <1>1, <3>1, <3>2 DEF Surface!Instance, GoesWell
      <3> QED
        BY <1>1, <2>1, <2>6, <3>1, <3>3 DEF GoesWell
    <2> QED
      BY <1>7, <2>2, <2>3, <2>4, <2>5, <2>6
  <1>8. CASE step = 21
    <2>1. s = "memberSend" /\ reply = Surface!Send("b") /\ Surface!Role("b") = "member"
      BY <1>1, <1>8, WalkIs, ServerExchangeIs, AppliesIs DEF GoesWell, Surface!Role
    <2>2. \/ inst.encrypts = TRUE /\ inst' = inst /\ reply.code = "PRECONDITION_FAILED"
          \/ /\ inst.encrypts = FALSE /\ inst' = [inst EXCEPT !.messages = @ \union {"b"}]
             /\ reply.code = "OK"
      BY <1>1, <2>1 DEF Surface!Send, Surface!Post, Surface!Refuse, Surface!Reply, Surface!Instance
    <2>3. /\ inst'.names = inst.names /\ inst'.members = inst.members
          /\ inst'.created = inst.created /\ inst.messages \subseteq inst'.messages
          /\ inst'.code = inst.code
          /\ "memberSend" \in mem'.done => "memberSend" \in mem.done \/ "b" \in inst'.messages
      BY <1>1, <2>1, <2>2 DEF Surface!Instance
    <2>4. GoesWell'
      BY <1>1, <1>8, <2>1, <2>3 DEF GoesWell
    <2>5. reply.code \in Surface!Expected(s)
      BY <2>1, <2>2, ExpectedIs
    <2> QED
      BY <1>1, <1>2, <2>1, <2>4, <2>5
  <1>9. CASE step = 26
    <2>1. /\ s = "deleteOwn" /\ reply = Surface!Delete("b", "b") /\ "b" \in inst.messages
          /\ Surface!Role("b") = "member"
      BY <1>1, <1>9, WalkIs, ServerExchangeIs, AppliesIs DEF GoesWell, Surface!Role
    <2>2. reply.code = "OK" /\ inst' = [inst EXCEPT !.messages = @ \ {"b"}]
      BY <2>1 DEF Surface!Delete, Surface!Reply
    <2>3. /\ inst'.names = inst.names /\ inst'.members = inst.members /\ inst'.created = inst.created
          /\ inst'.code = inst.code /\ ("a" \in inst.messages => "a" \in inst'.messages)
      BY <1>1, <2>2 DEF Surface!Instance
    <2>4. GoesWell'
      BY <1>1, <1>9, <2>1, <2>3 DEF GoesWell
    <2>5. reply.code \in Surface!Expected(s)
      BY <2>1, <2>2, ExpectedIs
    <2> QED
      BY <1>1, <1>2, <2>1, <2>4, <2>5
  <1> QED
    BY <1>3, <1>4, <1>5, <1>6, <1>7, <1>8, <1>9

LEMMA AskStep ==
  ASSUME SurfaceInv, Surface!Ask
  PROVE  SurfaceInv'
  <1> PICK s : s = Surface!Walk[step]
    OBVIOUS
  <1> PICK reply : reply = Surface!Exchange(s)
    OBVIOUS
  <1>1. step \in 1..27 /\ inst \in Surface!Instance
    BY WalkIs DEF SurfaceInv, Surface!Ask, Surface!This
  <1>2. /\ inst' = reply.then /\ step' = step + 1 /\ UNCHANGED <<args, steady>>
        /\ mem'.policy = IF s = "instance" THEN inst.policy ELSE mem.policy
        /\ mem'.done = IF reply.code \in {"OK", "LOST"} THEN mem.done \union {s} ELSE mem.done
    BY DEF Surface!Ask, Surface!Conclude, Surface!This
  <1>3. /\ failed' \subseteq failed \union {s}
        /\ reply.code \in Surface!Expected(s) /\ Surface!SessionChecked(s, reply.then) => failed' = failed
    BY DEF Surface!Ask, Surface!Conclude, Surface!This
  <1>4. Same(inst')
    BY <1>1, <1>2, RepliesKeep
  <1>5. steady = TRUE /\ inst.limited = FALSE => GoesWell' /\ failed' \subseteq Tolerated'
    BY <1>1, <1>2, <1>3, <1>4, UndisturbedAsk
  <1> QED
    BY <1>1, <1>2, <1>4, <1>5 DEF SurfaceInv, Same

LEMMA SurfaceBegin == Surface!Init => SurfaceInv
  <1> SUFFICES ASSUME Surface!Init PROVE SurfaceInv
    OBVIOUS
  <1>1. /\ inst \in Surface!Instance /\ inst.names = {"userA", "userB"} /\ inst.members = {}
        /\ args \in [supplied : BOOLEAN, invite : BOOLEAN]
    BY DEF Surface!Init, Surface!Instance, Surface!Policies
  <1>2. step = 1 /\ steady = TRUE /\ failed = {} /\ mem.done = {}
    BY DEF Surface!Init, Surface!NoMemory
  <1> QED
    BY <1>1, <1>2 DEF SurfaceInv, GoesWell

LEMMA SurfaceStep == SurfaceInv /\ Surface!Next => SurfaceInv'
  <1> SUFFICES ASSUME SurfaceInv, Surface!Next PROVE SurfaceInv'
    OBVIOUS
  <1>1. CASE Surface!Ask
    BY <1>1, AskStep
  <1>2. CASE Surface!Skip
    <2>1. /\ UNCHANGED <<inst, args, mem, failed, steady>> /\ step' = step + 1 /\ step \in 1..27
          /\ step # 1
      <3>1. Surface!Applies("instance")
        BY DEF Surface!Applies, Surface!OfAccounts, Surface!AccountWalk, Surface!AccountStepApplies
      <3> QED
        BY <1>2, <3>1, WalkIs DEF Surface!Skip, Surface!This, SurfaceInv
    <2> QED
      BY <2>1 DEF SurfaceInv, GoesWell, Tolerated
  <1>3. CASE Surface!Lose
    <2>1. step \in 1..27 /\ inst \in Surface!Instance /\ UNCHANGED args /\ steady' = FALSE
      BY <1>3, WalkIs DEF Surface!Lose, Surface!Trouble, Surface!This, SurfaceInv
    <2>2. step' \in 1..28
      BY <1>3, <2>1, WalkIs DEF Surface!Lose, Surface!Conclude
    <2>3. inst' \in Surface!Instance
      BY <1>3, <2>1, RepliesKeep DEF Surface!Lose, Surface!This, Same
    <2> QED
      BY <2>1, <2>2, <2>3 DEF SurfaceInv
  <1>4. CASE Surface!UpdateSettings
    BY <1>4 DEF Surface!UpdateSettings, Surface!Trouble, SurfaceInv, Surface!Instance
  <1> QED
    BY <1>1, <1>2, <1>3, <1>4 DEF Surface!Next

SurfacePart == part = "surface" => SurfaceInv

(* Nothing disturbs the run: a conforming order of guards fails no check but two     *)
(* (the handlers of server/routers.ts, the walk of scripts/conformance-auth.ts).     *)
THEOREM WalksThroughHolds == InstanceSpec => []WalksThrough
  <1>1. InstanceInit => SurfacePart
    BY SurfaceBegin DEF InstanceInit, SurfacePart
  <1>2. SurfacePart /\ [InstanceNext]_<<part, vars, publicVars, surfaceVars>> => SurfacePart'
    <2> SUFFICES ASSUME SurfacePart, [InstanceNext]_<<part, vars, publicVars, surfaceVars>>, part' = "surface"
                 PROVE  SurfaceInv'
      BY DEF SurfacePart
    <2>1. CASE InstanceNext
      <3>1. part = "surface" /\ Surface!Next
        BY <2>1 DEF InstanceNext
      <3> QED
        BY <3>1, SurfaceStep DEF SurfacePart
    <2>2. CASE UNCHANGED <<part, vars, publicVars, surfaceVars>>
      <3>1. part = "surface" /\ UNCHANGED <<inst, args, mem, step, failed, steady>>
        BY <2>2 DEF surfaceVars
      <3> QED
        BY <3>1 DEF SurfacePart, SurfaceInv, GoesWell, Tolerated
    <2> QED
      BY <2>1, <2>2
  <1>3. SurfacePart => WalksThrough
    <2> SUFFICES ASSUME SurfaceInv, steady = TRUE, inst.limited = FALSE PROVE failed \subseteq Tolerated
      BY DEF SurfacePart, WalksThrough, Surface!WalksThrough, SurfaceInv, Surface!Instance, Tolerated
    <2> QED
      BY DEF SurfaceInv
  <1> QED
    BY <1>1, <1>2, <1>3, PTL DEF InstanceSpec
===============================================================================
