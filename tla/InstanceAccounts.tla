--------------------------- MODULE InstanceAccounts ---------------------------
(*****************************************************************************)
(* The accounts of one instance (server/routers.ts, server/db.ts,             *)
(* server/sso.ts, server/instance.ts): who may register, who becomes the       *)
(* administrator, which identity of sovrgnnet.cc an account is bound to, and   *)
(* the join policy an administrator saves over the environment's.             *)
(*                                                                            *)
(* A request takes one step per SQL statement, the locked transaction of       *)
(* registration being one; it can end at any step.  Names and emails only      *)
(* refuse a request that meets a taken one, which is such an end; so renaming   *)
(* and signing in, which change nothing else kept here, are left out.         *)
(*****************************************************************************)
EXTENDS Naturals, FiniteSets

CONSTANTS
  Subjects,     \* identities of sovrgnnet.cc
  Unbound,      \* the ssoSubject of an account without one
  Requests,
  EnvPolicy,    \* INSTANCE_JOIN_POLICY
  MaxAccounts,  \* bound on the accounts ever created
  MaxFaults     \* bound on failing reads of the settings

ASSUME UnboundAssumption == Unbound \notin Subjects
ASSUME EnvPolicyAssumption == EnvPolicy \in {"open", "invite", "closed"}
ASSUME BoundsAssumption == MaxAccounts \in Nat \ {0} /\ MaxFaults \in Nat

VARIABLES
  users,   \* the users table
  saved,   \* joinPolicy of the instanceSettings row, "none" without the row
  faults,  \* failing reads so far
  boots,   \* history: the accounts created as the first one
  req      \* the requests being served

vars == <<users, saved, faults, boots, req>>

Ids == 1..MaxAccounts
NobodyId == 0
Policy == {"open", "invite", "closed"}
User == [role: {"none", "user", "admin"}, sso: Subjects \union {Unbound}]
NoUser == [role |-> "none", sso |-> Unbound]
Accounts == {u \in Ids : users[u].role # "none"}
BoundTo(s) == {u \in Accounts : users[u].sso = s}

(* instanceInfo: saved settings win over the environment. *)
Effective(stored) == IF stored = "none" THEN EnvPolicy ELSE stored

(* "user" is the account of the session, "policy" the one read, "inForce" the   *)
(* policies in force since the request began (history).                        *)
Steps == {"idle", "settings", "create", "subject", "count", "ssoSettings", "ssoCreate",
          "owner", "bind", "setRole", "saveRead", "saveInsert", "saveUpdate"}
Request == [pc: Steps, user: 0..MaxAccounts, target: 0..MaxAccounts, subject: Subjects \union {Unbound},
            role: {"user", "admin"}, token: BOOLEAN, invited: BOOLEAN,
            policy: Policy \union {"keep"}, inForce: SUBSET Policy]
Idle == [pc |-> "idle", user |-> NobodyId, target |-> NobodyId, subject |-> Unbound, role |-> "user",
         token |-> FALSE, invited |-> FALSE, policy |-> "keep", inForce |-> {}]

Begin(step) == [Idle EXCEPT !.pc = step, !.inForce = {Effective(saved)}]
Goto(r, step) == req' = [req EXCEPT ![r].pc = step]
End(r) == req' = [req EXCEPT ![r] = Idle]

Init ==
  /\ users = [u \in Ids |-> NoUser]
  /\ saved = "none"
  /\ faults = 0
  /\ boots = {}
  /\ req = [r \in Requests |-> Idle]

-----------------------------------------------------------------------------
(* server/instance.ts, canRegister *)

CanRegister(q, first) ==
  IF first THEN q.token ELSE q.policy = "open" \/ (q.policy = "invite" /\ q.invited)

(* getInstanceSettings answers null when its query fails, and the environment   *)
(* decides then.                                                               *)
ReadSettings(r, next) ==
  \/ /\ req' = [req EXCEPT ![r].pc = next, ![r].policy = Effective(saved)]
     /\ UNCHANGED faults
  \/ /\ faults < MaxFaults /\ faults' = faults + 1
     /\ req' = [req EXCEPT ![r].pc = next, ![r].policy = EnvPolicy]

(* The sequence gives the next id. *)
Insert(role, subject) ==
  LET u == Cardinality(Accounts) + 1 IN
  /\ u \in Ids
  /\ users' = [users EXCEPT ![u] = [role |-> role, sso |-> subject]]

-----------------------------------------------------------------------------
(* auth.register *)

Register(r, token, invited) ==
  /\ req[r].pc = "idle"
  /\ req' = [req EXCEPT ![r] = [Begin("settings") EXCEPT !.token = token, !.invited = invited]]
  /\ UNCHANGED <<users, saved, faults, boots>>

RegisterSettings(r) ==
  /\ req[r].pc = "settings"
  /\ ReadSettings(r, "create")
  /\ UNCHANGED <<users, saved, boots>>

(* Mutant: the first account is taken for the one without an administrator. *)
CreateWithoutAdmin(r) ==
  LET first == \A u \in Accounts : users[u].role # "admin" IN
  /\ req[r].pc = "create"
  /\ IF CanRegister(req[r], first)
       THEN /\ Insert(IF first THEN "admin" ELSE "user", Unbound)
            /\ boots' = IF first THEN boots \union {Cardinality(Accounts) + 1} ELSE boots
       ELSE UNCHANGED <<users, boots>>
  /\ End(r)
  /\ UNCHANGED <<saved, faults>>

CreateUserUnderBootstrapLock(r) ==
  LET first == Accounts = {} IN
  /\ req[r].pc = "create"
  /\ IF CanRegister(req[r], first)
       THEN /\ Insert(IF first THEN "admin" ELSE "user", Unbound)
            /\ boots' = IF first THEN boots \union {Cardinality(Accounts) + 1} ELSE boots
       ELSE UNCHANGED <<users, boots>>
  /\ End(r)
  /\ UNCHANGED <<saved, faults>>

-----------------------------------------------------------------------------
(* auth.ssoRegister; auth.ssoLogin reads the same and creates nothing *)

SsoRegister(r, s) ==
  /\ req[r].pc = "idle"
  /\ req' = [req EXCEPT ![r] = [Begin("subject") EXCEPT !.subject = s]]
  /\ UNCHANGED <<users, saved, faults, boots>>

(* An account that is bound to the subject is signed in to. *)
SsoSubject(r) ==
  /\ req[r].pc = "subject"
  /\ IF BoundTo(req[r].subject) # {} THEN End(r) ELSE Goto(r, "count")
  /\ UNCHANGED <<users, saved, faults, boots>>

SsoCount(r) ==
  /\ req[r].pc = "count"
  /\ IF Accounts = {} THEN End(r) ELSE Goto(r, "ssoSettings")
  /\ UNCHANGED <<users, saved, faults, boots>>

SsoSettings(r) ==
  /\ req[r].pc = "ssoSettings"
  /\ ReadSettings(r, "ssoCreate")
  /\ UNCHANGED <<users, saved, boots>>

(* Mutant: a provider's account is let in by any policy. *)
CreateSsoUserAlways(r) ==
  /\ req[r].pc = "ssoCreate"
  /\ BoundTo(req[r].subject) = {}
  /\ Insert("user", req[r].subject)
  /\ End(r)
  /\ UNCHANGED <<saved, faults, boots>>

(* The account's openId names the subject too, and is unique; but an account    *)
(* made for a subject is never unbound from it.                                *)
CreateSsoUser(r) ==
  /\ req[r].pc = "ssoCreate"
  /\ IF CanRegister(req[r], FALSE) /\ BoundTo(req[r].subject) = {}
       THEN Insert("user", req[r].subject)
       ELSE UNCHANGED users
  /\ End(r)
  /\ UNCHANGED <<saved, faults, boots>>

-----------------------------------------------------------------------------
(* auth.linkSso *)

(* The session's account was read, unbound or bound to this subject already. *)
LinkSso(r, u, s) ==
  /\ req[r].pc = "idle"
  /\ u \in Accounts
  /\ users[u].sso \in {Unbound, s}
  /\ req' = [req EXCEPT ![r] = [Begin("owner") EXCEPT !.user = u, !.subject = s]]
  /\ UNCHANGED <<users, saved, faults, boots>>

LinkOwner(r) ==
  /\ req[r].pc = "owner"
  /\ IF BoundTo(req[r].subject) \subseteq {req[r].user} THEN Goto(r, "bind") ELSE End(r)
  /\ UNCHANGED <<users, saved, faults, boots>>

(* ssoSubject is unique: the update fails when another account has it by now. *)
LinkSsoSubject(r) ==
  /\ req[r].pc = "bind"
  /\ IF BoundTo(req[r].subject) \subseteq {req[r].user}
       THEN users' = [users EXCEPT ![req[r].user].sso = req[r].subject]
       ELSE UNCHANGED users
  /\ End(r)
  /\ UNCHANGED <<saved, faults, boots>>

-----------------------------------------------------------------------------
(* admin.setUserRole and admin.updateSettings; the session's role is read once *)

IsAdmin(u) == users[u].role = "admin"

SetUserRole(r, u, target, role) ==
  /\ req[r].pc = "idle"
  /\ u \in Accounts /\ IsAdmin(u) /\ target \in Accounts
  /\ ~(target = u /\ role = "user")
  /\ req' = [req EXCEPT ![r] = [Begin("setRole") EXCEPT !.user = u, !.target = target, !.role = role]]
  /\ UNCHANGED <<users, saved, faults, boots>>

WriteUserRole(r) ==
  /\ req[r].pc = "setRole"
  /\ users' = [users EXCEPT ![req[r].target].role = req[r].role]
  /\ End(r)
  /\ UNCHANGED <<saved, faults, boots>>

(* "keep": settings are saved without a joinPolicy. *)
UpdateSettings(r, u, policy) ==
  /\ req[r].pc = "idle"
  /\ u \in Accounts /\ IsAdmin(u)
  /\ req' = [req EXCEPT ![r] = [Begin("saveRead") EXCEPT !.user = u, !.policy = policy]]
  /\ UNCHANGED <<users, saved, faults, boots>>

SaveRead(r) ==
  /\ req[r].pc = "saveRead"
  /\ \/ Goto(r, IF saved = "none" THEN "saveInsert" ELSE "saveUpdate") /\ UNCHANGED faults
     \/ faults < MaxFaults /\ faults' = faults + 1 /\ Goto(r, "saveInsert")
  /\ UNCHANGED <<users, saved, boots>>

(* The column's default is "invite".  A second insert fails on the row's id. *)
Written(r) ==
  IF req[r].pc = "saveInsert"
    THEN IF saved # "none" THEN saved ELSE IF req[r].policy = "keep" THEN "invite" ELSE req[r].policy
    ELSE IF req[r].policy = "keep" THEN saved ELSE req[r].policy

SaveSettings(r) ==
  /\ req[r].pc \in {"saveInsert", "saveUpdate"}
  /\ saved' = Written(r)
  /\ req' = [q \in Requests |->
               IF q = r THEN Idle
               ELSE IF req[q].pc = "idle" THEN Idle
               ELSE [req[q] EXCEPT !.inForce = @ \union {Effective(Written(r))}]]
  /\ UNCHANGED <<users, faults, boots>>

-----------------------------------------------------------------------------
Abort(r) ==
  /\ req[r].pc # "idle"
  /\ End(r)
  /\ UNCHANGED <<users, saved, faults, boots>>

Step(r) ==
  \/ \E token, invited \in BOOLEAN : Register(r, token, invited)
  \/ \E s \in Subjects : SsoRegister(r, s) \/ \E u \in Ids : LinkSso(r, u, s)
  \/ \E u, target \in Ids, role \in {"user", "admin"} : SetUserRole(r, u, target, role)
  \/ \E u \in Ids, policy \in Policy \union {"keep"} : UpdateSettings(r, u, policy)
  \/ RegisterSettings(r) \/ CreateUserUnderBootstrapLock(r)
  \/ SsoSubject(r) \/ SsoCount(r) \/ SsoSettings(r) \/ CreateSsoUser(r)
  \/ LinkOwner(r) \/ LinkSsoSubject(r)
  \/ WriteUserRole(r) \/ SaveRead(r) \/ SaveSettings(r)
  \/ Abort(r)

Next == \E r \in Requests : Step(r)

Spec == Init /\ [][Next]_vars

-----------------------------------------------------------------------------
(* Properties *)

(* Types; accounts are numbered without gaps, and no two are bound to one       *)
(* identity.                                                                   *)
TypeOK ==
  /\ users \in [Ids -> User]
  /\ \E n \in 0..MaxAccounts : Accounts = 1..n
  /\ \A s \in Subjects : \A u, v \in BoundTo(s) : u = v
  /\ saved \in Policy \union {"none"}
  /\ faults \in 0..MaxFaults
  /\ boots \subseteq Ids
  /\ req \in [Requests -> Request]

(* The first account takes the instance, and the chance is gone for good: no    *)
(* second account is ever let in as the first, even when no administrator is    *)
(* left ("the decision and the insert happen under one lock").                 *)
OneBootstrap == Cardinality(boots) <= 1 /\ (Accounts # {} => boots = {1})

(* Whoever becomes an administrator is the first account, or was made one by a  *)
(* request that an administrator began.                                        *)
AdminsGranted ==
  [][\A u \in Ids : users[u].role # "admin" /\ users'[u].role = "admin" =>
       \/ Accounts = {} /\ u = 1
       \/ \E r \in Requests :
            /\ req[r].pc = "setRole" /\ req[r].target = u /\ req[r].role = "admin"
            /\ req'[r] # req[r]]_vars

Admits(policy, q) == policy = "open" \/ (policy = "invite" /\ q.invited)

(* Every account but the first was admitted by a policy that was in force while *)
(* its request was served, or by the environment's in place of one that could   *)
(* not be read.                                                                *)
AdmittedByPolicy ==
  [][\A u \in Ids \ {1} : users[u].role = "none" /\ users'[u].role # "none" =>
       \E r \in Requests :
         /\ req[r].pc \in {"create", "ssoCreate"} /\ req'[r] # req[r]
         /\ \E policy \in req[r].inForce \union (IF faults > 0 THEN {EnvPolicy} ELSE {}) :
              Admits(policy, req[r])]_vars

(* What the checks a request has passed say about it for good, and which        *)
(* policies it may go by.                                                      *)
Sound(q) ==
  /\ q.pc \in {"subject", "count", "ssoSettings", "ssoCreate", "owner", "bind"} => q.subject \in Subjects
  /\ q.pc \in {"ssoSettings", "ssoCreate", "owner", "bind", "setRole"} => Accounts # {}
  /\ q.pc \in {"owner", "bind"} => q.user \in Accounts
  /\ q.pc = "setRole" => q.target \in Accounts
  /\ q.pc = "saveUpdate" => saved # "none"
  /\ q.pc # "idle" => Effective(saved) \in q.inForce
  /\ q.pc \in {"create", "ssoCreate"} =>
       q.policy \in q.inForce \union (IF faults > 0 THEN {EnvPolicy} ELSE {})

(* The inductive invariant of the accounts (InstanceAccountsProofs). *)
IndInv ==
  /\ TypeOK
  /\ OneBootstrap /\ (Accounts = {} => boots = {})
  /\ \A r \in Requests : Sound(req[r])

-----------------------------------------------------------------------------
(* Statements of the documentation that the code does not keep *)

(* "Closed means closed even for someone holding an old invite link"           *)
(* (docs/ROADMAP.md): while nothing but "closed" was in force during a request, *)
(* it creates no account.                                                      *)
ClosedMeansClosed ==
  [][\A u \in Ids \ {1} : users[u].role = "none" /\ users'[u].role # "none" =>
       \E r \in Requests : req'[r] # req[r] /\ req[r].inForce # {"closed"}]_vars

(* "Rebinding would hand that account to a different person" (decideSsoLink):   *)
(* an account that is bound stays bound to the same identity.                  *)
NeverRebound ==
  [][\A u \in Ids : users[u].sso # Unbound => users'[u].sso = users[u].sso]_vars

(* "Every instance keeps local accounts and at least one local administrator"   *)
(* (docs/ARCHITECTURE.md).                                                     *)
AdminRemains == Accounts # {} => \E u \in Accounts : IsAdmin(u)
===============================================================================
