---------------------------- MODULE WebClientProofs ----------------------------
(* Theorems about the parts of MCWebClient other than MatrixSession: the Matrix       *)
(* account behind a user, the recovery of encryption, the key of an encrypted upload,    *)
(* and the desktop's panel about an instance.  Each part has an inductive invariant, and *)
(* a lemma with one step per action of the part's module.                            *)
EXTENDS MCWebClient, FiniteSetTheorems, TLAPS

-------------------------------------------------------------------------------
(* MatrixAccounts *)

Request == [pc : Accounts!Steps, kind : Accounts!Kinds, user : Tabs \cup {NoUser},
            name : Names \cup {NoName}, mxid : Names \cup {NoName},
            token : 0 .. MaxTokens, of : Names \cup {NoName}, device : Accounts!Devices]
MatrixAccount == [owner : Tabs \cup {NoUser}, token : [Accounts!Devices -> 0 .. MaxTokens]]

AccountTypes ==
  /\ username \in [Tabs -> Names]
  /\ rows \in [Runs -> Accounts!Row]
  /\ account \in [Names -> MatrixAccount]
  /\ minted \in 0 .. MaxTokens /\ faults \in Nat
  /\ req \in [Runs -> Request]

(* The instance's own logins, under which a stored token is made: a client's device is *)
(* another.                                                                      *)
Works(of, login) ==
  \E d \in {"registered", "SOVRGNNET_SERVER"} : account[of].token[d] = login

(* A stored token is of an account of its user; the id beside it is that account's      *)
(* unless the user wrote another; it is the user's only row unless the user's requests   *)
(* crossed; it works while nothing failed.                                       *)
RowIsRight(i) ==
  /\ rows[i].of # NoName <=> rows[i].token # 0
  /\ rows[i].of # NoName => rows[i].mxid # NoName
  /\ rows[i].user \notin claimed => rows[i].mxid = rows[i].of
  /\ rows[i].of # NoName =>
       /\ rows[i].user \in Tabs /\ account[rows[i].of].owner = rows[i].user
       /\ rows[i].user \notin crossed =>
            /\ \A j \in Runs : rows[j].user = rows[i].user => j = i
            /\ faults = 0 => Works(rows[i].of, rows[i].token)

(* What a request carries. *)
CarriesItsOwn(q) ==
  /\ q.pc # "idle" => q.user \in Tabs /\ q.name \in Names
  /\ q.of # NoName <=> q.token # 0
  /\ q.user \notin claimed => q.mxid = q.of
  /\ q.kind = "profile" => q.of = NoName
  /\ q.of # NoName => q.user \in Tabs /\ account[q.of].owner = q.user

(* Which kind of request comes to which step, and what it has found by then. *)
KeepsOrder(q) ==
  /\ q.pc \in {"register", "login"} => q.kind \in {"ensure", "client"}
  /\ q.pc \in {"select", "update", "insert"} => q.kind # "signout"
  /\ q.pc \in {"select", "update", "insert"} /\ q.kind # "profile" => q.of # NoName /\ q.mxid = q.of
  /\ q.pc = "client" => q.kind = "client" /\ q.mxid # NoName
  /\ q.pc \in {"whoami", "delete"} => q.kind = "signout" /\ q.of # NoName
  /\ q.pc = "read" => q.kind # "profile"

Early == {"read", "register", "login", "select", "update", "insert"}

(* A request that is going to save a row: the user has no token stored yet, and a new row *)
(* is the user's first.                                                           *)
FindsNoId(q) ==
  q.user \notin crossed =>
    /\ q.pc \in {"register", "login", "select", "update", "insert"} /\ q.kind # "profile" =>
         \A j \in Runs : rows[j].user = q.user => rows[j].of = NoName
    /\ q.pc = "insert" => \A j \in Runs : rows[j].user = q.user => rows[j].of = NoName
    /\ q.pc = "insert" /\ q.kind # "profile" => \A j \in Runs : rows[j].user # q.user

(* A sign-out has the stored row, and deletes another device than its token's. *)
HasTheRow(q) ==
  q.pc \in {"whoami", "delete"} /\ q.user \notin crossed =>
    /\ \E j \in Runs : rows[j].user = q.user /\ rows[j].of = q.of /\ rows[j].token = q.token
    /\ faults = 0 /\ q.pc = "delete" => account[q.of].token[q.device] # q.token

HasToken(q) ==
  /\ q.pc \in {"select", "update", "insert"} /\ q.kind # "profile" /\ q.user \notin crossed
  /\ faults = 0
  => Works(q.of, q.token)

RequestIsRight(i, q) ==
  /\ q \in Request
  /\ CarriesItsOwn(q)
  /\ KeepsOrder(q)
  /\ q.pc \in Early => rows[i] = Accounts!NoRow
  /\ FindsNoId(q)
  /\ HasTheRow(q)
  /\ HasToken(q)

(* A user with a request under way beside one that provisions is among the crossed. *)
CrossingsAreKnown ==
  \A i, j \in Runs :
    i # j /\ Accounts!Provisioning(req[i]) /\ req[j].pc # "idle" /\ req[j].user = req[i].user
      => req[i].user \in crossed

AccountsInv ==
  /\ AccountTypes
  /\ \A i \in Runs : RowIsRight(i)
  /\ \A i \in Runs : RequestIsRight(i, req[i])
  /\ CrossingsAreKnown

LEMMA AccountNames ==
  /\ NoUser \notin Tabs /\ NoName \notin Names /\ MaxTokens \in Nat
  /\ IsFiniteSet(Runs)
  BY PartsAssumption, MatrixSessionAssumption DEF Accounts!MatrixAccountsAssumption

LEMMA IdleRequest == ASSUME NEW i \in Runs PROVE RequestIsRight(i, Accounts!Idle)
  BY AccountNames DEF RequestIsRight, Accounts!Idle, Request, Accounts!Steps, Accounts!Kinds,
     Accounts!Devices, CarriesItsOwn, KeepsOrder, Early, FindsNoId, HasTheRow, HasToken

LEMMA IdleRequestNext == ASSUME NEW i \in Runs PROVE RequestIsRight(i, Accounts!Idle)'
  BY IdleRequest, PTL

LEMMA AccountsBegin == WebInit => AccountsInv
  <1> SUFFICES ASSUME WebInit
               PROVE  AccountsInv
    OBVIOUS
  <1>1. Accounts!Init
    BY DEF WebInit
  <1>2. /\ \A i \in Runs : rows[i] = Accounts!NoRow
        /\ \A i \in Runs : req[i] = Accounts!Idle
    BY <1>1 DEF Accounts!Init
  <1>3. AccountTypes
    <2>1. Accounts!Idle \in Request
      BY AccountNames DEF Accounts!Idle, Request, Accounts!Steps, Accounts!Kinds, Accounts!Devices
    <2>2. Accounts!NoRow \in Accounts!Row
      BY AccountNames DEF Accounts!NoRow, Accounts!Row
    <2>3. Accounts!NoAccount \in MatrixAccount
      BY AccountNames DEF Accounts!NoAccount, MatrixAccount
    <2> QED
      BY <1>1, <2>1, <2>2, <2>3, AccountNames DEF Accounts!Init, AccountTypes
  <1>4. \A i \in Runs : RowIsRight(i)
    BY <1>2 DEF RowIsRight, Accounts!NoRow
  <1>5. \A i \in Runs : RequestIsRight(i, req[i])
    BY <1>2, IdleRequest
  <1>6. CrossingsAreKnown
    BY <1>2 DEF CrossingsAreKnown, Accounts!Provisioning, Accounts!Idle
  <1> QED
    BY <1>3, <1>4, <1>5, <1>6 DEF AccountsInv

(* What a request carries stays right while nothing it is about changes. *)
LEMMA StaysRight ==
  ASSUME NEW i \in Runs, NEW q, RequestIsRight(i, q), faults \in Nat,
         UNCHANGED <<username, rows, account, crossed, claimed>>, faults' \in {faults, faults + 1}
  PROVE  RequestIsRight(i, q)'
  BY DEF RequestIsRight, CarriesItsOwn, KeepsOrder, FindsNoId, HasTheRow, HasToken, Works

(* One request goes on, and nothing else changes. *)
LEMMA MoveStep ==
  ASSUME AccountsInv, NEW i \in Runs, NEW q, req' = [req EXCEPT ![i] = q],
         UNCHANGED <<username, rows, account, minted, crossed, claimed>>, faults' \in {faults, faults + 1},
         req[i].pc # "idle",
         q.pc = "idle" \/ (q.user = req[i].user /\ q.kind = req[i].kind),
         RequestIsRight(i, q)'
  PROVE  AccountsInv'
  <1>0. faults' \in Nat /\ (faults' = 0 => faults = 0)
    BY DEF AccountsInv, AccountTypes
  <1>1. req' \in [Runs -> Request] /\ req'[i] = q /\ \A j \in Runs : j # i => req'[j] = req[j]
    BY DEF AccountsInv, AccountTypes, RequestIsRight
  <1>2. AccountTypes'
    BY <1>0, <1>1 DEF AccountsInv, AccountTypes
  <1>3. \A j \in Runs : RowIsRight(j)'
    BY <1>0 DEF AccountsInv, RowIsRight, Works
  <1>4. \A j \in Runs : RequestIsRight(j, req[j])'
    <2> SUFFICES ASSUME NEW j \in Runs
                 PROVE  RequestIsRight(j, req[j])'
      OBVIOUS
    <2>1. CASE j = i
      BY <1>1, <2>1
    <2>2. CASE j # i
      <3>1. RequestIsRight(j, req[j]) /\ req'[j] = req[j]
        BY <1>1, <2>2 DEF AccountsInv
      <3> QED
        BY <1>0, <3>1 DEF RequestIsRight, CarriesItsOwn, KeepsOrder, FindsNoId, HasTheRow, HasToken, Works
    <2> QED
      BY <2>1, <2>2
  <1>5. CrossingsAreKnown'
    BY <1>1 DEF AccountsInv, CrossingsAreKnown, Accounts!Provisioning
  <1> QED
    BY <1>2, <1>3, <1>4, <1>5 DEF AccountsInv

(* A request ends, or goes on as it is to another step. *)
LEMMA EndsStep ==
  ASSUME AccountsInv, NEW i \in Runs, req[i].pc # "idle", Accounts!End(i),
         UNCHANGED <<username, rows, account, minted, crossed, claimed>>, faults' \in {faults, faults + 1}
  PROVE  AccountsInv'
  <1>1. PICK q : q = Accounts!Idle
    OBVIOUS
  <1>2. req' = [req EXCEPT ![i] = q] /\ q.pc = "idle"
    BY <1>1 DEF Accounts!End, Accounts!Idle
  <1>3. RequestIsRight(i, q)'
    BY <1>1, IdleRequestNext DEF Accounts!Idle
  <1> QED
    BY <1>2, <1>3, MoveStep

LEMMA GoesOn ==
  ASSUME AccountsInv, NEW i \in Runs, NEW pc, Accounts!Goto(i, pc), req[i].pc # "idle",
         UNCHANGED <<username, rows, account, minted, crossed, claimed>>, faults' \in {faults, faults + 1},
         NEW q, q = [req[i] EXCEPT !.pc = pc], RequestIsRight(i, q)'
  PROVE  AccountsInv'
  <1>1. req[i] \in Request
    BY DEF AccountsInv, AccountTypes
  <1>2. req' = [req EXCEPT ![i] = q] /\ q.user = req[i].user /\ q.kind = req[i].kind
    BY <1>1 DEF Accounts!Goto, Request
  <1> QED
    BY <1>2, MoveStep

(* The same request at another step. *)
LEMMA SameRequest ==
  ASSUME NEW r \in Request, NEW pc
  PROVE  LET q == [r EXCEPT !.pc = pc]
         IN  /\ q.pc = pc /\ q.kind = r.kind /\ q.user = r.user /\ q.name = r.name
             /\ q.mxid = r.mxid /\ q.of = r.of /\ q.token = r.token /\ q.device = r.device
             /\ pc \in Accounts!Steps => q \in Request
  BY DEF Request

LEMMA ReadStep ==
  ASSUME AccountsInv, NEW i \in Runs, Accounts!Read(i)
  PROVE  AccountsInv'
  <1>1. /\ req[i].pc = "read" /\ RequestIsRight(i, req[i]) /\ req[i] \in Request /\ faults \in Nat
        /\ rows \in [Runs -> Accounts!Row]
        /\ UNCHANGED <<username, rows, account, minted, crossed, claimed, faults>>
    BY DEF AccountsInv, AccountTypes, Accounts!Read
  <1>2. req[i].user \in Tabs /\ req[i].kind # "profile" /\ rows[i] = Accounts!NoRow
    BY <1>1 DEF RequestIsRight, CarriesItsOwn, KeepsOrder, Early
  <1>3. PICK row \in Accounts!Found(req[i].user) :
          IF Accounts!Credentials(row)
          THEN IF req[i].kind = "ensure" THEN Accounts!End(i)
               ELSE req' = [req EXCEPT ![i].mxid = row.mxid, ![i].token = row.token, ![i].of = row.of,
                                       ![i].pc = IF req[i].kind = "client" THEN "client" ELSE "whoami"]
          ELSE IF req[i].kind = "signout" THEN Accounts!End(i) ELSE Accounts!Goto(i, "register")
    BY DEF Accounts!Read
  <1>4. CASE Accounts!End(i)
    BY <1>1, <1>4, EndsStep
  <1>5. CASE ~Accounts!Credentials(row) /\ req[i].kind # "signout" /\ Accounts!Goto(i, "register")
    <2>1. ASSUME NEW j \in Runs, rows[j].user = req[i].user, req[i].user \notin crossed
          PROVE  rows[j].of = NoName
      <3> SUFFICES ASSUME rows[j].of # NoName
                   PROVE  FALSE
        OBVIOUS
      <3>1. RowIsRight(j)
        BY DEF AccountsInv
      <3>2. \A k \in Runs : rows[k].user = req[i].user => k = j
        BY <2>1, <3>1 DEF RowIsRight
      <3>3. row = rows[j]
        BY <2>1, <3>2 DEF Accounts!Found, Accounts!RowsOf
      <3> QED
        BY <1>5, <3>1, <3>3 DEF Accounts!Credentials, RowIsRight
    <2>2. PICK q : q = [req[i] EXCEPT !.pc = "register"]
      OBVIOUS
    <2>3. /\ q.pc = "register" /\ q.kind = req[i].kind /\ q.user = req[i].user /\ q.name = req[i].name
          /\ q.mxid = req[i].mxid /\ q.of = req[i].of /\ q.token = req[i].token /\ q \in Request
      BY <1>1, <2>2, SameRequest DEF Accounts!Steps
    <2>4. req[i].kind \in {"ensure", "client"}
      BY <1>1, <1>2, <1>5 DEF Request, Accounts!Kinds
    <2>5. RequestIsRight(i, q)
      BY <1>1, <1>2, <2>1, <2>3, <2>4
      DEF RequestIsRight, CarriesItsOwn, KeepsOrder, Early, FindsNoId, HasTheRow, HasToken
    <2> QED
      BY <1>1, <1>5, <2>2, <2>5, StaysRight, GoesOn
  <1>6. CASE /\ Accounts!Credentials(row) /\ req[i].kind # "ensure"
             /\ req' = [req EXCEPT ![i].mxid = row.mxid, ![i].token = row.token, ![i].of = row.of,
                                   ![i].pc = IF req[i].kind = "client" THEN "client" ELSE "whoami"]
    <2>1. PICK j \in Runs : rows[j] = row /\ rows[j].user = req[i].user
      BY <1>6 DEF Accounts!Found, Accounts!RowsOf, Accounts!Credentials, Accounts!NoRow
    <2>2. /\ row.mxid # NoName /\ row.of # NoName /\ row.token # 0 /\ account[row.of].owner = req[i].user
          /\ req[i].user \notin claimed => row.mxid = row.of
          /\ row.mxid \in Names \cup {NoName} /\ row.of \in Names \cup {NoName}
          /\ row.token \in 0 .. MaxTokens
      BY <1>1, <1>6, <2>1 DEF AccountsInv, RowIsRight, Accounts!Credentials, Accounts!Row
    <2> DEFINE pc == IF req[i].kind = "client" THEN "client" ELSE "whoami"
    <2>3. PICK q : q = [req[i] EXCEPT !.mxid = row.mxid, !.token = row.token, !.of = row.of, !.pc = pc]
      OBVIOUS
    <2>4. /\ q \in Request /\ q.pc = pc /\ q.kind = req[i].kind /\ q.user = req[i].user
          /\ q.name = req[i].name /\ q.mxid = row.mxid /\ q.of = row.of /\ q.token = row.token
      BY <1>1, <2>2, <2>3 DEF Request, Accounts!Steps
    <2>5. req' = [req EXCEPT ![i] = q]
      BY <1>6, <2>3
    <2>6. req[i].kind \in {"client", "signout"}
      BY <1>1, <1>2, <1>6 DEF Request, Accounts!Kinds
    <2>7. /\ q.pc \in {"client", "whoami"} /\ (q.pc = "client" <=> q.kind = "client")
          /\ q.kind = req[i].kind /\ q.user = req[i].user /\ q.name = req[i].name
          /\ q.mxid = row.mxid /\ q.of = row.of /\ q.token = row.token
      BY <2>4, <2>6
    <2>8. RequestIsRight(i, q)
      <3>1. CarriesItsOwn(q)
        BY <1>1, <1>2, <2>2, <2>7 DEF RequestIsRight, CarriesItsOwn
      <3>2. KeepsOrder(q)
        BY <2>2, <2>6, <2>7 DEF KeepsOrder
      <3>3. q.pc \notin Early /\ FindsNoId(q) /\ HasToken(q)
        BY <2>7 DEF Early, FindsNoId, HasToken
      <3>4. HasTheRow(q)
        BY <2>1, <2>7 DEF HasTheRow
      <3> QED
        BY <2>4, <3>1, <3>2, <3>3, <3>4 DEF RequestIsRight
    <2> QED
      BY <1>1, <2>5, <2>7, <2>8, StaysRight, MoveStep
  <1> QED
    BY <1>3, <1>4, <1>5, <1>6

(* registerOrLogin finds the name taken. *)
LEMMA NameTakenStep ==
  ASSUME AccountsInv, NEW i \in Runs, req[i].pc = "register", Accounts!Goto(i, "login"),
         UNCHANGED <<username, rows, account, minted, crossed, claimed, faults>>
  PROVE  AccountsInv'
  <1>1. RequestIsRight(i, req[i]) /\ req[i] \in Request /\ faults \in Nat
    BY DEF AccountsInv, AccountTypes
  <1>2. PICK q : q = [req[i] EXCEPT !.pc = "login"]
    OBVIOUS
  <1>3. /\ q.pc = "login" /\ q.kind = req[i].kind /\ q.user = req[i].user /\ q.name = req[i].name
        /\ q.mxid = req[i].mxid /\ q.of = req[i].of /\ q.token = req[i].token /\ q \in Request
    BY <1>1, <1>2, SameRequest DEF Accounts!Steps
  <1>4. RequestIsRight(i, q)
    BY <1>1, <1>3
    DEF RequestIsRight, CarriesItsOwn, KeepsOrder, Early, FindsNoId, HasTheRow, HasToken
  <1> QED
    BY <1>1, <1>2, <1>4, StaysRight, GoesOn

LEMMA SelectStep ==
  ASSUME AccountsInv, NEW i \in Runs, Accounts!Select(i)
  PROVE  AccountsInv'
  <1>1. /\ req[i].pc = "select" /\ RequestIsRight(i, req[i]) /\ req[i] \in Request /\ faults \in Nat
        /\ UNCHANGED <<username, rows, account, minted, crossed, claimed, faults>>
    BY DEF AccountsInv, AccountTypes, Accounts!Select
  <1>2. PICK pc \in {"insert", "update"} :
          /\ Accounts!Goto(i, pc)
          /\ pc = "insert" => Accounts!RowsOf(req[i].user) = {}
    BY DEF Accounts!Select
  <1>3. PICK q : q = [req[i] EXCEPT !.pc = pc]
    OBVIOUS
  <1>4. /\ q.pc = pc /\ q.kind = req[i].kind /\ q.user = req[i].user /\ q.name = req[i].name
        /\ q.mxid = req[i].mxid /\ q.of = req[i].of /\ q.token = req[i].token /\ q \in Request
    BY <1>1, <1>3, SameRequest DEF Accounts!Steps
  <1>5. RequestIsRight(i, q)
    <2>1. CarriesItsOwn(q) /\ KeepsOrder(q) /\ rows[i] = Accounts!NoRow /\ HasTheRow(q) /\ HasToken(q)
      BY <1>1, <1>2, <1>4 DEF RequestIsRight, CarriesItsOwn, KeepsOrder, Early, HasTheRow, HasToken
    <2>2. FindsNoId(q)
      BY <1>1, <1>2, <1>4 DEF RequestIsRight, FindsNoId, Accounts!RowsOf
    <2> QED
      BY <1>4, <2>1, <2>2 DEF RequestIsRight
  <1> QED
    BY <1>1, <1>2, <1>3, <1>5, StaysRight, GoesOn

(* The device of the stored token is known when whoami answered. *)
LEMMA WhoamiStep ==
  ASSUME AccountsInv, NEW i \in Runs, Accounts!Whoami(i)
  PROVE  AccountsInv'
  <1>1. /\ req[i].pc = "whoami" /\ RequestIsRight(i, req[i]) /\ req[i] \in Request /\ faults \in Nat
        /\ UNCHANGED <<username, rows, account, minted, crossed, claimed>>
    BY DEF AccountsInv, AccountTypes, Accounts!Whoami
  <1>2. PICK pc \in {"idle", "delete"} :
          /\ Accounts!Goto(i, pc)
          /\ \/ faults' = faults + 1
             \/ faults' = faults /\ (pc = "delete" => req[i].device \notin Accounts!ServerDevice(i))
    BY DEF Accounts!Whoami, Accounts!Fault
  <1>3. PICK q : q = [req[i] EXCEPT !.pc = pc]
    OBVIOUS
  <1>4. /\ q.pc = pc /\ q.kind = req[i].kind /\ q.user = req[i].user /\ q.name = req[i].name
        /\ q.mxid = req[i].mxid /\ q.of = req[i].of /\ q.token = req[i].token /\ q.device = req[i].device /\ q \in Request
    BY <1>1, <1>3, SameRequest DEF Accounts!Steps
  <1>5. RequestIsRight(i, q)'
    <2>1. /\ CarriesItsOwn(q)' /\ KeepsOrder(q)' /\ FindsNoId(q)' /\ HasToken(q)'
          /\ q.pc \notin Early
      BY <1>1, <1>2, <1>4 DEF RequestIsRight, CarriesItsOwn, KeepsOrder, Early, FindsNoId, HasToken
    <2>2. HasTheRow(q)'
      <3>1. faults' = 0 /\ pc = "delete" => req[i].device \notin Accounts!ServerDevice(i)
        BY <1>1, <1>2
      <3>2. req[i].device \in Accounts!Devices
        BY <1>1 DEF Request
      <3>3. faults' = 0 /\ pc = "delete" => account[q.of].token[q.device] # q.token
        BY <1>4, <3>1, <3>2 DEF Accounts!ServerDevice
      <3>4. q.user \notin crossed =>
              \E j \in Runs : rows[j].user = q.user /\ rows[j].of = q.of /\ rows[j].token = q.token
        BY <1>1, <1>4 DEF RequestIsRight, HasTheRow
      <3> QED
        BY <1>1, <1>4, <3>3, <3>4 DEF HasTheRow
    <2> QED
      BY <1>4, <2>1, <2>2 DEF RequestIsRight
  <1> QED
    BY <1>1, <1>2, <1>3, <1>5, GoesOn

(* The homeserver makes a token on an account that is nobody's yet or the request's      *)
(* user's: nobody else's id, row or token is touched, and the user's own rows only when   *)
(* requests crossed.                                                             *)
LEMMA GrantStep ==
  ASSUME AccountsInv, NEW i \in Runs, NEW n \in Names, NEW d \in Accounts!Devices, NEW q,
         Accounts!Provisioning(req[i]), req[i].user \in Tabs,
         account[n].owner \in {NoUser, req[i].user},
         d = "client" \/ req[i].pc \in {"register", "login"},
         minted < MaxTokens, minted' = minted + 1,
         account' = [account EXCEPT ![n].owner = IF @ = NoUser THEN req[i].user ELSE @,
                                    ![n].token[d] = minted + 1],
         UNCHANGED <<username, rows, crossed, claimed>>, faults' \in {faults, faults + 1},
         req' = [req EXCEPT ![i] = q],
         q.pc = "idle" \/ (q.user = req[i].user /\ q.kind = req[i].kind),
         RequestIsRight(i, q)'
  PROVE  AccountsInv'
  <1>1. /\ account \in [Names -> MatrixAccount] /\ minted \in 0 .. MaxTokens
        /\ faults' \in Nat /\ (faults' = 0 => faults = 0)
        /\ req \in [Runs -> Request]
    BY DEF AccountsInv, AccountTypes
  <1>2. minted' \in 0 .. MaxTokens
    BY <1>1, AccountNames
  <1>3. /\ account' \in [Names -> MatrixAccount]
        /\ account'[n].owner = req[i].user
        /\ \A e \in Accounts!Devices : e # d => account'[n].token[e] = account[n].token[e]
        /\ \A m \in Names : m # n => account'[m] = account[m]
    BY <1>1, <1>2 DEF MatrixAccount
  <1>4. \A m \in Names : account[m].owner \in Tabs => account'[m].owner = account[m].owner
    BY <1>3, AccountNames
  <1>5. req' \in [Runs -> Request] /\ req'[i] = q /\ \A j \in Runs : j # i => req'[j] = req[j]
    BY <1>1 DEF RequestIsRight
  <1>6. AccountTypes'
    BY <1>1, <1>2, <1>3, <1>5 DEF AccountsInv, AccountTypes
  <1>7. ASSUME NEW m \in Names, NEW v \in Tabs, account[m].owner = v, v # req[i].user
        PROVE  account'[m] = account[m]
    BY <1>3, <1>7, AccountNames
  <1>8. ASSUME NEW j \in Runs
        PROVE  RowIsRight(j)'
    <2>1. RowIsRight(j)
      BY DEF AccountsInv
    <2>2. rows[j].of \in Names \cup {NoName} /\ rows[j].user \in Tabs \cup {NoUser}
      BY DEF AccountsInv, AccountTypes, Accounts!Row
    <2>3. CASE rows[j].of = NoName
      BY <2>1, <2>3 DEF RowIsRight
    <2>4. CASE rows[j].of # NoName /\ rows[j].user # req[i].user
      <3>1. account'[rows[j].of] = account[rows[j].of]
        BY <1>7, <2>1, <2>2, <2>4 DEF RowIsRight
      <3> QED
        BY <1>1, <2>1, <3>1 DEF RowIsRight, Works
    <2>5. CASE rows[j].of # NoName /\ rows[j].user = req[i].user
      <3>1. account'[rows[j].of].owner = rows[j].user
        BY <1>4, <2>1, <2>2, <2>5 DEF RowIsRight
      <3>2. d = "client" \/ rows[j].user \in crossed
        <4>1. RequestIsRight(i, req[i])
          BY DEF AccountsInv
        <4> QED
          BY <2>5, <4>1 DEF RequestIsRight, FindsNoId, KeepsOrder
      <3>3. ASSUME d = "client", Works(rows[j].of, rows[j].token)
            PROVE  Works(rows[j].of, rows[j].token)'
        <4>1. PICK e \in {"registered", "SOVRGNNET_SERVER"} : account[rows[j].of].token[e] = rows[j].token
          BY <3>3 DEF Works
        <4>2. account'[rows[j].of].token[e] = rows[j].token
          BY <1>3, <2>2, <2>5, <3>3, <4>1 DEF Accounts!Devices
        <4> QED
          BY <4>2 DEF Works
      <3> QED
        BY <1>1, <2>1, <3>1, <3>2, <3>3 DEF RowIsRight
    <2> QED
      BY <2>3, <2>4, <2>5
  <1>9. ASSUME NEW j \in Runs
        PROVE  RequestIsRight(j, req[j])'
    <2>1. CASE j = i
      BY <1>5, <2>1
    <2>2. CASE j # i
      <3>1. RequestIsRight(j, req[j]) /\ req'[j] = req[j] /\ req[j] \in Request
        BY <1>1, <1>5, <2>2 DEF AccountsInv
      <3>2. CarriesItsOwn(req[j])'
        <4>1. CarriesItsOwn(req[j]) /\ req[j].of \in Names \cup {NoName}
          BY <3>1 DEF RequestIsRight, Request
        <4>2. req[j].of # NoName => account'[req[j].of].owner = req[j].user
          BY <1>4, <4>1 DEF CarriesItsOwn
        <4> QED
          BY <3>1, <4>1, <4>2 DEF CarriesItsOwn
      <3>3. /\ KeepsOrder(req[j])' /\ FindsNoId(req[j])'
            /\ (req[j].pc \in Early => rows[j] = Accounts!NoRow)'
        BY <3>1 DEF RequestIsRight, KeepsOrder, FindsNoId
      <3>4. CASE req[j].pc \in {"select", "update", "insert", "whoami", "delete"} /\ req[j].user # req[i].user
        <4>1. req[j].of # NoName => account'[req[j].of] = account[req[j].of]
          BY <1>7, <3>1, <3>4 DEF RequestIsRight, CarriesItsOwn, Request
        <4>2. HasToken(req[j])'
          BY <1>1, <3>1, <4>1 DEF RequestIsRight, HasToken, KeepsOrder, Works
        <4>3. HasTheRow(req[j])'
          BY <1>1, <3>1, <4>1 DEF RequestIsRight, HasTheRow, KeepsOrder
        <4> QED
          BY <3>1, <3>2, <3>3, <4>2, <4>3 DEF RequestIsRight
      <3>5. CASE req[j].pc \in {"select", "update", "insert", "whoami", "delete"} /\ req[j].user = req[i].user
        <4>1. req[j].user \in crossed
          BY <2>2, <3>5 DEF AccountsInv, CrossingsAreKnown
        <4> QED
          BY <3>1, <3>2, <3>3, <4>1 DEF RequestIsRight, HasToken, HasTheRow
      <3>6. CASE req[j].pc \notin {"select", "update", "insert", "whoami", "delete"}
        BY <3>1, <3>2, <3>3, <3>6 DEF RequestIsRight, HasToken, HasTheRow
      <3> QED
        BY <3>4, <3>5, <3>6
    <2> QED
      BY <2>1, <2>2
  <1>10. CrossingsAreKnown'
    BY <1>5 DEF AccountsInv, CrossingsAreKnown, Accounts!Provisioning
  <1> QED
    BY <1>6, <1>8, <1>9, <1>10 DEF AccountsInv

(* The token is saved next, or the answer was lost, or it was a client's. *)
LEMMA GrantedStep ==
  ASSUME AccountsInv, NEW i \in Runs, NEW n \in Names, NEW d \in Accounts!Devices,
         NEW next \in {"select", "idle"}, Accounts!Grant(i, n, d, next),
         Accounts!Provisioning(req[i]), req[i].user \in Tabs,
         account[n].owner \in {NoUser, req[i].user},
         d = "client" \/ req[i].pc \in {"register", "login"},
         next = "select" => d # "client",
         UNCHANGED <<username, rows, crossed, claimed>>
  PROVE  AccountsInv'
  <1>1. /\ minted < MaxTokens /\ minted' = minted + 1
        /\ account' = [account EXCEPT ![n].owner = IF @ = NoUser THEN req[i].user ELSE @,
                                      ![n].token[d] = minted + 1]
        /\ faults' \in {faults, faults + 1}
    BY DEF Accounts!Grant, Accounts!Fault
  <1>2. CASE Accounts!End(i)
    <2>1. PICK q : q = Accounts!Idle
      OBVIOUS
    <2>2. req' = [req EXCEPT ![i] = q] /\ q.pc = "idle"
      BY <1>2, <2>1 DEF Accounts!End, Accounts!Idle
    <2>3. RequestIsRight(i, q)'
      BY <2>1, IdleRequestNext DEF Accounts!Idle
    <2> QED
      BY <1>1, <2>2, <2>3, GrantStep
  <1>3. CASE /\ next = "select"
             /\ req' = [req EXCEPT ![i].pc = next, ![i].mxid = n, ![i].token = minted + 1, ![i].of = n]
    <2>1. /\ RequestIsRight(i, req[i]) /\ req[i] \in Request /\ minted \in 0 .. MaxTokens
          /\ account \in [Names -> MatrixAccount] /\ faults \in Nat
      BY DEF AccountsInv, AccountTypes
    <2>2. PICK q : q = [req[i] EXCEPT !.pc = next, !.mxid = n, !.token = minted + 1, !.of = n]
      OBVIOUS
    <2>3. req' = [req EXCEPT ![i] = q]
      BY <1>3, <2>2
    <2>4. minted + 1 \in 0 .. MaxTokens /\ minted + 1 # 0
      BY <1>1, <2>1, AccountNames
    <2>5. /\ q \in Request /\ q.pc = "select" /\ q.kind = req[i].kind /\ q.user = req[i].user
          /\ q.name = req[i].name /\ q.mxid = n /\ q.of = n /\ q.token = minted + 1
      BY <1>3, <2>1, <2>2, <2>4 DEF Request, Accounts!Steps
    <2>6. account'[n].owner = req[i].user /\ account'[n].token[d] = minted + 1
      BY <1>1, <2>1 DEF MatrixAccount
    <2>7. d \in {"registered", "SOVRGNNET_SERVER"} /\ req[i].pc \in {"register", "login"}
      BY <1>3 DEF Accounts!Devices
    <2>8. RequestIsRight(i, q)'
      <3>1. CarriesItsOwn(q)'
        <4>1. req[i].user \in Tabs /\ req[i].name \in Names /\ n # NoName /\ q.kind # "profile"
          BY <2>1, <2>5, <2>7, AccountNames DEF RequestIsRight, CarriesItsOwn, KeepsOrder
        <4> QED
          BY <2>4, <2>5, <2>6, <4>1 DEF CarriesItsOwn
      <3>2. KeepsOrder(q)' /\ FindsNoId(q)' /\ HasTheRow(q)' /\ (q.pc \in Early => rows[i] = Accounts!NoRow)'
        BY <2>1, <2>5, <2>7, AccountNames DEF RequestIsRight, KeepsOrder, FindsNoId, HasTheRow, Early
      <3>3. HasToken(q)'
        BY <2>5, <2>6, <2>7 DEF HasToken, Works
      <3> QED
        BY <2>5, <3>1, <3>2, <3>3 DEF RequestIsRight
    <2> QED
      BY <1>1, <2>3, <2>5, <2>8, GrantStep
  <1> QED
    BY <1>2, <1>3 DEF Accounts!Grant

LEMMA RegisterStep ==
  ASSUME AccountsInv, NEW i \in Runs, Accounts!Register(i) \/ Accounts!Login(i)
  PROVE  AccountsInv'
  <1>1. /\ req[i].pc \in {"register", "login"} /\ UNCHANGED <<username, rows, crossed, claimed>>
        /\ RequestIsRight(i, req[i])
    BY DEF AccountsInv, Accounts!Register, Accounts!Login
  <1>2. Accounts!Provisioning(req[i]) /\ req[i].user \in Tabs /\ req[i].name \in Names
    BY <1>1 DEF RequestIsRight, CarriesItsOwn, KeepsOrder, Accounts!Provisioning
  <1>3. CASE Accounts!Register(i) /\ account[req[i].name].owner = NoUser
    <2>1. Accounts!Grant(i, req[i].name, "registered", "select")
      BY <1>3 DEF Accounts!Register
    <2>2. "registered" \in Accounts!Devices
      BY DEF Accounts!Devices
    <2> QED
      BY <1>1, <1>2, <1>3, <2>1, <2>2, GrantedStep
  <1>4. CASE Accounts!Register(i) /\ account[req[i].name].owner # NoUser
    BY <1>4, NameTakenStep DEF Accounts!Register
  <1>5. CASE Accounts!Login(i) /\ Accounts!PasswordFits(i, req[i].name)
    <2>1. Accounts!Grant(i, req[i].name, "SOVRGNNET_SERVER", "select")
      BY <1>5 DEF Accounts!Login, Accounts!SERVER_DEVICE_ID
    <2>2. "SOVRGNNET_SERVER" \in Accounts!Devices
      BY DEF Accounts!Devices
    <2>3. account[req[i].name].owner = req[i].user
      BY <1>5 DEF Accounts!PasswordFits
    <2> QED
      BY <1>1, <1>2, <2>1, <2>2, <2>3, GrantedStep
  <1>6. CASE Accounts!Login(i) /\ ~Accounts!PasswordFits(i, req[i].name)
    BY <1>6, EndsStep DEF Accounts!Login
  <1> QED
    BY <1>3, <1>4, <1>5, <1>6

LEMMA ClientSessionStep ==
  ASSUME AccountsInv, NEW i \in Runs, Accounts!ClientSession(i)
  PROVE  AccountsInv'
  <1>1. /\ req[i].pc = "client" /\ UNCHANGED <<username, rows, crossed, claimed>>
        /\ RequestIsRight(i, req[i]) /\ req[i] \in Request
    BY DEF AccountsInv, AccountTypes, Accounts!ClientSession
  <1>2. /\ Accounts!Provisioning(req[i]) /\ req[i].user \in Tabs /\ req[i].mxid \in Names
    BY <1>1 DEF RequestIsRight, CarriesItsOwn, KeepsOrder, Accounts!Provisioning, Request
  <1>3. CASE Accounts!PasswordFits(i, req[i].mxid)
    <2>1. Accounts!Grant(i, req[i].mxid, "client", "idle")
      BY <1>3 DEF Accounts!ClientSession
    <2>2. "client" \in Accounts!Devices
      BY DEF Accounts!Devices
    <2>3. account[req[i].mxid].owner = req[i].user
      BY <1>3 DEF Accounts!PasswordFits
    <2> QED
      BY <1>1, <1>2, <2>1, <2>2, <2>3, GrantedStep
  <1>4. CASE ~Accounts!PasswordFits(i, req[i].mxid)
    BY <1>4, EndsStep DEF Accounts!ClientSession
  <1> QED
    BY <1>3, <1>4

(* A row keeps its token, and its user unless it is the request's own new row. *)
KeepsToken(i, j) ==
  rows'[j].of = rows[j].of /\ rows'[j].token = rows[j].token /\ (rows'[j].user = rows[j].user \/ j = i)

(* A request saves the row of its user: it is the only one that may provision for the    *)
(* user, or it brings no token.                                                   *)
LEMMA RowsStep ==
  ASSUME AccountsInv, NEW i \in Runs, NEW q, req[i].pc = "update" \/ req[i].pc = "insert",
         rows' \in [Runs -> Accounts!Row],
         \A j \in Runs : rows'[j] # rows[j] =>
           rows'[j].user = req[i].user /\ (rows[j].user = req[i].user \/ j = i),
         \/ Accounts!Provisioning(req[i])
         \/ \A j \in Runs : KeepsToken(i, j),
         \A j \in Runs : rows'[j].user = req[i].user => RowIsRight(j)',
         UNCHANGED <<username, account, minted, crossed, claimed, faults>>,
         req' = [req EXCEPT ![i] = q],
         q.pc = "idle" \/ (q.user = req[i].user /\ q.kind = req[i].kind),
         RequestIsRight(i, q)'
  PROVE  AccountsInv'
  <1> DEFINE u == req[i].user
  <1>1. /\ req \in [Runs -> Request] /\ rows \in [Runs -> Accounts!Row]
        /\ RequestIsRight(i, req[i])
    BY DEF AccountsInv, AccountTypes
  <1>0. /\ rows' \in [Runs -> Accounts!Row]
        /\ \A j \in Runs : rows'[j] # rows[j] => rows'[j].user = u /\ (rows[j].user = u \/ j = i)
        /\ \/ Accounts!Provisioning(req[i])
           \/ \A j \in Runs : KeepsToken(i, j)
        /\ \A j \in Runs : rows'[j].user = u => RowIsRight(j)'
    OBVIOUS
  <1>2. u \in Tabs /\ rows[i] = Accounts!NoRow
    BY <1>1 DEF RequestIsRight, CarriesItsOwn, Early
  <1>3. req' \in [Runs -> Request] /\ req'[i] = q /\ \A j \in Runs : j # i => req'[j] = req[j]
    BY <1>1 DEF RequestIsRight
  <1>4. AccountTypes'
    BY <1>0, <1>3 DEF AccountsInv, AccountTypes
  <1>5. \A j \in Runs : rows'[j].user # u => rows'[j] = rows[j]
    BY <1>0
  <1>6. \A j \in Runs : rows[j].user # u /\ rows[j].user # NoUser => rows'[j] = rows[j]
    BY <1>0, <1>2 DEF Accounts!NoRow
  <1>7. ASSUME NEW j \in Runs
        PROVE  RowIsRight(j)'
    <2>1. CASE rows'[j].user = u
      BY <1>0, <2>1
    <2>2. CASE rows'[j].user # u
      <3>1. rows'[j] = rows[j] /\ RowIsRight(j)
        BY <1>5, <2>2 DEF AccountsInv
      <3>2. \A k \in Runs : rows'[k].user = rows'[j].user => rows'[k] = rows[k]
        BY <1>5, <2>2
      <3> QED
        BY <3>1, <3>2 DEF RowIsRight, Works
    <2> QED
      BY <2>1, <2>2
  <1>8. ASSUME NEW k \in Runs
        PROVE  RequestIsRight(k, req[k])'
    <2>1. CASE k = i
      BY <1>3, <2>1
    <2>2. CASE k # i
      <3>1. RequestIsRight(k, req[k]) /\ req'[k] = req[k] /\ req[k] \in Request
        BY <1>1, <1>3, <2>2 DEF AccountsInv
      <3>2. CarriesItsOwn(req[k])' /\ KeepsOrder(req[k])' /\ HasToken(req[k])'
        BY <3>1 DEF RequestIsRight, CarriesItsOwn, KeepsOrder, HasToken, Works
      <3>3. (req[k].pc \in Early => rows[k] = Accounts!NoRow)'
        BY <1>0, <1>2, <2>2, <3>1, AccountNames DEF RequestIsRight, Accounts!NoRow
      <3>4. FindsNoId(req[k])' /\ HasTheRow(req[k])'
        <4>1. CASE req[k].pc = "idle"
          BY <3>1, <4>1 DEF FindsNoId, HasTheRow
        <4>2. CASE req[k].pc # "idle" /\ req[k].user # u
          <5>1. req[k].user # NoUser
            BY <3>1, <4>2, AccountNames DEF RequestIsRight, CarriesItsOwn
          <5>2. \A j \in Runs : /\ rows'[j].user = req[k].user => rows'[j] = rows[j]
                                /\ rows[j].user = req[k].user => rows'[j] = rows[j]
            BY <1>5, <1>6, <4>2, <5>1
          <5>3. FindsNoId(req[k])'
            BY <3>1, <5>2 DEF RequestIsRight, FindsNoId
          <5>4. HasTheRow(req[k])'
            BY <3>1, <5>2 DEF RequestIsRight, HasTheRow
          <5> QED
            BY <5>3, <5>4
        <4>3. CASE req[k].pc # "idle" /\ req[k].user = u /\ u \in crossed
          BY <3>1, <4>3 DEF FindsNoId, HasTheRow
        <4>4. CASE req[k].pc # "idle" /\ req[k].user = u /\ u \notin crossed
          <5>1. ~Accounts!Provisioning(req[i]) /\ ~Accounts!Provisioning(req[k])
            BY <1>1, <2>2, <4>4 DEF AccountsInv, CrossingsAreKnown
          <5>2. \A j \in Runs : KeepsToken(i, j)
            BY <1>0, <5>1
          <5>3. req[k].kind \in {"profile", "signout"}
            BY <3>1, <4>4, <5>1 DEF Request, Accounts!Kinds, Accounts!Provisioning
          <5>4. FindsNoId(req[k])'
            BY <1>2, <3>1, <5>2, <5>3 DEF RequestIsRight, FindsNoId, KeepsOrder, KeepsToken, Accounts!NoRow
          <5>5. HasTheRow(req[k])'
            BY <1>2, <3>1, <5>2 DEF RequestIsRight, HasTheRow, KeepsOrder, KeepsToken, Accounts!NoRow
          <5> QED
            BY <5>4, <5>5
        <4> QED
          BY <4>1, <4>2, <4>3, <4>4
      <3> QED
        BY <3>1, <3>2, <3>3, <3>4 DEF RequestIsRight
    <2> QED
      BY <2>1, <2>2
  <1>9. CrossingsAreKnown'
    BY <1>3 DEF AccountsInv, CrossingsAreKnown, Accounts!Provisioning
  <1> QED
    BY <1>4, <1>7, <1>8, <1>9 DEF AccountsInv

(* What comes after a row is saved. *)
LEMMA SavedRequest ==
  ASSUME AccountsInv, NEW i \in Runs, req[i].pc \in {"update", "insert"},
         Accounts!Saved(i), UNCHANGED <<account>>
  PROVE  \E q : /\ req' = [req EXCEPT ![i] = q]
                /\ q.pc = "idle" \/ (q.user = req[i].user /\ q.kind = req[i].kind)
                /\ RequestIsRight(i, q)'
  <1>1. CASE Accounts!End(i)
    <2>1. PICK q : q = Accounts!Idle
      OBVIOUS
    <2>2. req' = [req EXCEPT ![i] = q] /\ q.pc = "idle"
      BY <1>1, <2>1 DEF Accounts!End, Accounts!Idle
    <2>3. RequestIsRight(i, q)'
      BY <2>1, IdleRequestNext DEF Accounts!Idle
    <2> QED
      BY <2>2, <2>3
  <1>2. CASE req[i].kind = "client" /\ Accounts!Goto(i, "client")
    <2>1. RequestIsRight(i, req[i]) /\ req[i] \in Request
      BY DEF AccountsInv, AccountTypes
    <2>2. PICK q : q = [req[i] EXCEPT !.pc = "client"]
      OBVIOUS
    <2>3. /\ q.pc = "client" /\ q.kind = req[i].kind /\ q.user = req[i].user /\ q.name = req[i].name
          /\ q.mxid = req[i].mxid /\ q.of = req[i].of /\ q.token = req[i].token /\ q \in Request
      BY <2>1, <2>2, SameRequest DEF Accounts!Steps
    <2>4. req' = [req EXCEPT ![i] = q]
      BY <1>2, <2>2 DEF Accounts!Goto
    <2>5. RequestIsRight(i, q)'
      <3>1. CarriesItsOwn(q)' /\ KeepsOrder(q)'
        BY <1>2, <2>1, <2>3 DEF RequestIsRight, CarriesItsOwn, KeepsOrder
      <3>2. q.pc \notin Early /\ FindsNoId(q)' /\ HasTheRow(q)' /\ HasToken(q)'
        BY <2>3 DEF Early, FindsNoId, HasTheRow, HasToken
      <3> QED
        BY <2>3, <3>1, <3>2 DEF RequestIsRight
    <2> QED
      BY <2>3, <2>4, <2>5
  <1> QED
    BY <1>1, <1>2 DEF Accounts!Saved

(* At most one element: this module's Cardinality is that of module MatrixAccounts. *)
LEMMA OneOwnRow ==
  ASSUME NEW S \in SUBSET Runs, Accounts!Cardinality(S) <= 1, NEW a \in S, NEW b \in S
  PROVE  a = b
  <1>1. Accounts!Cardinality(S) = Cardinality(S)
    BY DEF Accounts!Cardinality, Cardinality, Accounts!IsFiniteSet, IsFiniteSet
  <1>2. IsFiniteSet(S)
    BY AccountNames, FS_Subset
  <1>3. Cardinality(S) \in Nat /\ Cardinality(S) # 0
    BY <1>2, FS_CardinalityType, FS_EmptySet
  <1>4. Cardinality(S) = 1
    BY <1>1, <1>3
  <1> QED
    BY <1>2, <1>4, FS_Singleton

LEMMA UpdateStep ==
  ASSUME AccountsInv, NEW i \in Runs, Accounts!Update(i)
  PROVE  AccountsInv'
  <1> DEFINE u == req[i].user
             own == Accounts!RowsOf(u)
  <1>1. /\ req[i].pc = "update" /\ RequestIsRight(i, req[i]) /\ req[i] \in Request
        /\ rows \in [Runs -> Accounts!Row]
        /\ UNCHANGED <<username, account, minted, crossed, claimed, faults>>
    BY DEF AccountsInv, AccountTypes, Accounts!Update
  <1>2. CASE Accounts!End(i) /\ UNCHANGED rows
    BY <1>1, <1>2, EndsStep
  <1>3. PICK saved : saved = [j \in Runs |-> Accounts!Saves(i, rows[j])]
    OBVIOUS
  <1>4. CASE /\ req[i].kind # "profile"
             /\ Accounts!Cardinality(own) <= 1
             /\ rows' = [j \in Runs |-> IF j \in own THEN saved[j] ELSE rows[j]]
             /\ Accounts!Saved(i)
    <2>1. PICK q : /\ req' = [req EXCEPT ![i] = q]
                   /\ q.pc = "idle" \/ (q.user = req[i].user /\ q.kind = req[i].kind)
                   /\ RequestIsRight(i, q)'
      BY <1>1, <1>4, SavedRequest
    <2>2. /\ u \in Tabs /\ req[i].of # NoName /\ req[i].mxid = req[i].of /\ req[i].token # 0
          /\ account[req[i].of].owner = u
          /\ u \notin crossed /\ faults = 0 => Works(req[i].of, req[i].token)
      BY <1>1, <1>4 DEF RequestIsRight, CarriesItsOwn, KeepsOrder, HasToken
    <2>3. \A j \in Runs : /\ saved[j] \in Accounts!Row /\ saved[j].user = rows[j].user
                          /\ saved[j].of = req[i].of /\ saved[j].token = req[i].token
                          /\ saved[j].mxid = req[i].mxid
      BY <1>1, <1>3, <1>4 DEF Accounts!Saves, Accounts!Row, Request
    <2>4. /\ rows' \in [Runs -> Accounts!Row]
          /\ \A j \in Runs : rows'[j].user = rows[j].user
          /\ \A j \in Runs : rows'[j] # rows[j] => rows[j].user = u
          /\ \A j \in own : /\ rows'[j].of = req[i].of /\ rows'[j].token = req[i].token
                            /\ rows'[j].mxid = req[i].mxid
      BY <1>1, <1>4, <2>3 DEF Accounts!RowsOf
    <2>5. ASSUME NEW j \in Runs, rows'[j].user = u
          PROVE  RowIsRight(j)'
      <3>1. /\ j \in own /\ rows'[j].of = req[i].of /\ rows'[j].token = req[i].token
            /\ rows'[j].mxid = req[i].mxid
        BY <2>4, <2>5 DEF Accounts!RowsOf
      <3>2. \A k \in Runs : rows'[k].user = u => k = j
        <4> SUFFICES ASSUME NEW k \in Runs, rows'[k].user = u
                     PROVE  k = j
          OBVIOUS
        <4>1. k \in own /\ own \in SUBSET Runs
          BY <2>4 DEF Accounts!RowsOf
        <4>2. PICK S : S = own
          OBVIOUS
        <4>3. S \in SUBSET Runs /\ Accounts!Cardinality(S) <= 1 /\ k \in S /\ j \in S
          BY <1>4, <3>1, <4>1, <4>2
        <4> QED
          BY <4>3, OneOwnRow
      <3> QED
        BY <1>1, <2>2, <2>5, <3>1, <3>2 DEF RowIsRight, Works
    <2>6. Accounts!Provisioning(req[i])
      BY <1>1, <1>4 DEF Accounts!Provisioning, RequestIsRight, KeepsOrder, Request, Accounts!Kinds
    <2>7. \A j \in Runs : rows'[j] # rows[j] =>
            rows'[j].user = req[i].user /\ (rows[j].user = req[i].user \/ j = i)
      BY <2>4
    <2>8. \A j \in Runs : rows'[j].user = req[i].user => RowIsRight(j)'
      BY <2>5
    <2> QED
      BY <1>1, <2>1, <2>4, <2>6, <2>7, <2>8, RowsStep
  <1>5. CASE /\ req[i].kind = "profile"
             /\ rows' = [j \in Runs |-> IF j \in own THEN saved[j] ELSE rows[j]]
             /\ Accounts!Saved(i)
    <2>1. PICK q : /\ req' = [req EXCEPT ![i] = q]
                   /\ q.pc = "idle" \/ (q.user = req[i].user /\ q.kind = req[i].kind)
                   /\ RequestIsRight(i, q)'
      BY <1>1, <1>5, SavedRequest
    <2>2. u \in Tabs /\ req[i].of = NoName /\ (u \notin claimed => req[i].mxid = NoName)
      BY <1>1, <1>5 DEF RequestIsRight, CarriesItsOwn
    <2>3. \A j \in Runs : /\ saved[j] \in Accounts!Row /\ saved[j].user = rows[j].user
                          /\ saved[j].of = rows[j].of /\ saved[j].token = rows[j].token
                          /\ saved[j].mxid = IF req[i].mxid # NoName THEN req[i].mxid ELSE rows[j].mxid
      BY <1>1, <1>3, <1>5 DEF Accounts!Saves, Accounts!Row, Request
    <2>4. /\ rows' \in [Runs -> Accounts!Row]
          /\ \A j \in Runs : KeepsToken(i, j) /\ rows'[j].user = rows[j].user
          /\ \A j \in Runs : rows'[j] # rows[j] => rows[j].user = u
          /\ \A j \in own : rows'[j].mxid = IF req[i].mxid # NoName THEN req[i].mxid ELSE rows[j].mxid
      BY <1>1, <1>5, <2>3 DEF Accounts!RowsOf, KeepsToken
    <2>5. ASSUME NEW j \in Runs, rows'[j].user = u
          PROVE  RowIsRight(j)'
      <3>1. RowIsRight(j) /\ j \in own /\ rows[j].user = u
        BY <2>4, <2>5 DEF AccountsInv, Accounts!RowsOf
      <3>2. rows'[j].of = rows[j].of /\ rows'[j].token = rows[j].token
        BY <2>4 DEF KeepsToken
      <3>3. /\ rows[j].mxid # NoName => rows'[j].mxid # NoName
            /\ u \notin claimed => rows'[j].mxid = rows[j].mxid
        BY <2>2, <2>4, <3>1
      <3> QED
        BY <1>1, <2>4, <2>5, <3>1, <3>2, <3>3 DEF RowIsRight, Works
    <2>6. \A j \in Runs : rows'[j] # rows[j] =>
            rows'[j].user = req[i].user /\ (rows[j].user = req[i].user \/ j = i)
      BY <2>4
    <2>7. \A j \in Runs : rows'[j].user = req[i].user => RowIsRight(j)'
      BY <2>5
    <2> QED
      BY <1>1, <2>1, <2>4, <2>6, <2>7, RowsStep
  <1>6. \/ Accounts!End(i) /\ UNCHANGED rows
        \/ /\ req[i].mxid = NoName \/ Accounts!Cardinality(own) <= 1
           /\ rows' = [j \in Runs |-> IF j \in own THEN saved[j] ELSE rows[j]]
           /\ Accounts!Saved(i)
    BY <1>3 DEF Accounts!Update
  <1>7. req[i].kind # "profile" => req[i].mxid # NoName
    BY <1>1 DEF RequestIsRight, KeepsOrder
  <1> QED
    BY <1>2, <1>4, <1>5, <1>6, <1>7

LEMMA InsertStep ==
  ASSUME AccountsInv, NEW i \in Runs, Accounts!Insert(i)
  PROVE  AccountsInv'
  <1> DEFINE u == req[i].user
  <1>1. /\ req[i].pc = "insert" /\ RequestIsRight(i, req[i]) /\ req[i] \in Request
        /\ rows \in [Runs -> Accounts!Row]
        /\ UNCHANGED <<username, account, minted, crossed, claimed, faults>>
    BY DEF AccountsInv, AccountTypes, Accounts!Insert
  <1>2. CASE Accounts!End(i) /\ UNCHANGED rows
    BY <1>1, <1>2, EndsStep
  <1>3. u \in Tabs /\ rows[i] = Accounts!NoRow
    BY <1>1 DEF RequestIsRight, CarriesItsOwn, Early
  <1>4. CASE /\ rows' = [rows EXCEPT ![i] = [user |-> u, mxid |-> req[i].mxid,
                                             token |-> req[i].token, of |-> req[i].of]]
             /\ Accounts!Saved(i)
    <2>1. PICK q : /\ req' = [req EXCEPT ![i] = q]
                   /\ q.pc = "idle" \/ (q.user = req[i].user /\ q.kind = req[i].kind)
                   /\ RequestIsRight(i, q)'
      BY <1>1, <1>4, SavedRequest
    <2>2. /\ req[i].kind = "profile" => req[i].of = NoName
          /\ req[i].kind # "profile" => req[i].of # NoName /\ req[i].mxid = req[i].of
          /\ req[i].of # NoName <=> req[i].token # 0
          /\ u \notin claimed => req[i].mxid = req[i].of
          /\ req[i].of # NoName => account[req[i].of].owner = u
          /\ req[i].kind # "profile" /\ u \notin crossed /\ faults = 0 => Works(req[i].of, req[i].token)
      BY <1>1 DEF RequestIsRight, CarriesItsOwn, KeepsOrder, HasToken
    <2>3. /\ rows' \in [Runs -> Accounts!Row]
          /\ rows'[i].user = u /\ rows'[i].of = req[i].of /\ rows'[i].token = req[i].token
          /\ rows'[i].mxid = req[i].mxid
          /\ \A j \in Runs : j # i => rows'[j] = rows[j]
      BY <1>1, <1>3, <1>4 DEF Accounts!Row, Request
    <2>4. u \notin crossed =>
            /\ \A j \in Runs : rows[j].user = u => rows[j].of = NoName
            /\ req[i].kind # "profile" => \A j \in Runs : rows[j].user # u
      BY <1>1 DEF RequestIsRight, FindsNoId
    <2>5. ASSUME NEW j \in Runs, rows'[j].user = u
          PROVE  RowIsRight(j)'
      <3>1. CASE j = i
        BY <1>1, <1>3, <2>2, <2>3, <2>4, <3>1 DEF RowIsRight, Works
      <3>2. CASE j # i
        <4>1. rows'[j] = rows[j] /\ RowIsRight(j)
          BY <2>3, <3>2 DEF AccountsInv
        <4> QED
          BY <1>1, <2>4, <2>5, <4>1 DEF RowIsRight, Works
      <3> QED
        BY <3>1, <3>2
    <2>6. Accounts!Provisioning(req[i]) \/ \A j \in Runs : KeepsToken(i, j)
      <3>1. CASE req[i].kind # "profile"
        BY <1>1, <3>1 DEF Accounts!Provisioning, RequestIsRight, KeepsOrder, Request, Accounts!Kinds
      <3>2. CASE req[i].kind = "profile"
        BY <1>3, <2>2, <2>3, <3>2 DEF KeepsToken, Accounts!NoRow
      <3> QED
        BY <3>1, <3>2
    <2>7. \A j \in Runs : rows'[j] # rows[j] =>
            rows'[j].user = req[i].user /\ (rows[j].user = req[i].user \/ j = i)
      BY <2>3
    <2>8. \A j \in Runs : rows'[j].user = req[i].user => RowIsRight(j)'
      BY <2>5
    <2> QED
      BY <1>1, <2>1, <2>3, <2>6, <2>7, <2>8, RowsStep
  <1> QED
    BY <1>2, <1>4 DEF Accounts!Insert

(* A device is removed whose token is not the stored one; no id and no owner changes.   *)
LEMMA DeleteDeviceStep ==
  ASSUME AccountsInv, NEW i \in Runs, Accounts!DeleteDevice(i)
  PROVE  AccountsInv'
  <1>1. /\ req[i].pc = "delete" /\ RequestIsRight(i, req[i]) /\ req[i] \in Request
        /\ account \in [Names -> MatrixAccount] /\ faults \in Nat /\ req \in [Runs -> Request]
        /\ Accounts!End(i) /\ UNCHANGED <<username, rows, minted, crossed, claimed, faults>>
    BY DEF AccountsInv, AccountTypes, Accounts!DeleteDevice
  <1>2. CASE account' = account
    BY <1>1, <1>2, EndsStep
  <1>3. CASE /\ req[i].mxid = req[i].of /\ Accounts!PasswordFits(i, req[i].mxid)
             /\ account' = [account EXCEPT ![req[i].mxid].token[req[i].device] = 0]
    <2>1. PICK n, d, u : n = req[i].of /\ d = req[i].device /\ u = req[i].user
      OBVIOUS
    <2>2. n \in Names /\ d \in Accounts!Devices /\ u \in Tabs /\ account[n].owner = u
          /\ req[i].kind = "signout"
      BY <1>1, <1>3, <2>1 DEF RequestIsRight, KeepsOrder, CarriesItsOwn, Request, Accounts!PasswordFits
    <2>3. /\ account' \in [Names -> MatrixAccount]
          /\ account'[n].token[d] = 0
          /\ \A m \in Names : account'[m].owner = account[m].owner
          /\ \A m \in Names : m # n => account'[m] = account[m]
          /\ \A e \in Accounts!Devices : e # d => account'[n].token[e] = account[n].token[e]
      <3>1. account' = [account EXCEPT ![n].token[d] = 0]
        BY <1>3, <2>1
      <3>2. 0 \in 0 .. MaxTokens
        BY AccountNames
      <3> QED
        BY <1>1, <2>2, <3>1, <3>2 DEF MatrixAccount
    <2>4. \A m \in Names : account[m].owner # u => account'[m] = account[m]
      BY <2>2, <2>3
    <2>5. /\ req' \in [Runs -> Request] /\ req'[i].pc = "idle" /\ RequestIsRight(i, req[i])'
          /\ \A j \in Runs : j # i => req'[j] = req[j]
      <3>1. PICK q : q = Accounts!Idle
        OBVIOUS
      <3>2. RequestIsRight(i, q)'
        BY <3>1, IdleRequestNext DEF Accounts!Idle
      <3>3. req' = [req EXCEPT ![i] = q] /\ q.pc = "idle" /\ q \in Request
        BY <1>1, <3>1, <3>2 DEF Accounts!End, Accounts!Idle, RequestIsRight
      <3>4. req' \in [Runs -> Request] /\ req'[i] = q /\ \A j \in Runs : j # i => req'[j] = req[j]
        BY <1>1, <3>3
      <3> QED
        BY <3>2, <3>3, <3>4
    <2>6. ASSUME NEW j \in Runs
          PROVE  RowIsRight(j)'
      <3>1. /\ RowIsRight(j) /\ rows[j].of \in Names \cup {NoName}
            /\ rows[j].user \in Tabs \cup {NoUser}
        BY DEF AccountsInv, AccountTypes, Accounts!Row
      <3>2. CASE rows[j].of = NoName
        BY <1>1, <3>1, <3>2 DEF RowIsRight
      <3>3. CASE rows[j].of # NoName /\ rows[j].user # u
        <4>1. account'[rows[j].of] = account[rows[j].of]
          BY <2>4, <3>1, <3>3 DEF RowIsRight
        <4> QED
          BY <1>1, <3>1, <4>1 DEF RowIsRight, Works
      <3>4. CASE rows[j].of # NoName /\ rows[j].user = u
        <4>1. ASSUME u \notin crossed, faults = 0, Works(rows[j].of, rows[j].token)
              PROVE  Works(rows[j].of, rows[j].token)'
          <5>1. /\ account[n].token[d] # req[i].token
                /\ \E k \in Runs : rows[k].user = u /\ rows[k].of = n /\ rows[k].token = req[i].token
            BY <1>1, <2>1, <4>1 DEF RequestIsRight, HasTheRow
          <5>2. PICK k \in Runs : rows[k].user = u /\ rows[k].of = n /\ rows[k].token = req[i].token
            BY <5>1
          <5>3. k = j
            BY <3>1, <3>4, <4>1, <5>2 DEF RowIsRight
          <5>4. PICK e \in {"registered", "SOVRGNNET_SERVER"} : account[n].token[e] = rows[j].token
            BY <4>1, <5>2, <5>3 DEF Works
          <5>5. e # d /\ e \in Accounts!Devices
            BY <5>1, <5>2, <5>3, <5>4 DEF Accounts!Devices
          <5>6. account'[n].token[e] = rows[j].token
            BY <2>3, <5>4, <5>5
          <5> QED
            BY <1>1, <5>2, <5>3, <5>6 DEF Works
        <4>2. account'[rows[j].of].owner = account[rows[j].of].owner
          BY <2>3, <3>1, <3>4
        <4> QED
          BY <1>1, <3>1, <3>4, <4>1, <4>2 DEF RowIsRight
      <3> QED
        BY <3>2, <3>3, <3>4
    <2>7. ASSUME NEW j \in Runs
          PROVE  RequestIsRight(j, req[j])'
      <3>1. CASE j = i
        BY <2>5, <3>1
      <3>2. CASE j # i
        <4>1. RequestIsRight(j, req[j]) /\ req'[j] = req[j] /\ req[j] \in Request
          BY <1>1, <2>5, <3>2 DEF AccountsInv
        <4>2. CarriesItsOwn(req[j])'
          <5>1. CarriesItsOwn(req[j]) /\ req[j].of \in Names \cup {NoName}
            BY <4>1 DEF RequestIsRight, Request
          <5>2. req[j].of # NoName => account'[req[j].of].owner = req[j].user
            BY <2>3, <5>1 DEF CarriesItsOwn
          <5> QED
            BY <1>1, <4>1, <5>1, <5>2 DEF CarriesItsOwn
        <4>3. /\ KeepsOrder(req[j])' /\ FindsNoId(req[j])'
              /\ (req[j].pc \in Early => rows[j] = Accounts!NoRow)'
          BY <1>1, <4>1 DEF RequestIsRight, KeepsOrder, FindsNoId
        <4>4. CASE req[j].user # u /\ req[j].of # NoName
          <5>1. account'[req[j].of] = account[req[j].of]
            BY <2>4, <4>1, <4>4 DEF RequestIsRight, CarriesItsOwn, Request
          <5>2. HasToken(req[j])' /\ HasTheRow(req[j])'
            BY <1>1, <4>1, <5>1 DEF RequestIsRight, HasToken, HasTheRow, Works
          <5> QED
            BY <4>1, <4>2, <4>3, <5>2 DEF RequestIsRight
        <4>5. CASE req[j].of = NoName
          <5>1. HasToken(req[j])' /\ HasTheRow(req[j])'
            BY <4>1, <4>5 DEF RequestIsRight, HasToken, HasTheRow, KeepsOrder
          <5> QED
            BY <4>1, <4>2, <4>3, <5>1 DEF RequestIsRight
        <4>6. CASE req[j].user = u /\ req[j].of # NoName
          <5>1. HasToken(req[j])'
            <6> SUFFICES ASSUME req[j].pc \in {"select", "update", "insert"}, req[j].kind # "profile",
                                req[j].user \notin crossed
                         PROVE  FALSE
              BY <1>1, <4>1 DEF HasToken
            <6>1. Accounts!Provisioning(req[j])
              BY <4>1 DEF RequestIsRight, KeepsOrder, Request, Accounts!Kinds, Accounts!Provisioning
            <6> QED
              BY <1>1, <2>1, <3>2, <4>6, <6>1 DEF AccountsInv, CrossingsAreKnown
          <5>2. HasTheRow(req[j])'
            <6>1. req[j].token # 0 /\ req[j].of \in Names /\ req[j].device \in Accounts!Devices
              BY <4>1, <4>6 DEF RequestIsRight, CarriesItsOwn, Request
            <6>2. \/ account'[req[j].of].token[req[j].device] = account[req[j].of].token[req[j].device]
                  \/ account'[req[j].of].token[req[j].device] = 0
              BY <2>3, <6>1
            <6> QED
              BY <1>1, <4>1, <6>1, <6>2 DEF RequestIsRight, HasTheRow
          <5> QED
            BY <4>1, <4>2, <4>3, <5>1, <5>2 DEF RequestIsRight
        <4> QED
          BY <4>4, <4>5, <4>6
      <3> QED
        BY <3>1, <3>2
    <2>8. AccountTypes'
      BY <1>1, <2>3, <2>5 DEF AccountsInv, AccountTypes
    <2>9. CrossingsAreKnown'
      BY <1>1, <2>5 DEF AccountsInv, CrossingsAreKnown, Accounts!Provisioning
    <2> QED
      BY <2>6, <2>7, <2>8, <2>9 DEF AccountsInv
  <1> QED
    BY <1>2, <1>3 DEF Accounts!DeleteDevice

(* To know of more crossings and of more ids sent asks less of a row and of a request. *)
LEMMA MoreCrossed ==
  ASSUME UNCHANGED <<rows, account, faults>>, crossed \subseteq crossed', claimed \subseteq claimed'
  PROVE  /\ \A i \in Runs : RowIsRight(i) => RowIsRight(i)'
         /\ \A i \in Runs : req'[i] = req[i] /\ RequestIsRight(i, req[i]) => RequestIsRight(i, req[i])'
  <1>1. ASSUME NEW i \in Runs, RowIsRight(i)
        PROVE  RowIsRight(i)'
    BY <1>1 DEF RowIsRight, Works
  <1>2. ASSUME NEW i \in Runs, req'[i] = req[i], RequestIsRight(i, req[i])
        PROVE  RequestIsRight(i, req[i])'
    BY <1>2 DEF RequestIsRight, CarriesItsOwn, KeepsOrder, FindsNoId, HasTheRow, HasToken, Works
  <1> QED
    BY <1>1, <1>2

LEMMA BeginStep ==
  ASSUME AccountsInv, NEW i \in Runs, NEW u \in Tabs, Accounts!Begin(i, u)
  PROVE  AccountsInv'
  <1>1. /\ req[i].pc = "idle" /\ rows[i] = Accounts!NoRow /\ req \in [Runs -> Request]
        /\ username \in [Tabs -> Names]
        /\ UNCHANGED <<username, rows, account, minted, faults>>
    BY DEF AccountsInv, AccountTypes, Accounts!Begin
  <1>2. PICK kind \in Accounts!Kinds, d \in Accounts!Devices, m \in Names \cup {NoName} :
          /\ IF m = NoName THEN UNCHANGED claimed ELSE kind = "profile" /\ claimed' = claimed \cup {u}
          /\ req' = [req EXCEPT ![i] = [Accounts!Idle EXCEPT !.pc = IF kind = "profile" THEN "select" ELSE "read",
                                                             !.kind = kind, !.user = u,
                                                             !.name = username[u], !.mxid = m, !.device = d]]
    BY DEF Accounts!Begin
  <1>3. PICK q : q = [Accounts!Idle EXCEPT !.pc = IF kind = "profile" THEN "select" ELSE "read",
                                           !.kind = kind, !.user = u,
                                           !.name = username[u], !.mxid = m, !.device = d]
    OBVIOUS
  <1>4. /\ q \in Request /\ q.kind = kind /\ q.user = u /\ q.name = username[u]
        /\ q.mxid = m /\ q.of = NoName /\ q.token = 0
        /\ IF kind = "profile" THEN q.pc = "select" ELSE q.pc = "read"
    <2>1. Accounts!Idle \in Request
      BY IdleRequest DEF RequestIsRight
    <2>2. Accounts!Idle.of = NoName /\ Accounts!Idle.token = 0
      BY DEF Accounts!Idle
    <2> QED
      BY <1>1, <1>3, <2>1, <2>2 DEF Request, Accounts!Steps
  <1>5. req' \in [Runs -> Request] /\ req'[i] = q /\ \A j \in Runs : j # i => req'[j] = req[j]
    BY <1>1, <1>2, <1>3, <1>4
  <1>6. /\ crossed \subseteq crossed'
        /\ \A j \in Runs : /\ j # i /\ req[j].pc # "idle" /\ req[j].user = u
                           /\ Accounts!Provisioning(req[j]) \/ Accounts!Provisioning(q)
                           => u \in crossed'
    <2>1. PICK others : others = {req[j] : j \in {k \in Runs \ {i} : req[k].pc # "idle" /\ req[k].user = u}}
      OBVIOUS
    <2>2. crossed' = IF \/ \E r \in others : Accounts!Provisioning(r)
                        \/ Accounts!Provisioning(q) /\ others # {}
                     THEN crossed \cup {u} ELSE crossed
      BY <1>5, <2>1 DEF Accounts!Begin
    <2>3. \A j \in Runs : j # i /\ req[j].pc # "idle" /\ req[j].user = u => req[j] \in others
      BY <2>1
    <2> QED
      BY <2>2, <2>3
  <1>12. claimed \subseteq claimed' /\ (u \notin claimed' => m = NoName)
    BY <1>2
  <1>7. RequestIsRight(i, q)'
    BY <1>1, <1>4, <1>12
    DEF RequestIsRight, CarriesItsOwn, KeepsOrder, Early, FindsNoId, HasTheRow, HasToken
  <1>8. AccountTypes'
    BY <1>1, <1>5 DEF AccountsInv, AccountTypes
  <1>9. \A j \in Runs : RowIsRight(j)'
    BY <1>1, <1>6, <1>12, MoreCrossed DEF AccountsInv
  <1>10. \A j \in Runs : RequestIsRight(j, req[j])'
    <2>1. ASSUME NEW j \in Runs, j # i
          PROVE  RequestIsRight(j, req[j])'
      BY <1>1, <1>5, <1>6, <1>12, <2>1, MoreCrossed DEF AccountsInv
    <2>2. RequestIsRight(i, req[i])'
      BY <1>5, <1>7
    <2> QED
      BY <2>1, <2>2
  <1>11. CrossingsAreKnown'
    <2> SUFFICES ASSUME NEW j \in Runs, NEW k \in Runs, j # k,
                        Accounts!Provisioning(req'[j]), req'[k].pc # "idle", req'[k].user = req'[j].user
                 PROVE  req'[j].user \in crossed'
      BY DEF CrossingsAreKnown, Accounts!Provisioning
    <2>1. CASE j # i /\ k # i
      BY <1>5, <1>6, <2>1 DEF AccountsInv, CrossingsAreKnown
    <2>2. CASE j = i
      BY <1>4, <1>5, <1>6, <2>2
    <2>3. CASE k = i /\ j # i
      BY <1>4, <1>5, <1>6, <2>3 DEF Accounts!Provisioning
    <2> QED
      BY <2>1, <2>2, <2>3
  <1> QED
    BY <1>8, <1>9, <1>10, <1>11 DEF AccountsInv

LEMMA RenameStep ==
  ASSUME AccountsInv, NEW u \in Tabs, NEW name \in Names, Accounts!RenameUser(u, name)
  PROVE  AccountsInv'
  <1>1. /\ username' = [username EXCEPT ![u] = name] /\ crossed \subseteq crossed'
        /\ UNCHANGED <<rows, account, minted, req, faults, claimed>>
    BY DEF Accounts!RenameUser
  <1>2. AccountTypes'
    BY <1>1 DEF AccountsInv, AccountTypes
  <1>3. \A j \in Runs : RowIsRight(j)' /\ RequestIsRight(j, req[j])'
    BY <1>1, MoreCrossed DEF AccountsInv
  <1>4. CrossingsAreKnown'
    BY <1>1 DEF AccountsInv, CrossingsAreKnown, Accounts!Provisioning
  <1> QED
    BY <1>2, <1>3, <1>4 DEF AccountsInv

LEMMA AccountsStep ==
  ASSUME AccountsInv, Accounts!Next
  PROVE  AccountsInv'
  <1>1. ASSUME NEW i \in Runs, Accounts!Step(i)
        PROVE  AccountsInv'
    BY <1>1, ReadStep, RegisterStep, SelectStep, UpdateStep, InsertStep, ClientSessionStep,
       WhoamiStep, DeleteDeviceStep DEF Accounts!Step
  <1>2. ASSUME NEW i \in Runs, NEW u \in Tabs, Accounts!Begin(i, u)
        PROVE  AccountsInv'
    BY <1>2, BeginStep
  <1>3. ASSUME NEW u \in Tabs, NEW name \in Names, Accounts!RenameUser(u, name)
        PROVE  AccountsInv'
    BY <1>3, RenameStep
  <1> QED
    BY <1>1, <1>2, <1>3 DEF Accounts!Next

(* The other parts count their faults in the same variable, and have no account. *)
AccountsPart ==
  IF part = "accounts" THEN AccountsInv
  ELSE \A i \in Runs : /\ rows[i].mxid = NoName /\ rows[i].token = 0
                       /\ req[i].mxid = NoName /\ req[i].token = 0

(* AccountsPart is an invariant of the web client: in the states of the Matrix accounts
   the inductive invariant holds, and in the other parts nothing is stored. *)
THEOREM AccountsPartHolds == WebSpec => []AccountsPart
  <1>1. WebInit => AccountsPart
    <2> SUFFICES ASSUME WebInit
                 PROVE  AccountsPart
      OBVIOUS
    <2>1. AccountsInv
      BY AccountsBegin
    <2>2. \A i \in Runs : rows[i] = Accounts!NoRow /\ req[i] = Accounts!Idle
      BY DEF WebInit, Accounts!Init
    <2> QED
      BY <2>1, <2>2 DEF AccountsPart, Accounts!NoRow, Accounts!Idle
  <1>2. AccountsPart /\ [WebNext]_webVars => AccountsPart'
    <2> SUFFICES ASSUME AccountsPart, [WebNext]_webVars
                 PROVE  AccountsPart'
      OBVIOUS
    <2>1. CASE part = "accounts" /\ Accounts!Next /\ UNCHANGED part
      BY <2>1, AccountsStep DEF AccountsPart
    <2>2. CASE part # "accounts" /\ UNCHANGED <<part, accountVars>>
      BY <2>2 DEF AccountsPart, accountVars
    <2>3. CASE UNCHANGED webVars
      BY <2>3 DEF AccountsPart, AccountsInv, AccountTypes, RowIsRight, Works, RequestIsRight,
         CarriesItsOwn, KeepsOrder, FindsNoId, HasTheRow, HasToken, CrossingsAreKnown,
         Accounts!Provisioning, webVars, accountVars
    <2> QED
      BY <2>1, <2>2, <2>3 DEF WebNext
  <1> QED
    BY <1>1, <1>2, PTL DEF WebSpec

(* Whatever the order of first requests, renames and lost answers, and whatever ids     *)
(* others send to profile.update, a token that is stored for a user, or that a request    *)
(* of theirs holds, is of an account that user made, and so is the id beside it unless     *)
(* they sent one themselves (matrixProvisioning.ts: the password is derived from the      *)
(* user's id, not from a name or a Matrix id).                                     *)
THEOREM OwnAccountHolds == WebSpec => []OwnAccount
  <1>1. AccountsPart => OwnAccount
    BY DEF AccountsPart, AccountsInv, RowIsRight, RequestIsRight, CarriesItsOwn, OwnAccount,
       Accounts!OwnAccount, Accounts!IsOwn
  <1> QED
    BY <1>1, AccountsPartHolds, PTL

(* The token stored for a user is one of the instance's own logins that still holds,   *)
(* whatever clients logged in, whatever devices were signed out and whatever ids were      *)
(* sent since, and of the account of the stored id unless the user sent another, unless    *)
(* the user's requests crossed or an answer was lost (deleteDevice, registerOrLogin).   *)
THEOREM StoredTokenWorksHolds == WebSpec => []StoredTokenWorks
  <1>1. AccountsPart => StoredTokenWorks
    BY DEF AccountsPart, AccountsInv, RowIsRight, Works, StoredTokenWorks,
       Accounts!StoredTokenWorks, Accounts!Devices
  <1> QED
    BY <1>1, AccountsPartHolds, PTL

(* What a profile.update of the row's user may have done to its id. *)
Sent(i, m) ==
  \E k \in Runs : req[k].kind = "profile" /\ req[k].user = rows[i].user /\ req[k].mxid = m

(* Only a request that saves changes a row, and none its token. *)
LEMMA KeepsTheRow ==
  ASSUME AccountsInv, Accounts!Next,
         NEW i \in Runs, rows[i].token # 0, rows[i].user \notin crossed'
  PROVE  rows'[i].token = rows[i].token /\ (rows'[i].mxid # rows[i].mxid => Sent(i, rows'[i].mxid))
  <1>1. ASSUME NEW k \in Runs, Accounts!Update(k)
        PROVE  rows'[i].token = rows[i].token /\ (rows'[i].mxid # rows[i].mxid => Sent(i, rows'[i].mxid))
    <2>1. CASE UNCHANGED rows
      BY <2>1
    <2>2. CASE rows' = [j \in Runs |-> IF j \in Accounts!RowsOf(req[k].user)
                                        THEN Accounts!Saves(k, rows[j]) ELSE rows[j]]
      <3>1. CASE rows[i].user # req[k].user
        BY <2>2, <3>1 DEF Accounts!RowsOf
      <3>2. CASE rows[i].user = req[k].user
        <4>1. /\ RequestIsRight(k, req[k]) /\ req[k].pc = "update" /\ req[k].user \notin crossed
              /\ RowIsRight(i) /\ rows[i] \in Accounts!Row
          BY <1>1, <3>2 DEF AccountsInv, AccountTypes, Accounts!Update
        <4>2. req[k].kind = "profile"
          BY <3>2, <4>1 DEF RequestIsRight, FindsNoId, RowIsRight
        <4>3. rows'[i] = IF req[k].mxid # NoName THEN [rows[i] EXCEPT !.mxid = req[k].mxid] ELSE rows[i]
          BY <2>2, <3>2, <4>2 DEF Accounts!RowsOf, Accounts!Saves
        <4> QED
          BY <3>2, <4>1, <4>2, <4>3 DEF Sent, Accounts!Row
      <3> QED
        BY <3>1, <3>2
    <2> QED
      BY <1>1, <2>1, <2>2 DEF Accounts!Update
  <1>2. ASSUME NEW k \in Runs, Accounts!Insert(k)
        PROVE  rows'[i] = rows[i]
    <2>1. rows[k] = Accounts!NoRow /\ rows \in [Runs -> Accounts!Row]
      BY <1>2 DEF AccountsInv, AccountTypes, RequestIsRight, Early, Accounts!Insert
    <2>2. k # i
      BY <2>1 DEF Accounts!NoRow
    <2> QED
      BY <1>2, <2>1, <2>2 DEF Accounts!Insert
  <1>3. CASE UNCHANGED rows
    BY <1>3
  <1> QED
    BY <1>1, <1>2, <1>3 DEF Accounts!Next, Accounts!Step, Accounts!Read, Accounts!Register,
       Accounts!Login, Accounts!Select, Accounts!ClientSession, Accounts!Whoami,
       Accounts!DeleteDevice, Accounts!Begin, Accounts!RenameUser

(* The credentials a user is stored with are never replaced, whatever the user is called  *)
(* by now and whatever others send, unless the user's requests crossed: the token by       *)
(* nothing, the id only by the user's own profile.update (saveMatrixCredentials updates     *)
(* every row of the user).                                                        *)
THEOREM IdentityKeptHolds == WebSpec => IdentityKept
  <1>1. AccountsPart /\ [WebNext]_webVars =>
          [\A i \in Runs :
             Accounts!Credentials(rows[i]) /\ rows[i].user \notin crossed' =>
               /\ rows'[i].token = rows[i].token
               /\ rows'[i].mxid # rows[i].mxid =>
                    \E j \in Runs : /\ req[j].kind = "profile" /\ req[j].user = rows[i].user
                                    /\ req[j].mxid = rows'[i].mxid]_(Accounts!vars)
    <2> SUFFICES ASSUME AccountsPart, [WebNext]_webVars, NEW i \in Runs,
                        Accounts!Credentials(rows[i]), rows[i].user \notin crossed'
                 PROVE  rows'[i].token = rows[i].token
                        /\ (rows'[i].mxid # rows[i].mxid => Sent(i, rows'[i].mxid))
      BY DEF Sent
    <2>1. CASE part = "accounts" /\ Accounts!Next
      BY <2>1, KeepsTheRow DEF AccountsPart, Accounts!Credentials
    <2>2. CASE UNCHANGED rows
      BY <2>2
    <2> QED
      BY <2>1, <2>2 DEF WebNext, webVars, accountVars
  <1> QED
    BY <1>1, AccountsPartHolds, PTL DEF WebSpec, IdentityKept, Accounts!IdentityKept

-------------------------------------------------------------------------------
(* EncryptionSetup *)

EncryptionTypes ==
  /\ crossSigning \in [identity : Encryption!Numbers, backup : Encryption!Numbers,
                       storage : Encryption!Storage]
  /\ device \in [Tabs -> Encryption!Device]
  /\ shown \subseteq Encryption!Numbers /\ setups \in Encryption!Numbers
  /\ overlap \in BOOLEAN /\ cut \in BOOLEAN

storage == crossSigning.storage
ShownOpens == Encryption!Complete(storage) /\ crossSigning.backup # 0
Held(q) == q.identity # 0 /\ q.identity = crossSigning.identity

(* What a device holds and what its call has done by its step: a device that is not    *)
(* signed by the identity it holds is one whose set-up failed, before any recovery key.  *)
DeviceIsRight(q) ==
  /\ q.identity <= crossSigning.identity
  /\ Held(q) /\ q.signed # crossSigning.identity => storage.key = 0 /\ q.pc = "idle"
  /\ q.restored = TRUE \/ q.pc \in {"query", "import", "load", "restore"} => storage.key \in shown
  /\ q.restored = TRUE \/ q.pc = "restore" => q.active # 0
  /\ q.pc \in {"storage", "export"} => Held(q)
  /\ q.made # 0 => q.pc \in {"export", "backup", "enable"}
  /\ q.made # 0 /\ q.pc = "export" =>
       storage.key = q.made /\ q.made \in q.keys /\ storage.identity = 0
  /\ q.made # 0 /\ q.pc = "backup" =>
       storage.key # 0 /\ storage.identity # 0 /\ storage.identity = crossSigning.identity
  /\ q.made # 0 /\ q.pc = "enable" => ShownOpens

OneCalls == \A d, e \in Tabs : device[d].pc # "idle" /\ device[e].pc # "idle" => d = e
OneHolds == \A d, e \in Tabs : Held(device[d]) /\ Held(device[e]) => d = e

KeyIsGood ==
  /\ storage.key \in shown => ShownOpens
  /\ shown # {} => storage.key # 0
  /\ storage.identity # 0 => storage.key # 0
  /\ storage.key = 0 => OneHolds

(* While calls do not overlap and no backup lost its key: a recovery key is shown once  *)
(* it opens everything.                                                           *)
EncryptionInv ==
  /\ EncryptionTypes
  /\ ~overlap /\ ~cut => OneCalls /\ KeyIsGood /\ \A d \in Tabs : DeviceIsRight(device[d])

LEMMA EncryptionNumbers == MaxSetups \in Nat /\ Encryption!Numbers = 0 .. MaxSetups
  BY PartsAssumption DEF Encryption!EncryptionSetupAssumption, Encryption!Numbers

LEMMA EncryptionBegins == WebInit => EncryptionInv
  <1> SUFFICES ASSUME WebInit
               PROVE  EncryptionInv
    OBVIOUS
  <1>1. Encryption!Init
    BY DEF WebInit
  <1>2. EncryptionTypes
    <2>1. 0 \in Encryption!Numbers
      BY EncryptionNumbers
    <2>2. crossSigning \in [identity : Encryption!Numbers, backup : Encryption!Numbers,
                            storage : Encryption!Storage]
      BY <1>1, <2>1 DEF Encryption!Init, Encryption!Storage
    <2>3. device \in [Tabs -> Encryption!Device]
      BY <1>1, <2>1 DEF Encryption!Init, Encryption!Device, Encryption!Steps
    <2> QED
      BY <1>1, <2>1, <2>2, <2>3 DEF Encryption!Init, EncryptionTypes
  <1>3. OneCalls /\ KeyIsGood
    BY <1>1 DEF Encryption!Init, OneCalls, KeyIsGood, OneHolds, Held, storage
  <1>4. \A d \in Tabs : DeviceIsRight(device[d])
    BY <1>1 DEF Encryption!Init, DeviceIsRight, Held
  <1> QED
    BY <1>2, <1>3, <1>4 DEF EncryptionInv

(* What is known while nothing overlapped. *)
LEMMA CalmState ==
  ASSUME EncryptionInv, ~overlap, ~cut, NEW d \in Tabs
  PROVE  /\ OneCalls /\ KeyIsGood /\ DeviceIsRight(device[d]) /\ device[d] \in Encryption!Device
         /\ device[d].pc # "idle" => \A e \in Tabs \ {d} : device[e].pc = "idle"
  BY DEF EncryptionInv, EncryptionTypes, OneCalls

(* A device goes on, and the account is as it was. *)
LEMMA DeviceMoves ==
  ASSUME EncryptionInv, NEW d \in Tabs, NEW q \in Encryption!Device,
         device' = [device EXCEPT ![d] = q],
         UNCHANGED <<crossSigning, shown, cut>>, setups' \in Encryption!Numbers,
         overlap' \in BOOLEAN, ~overlap' => ~overlap,
         ~overlap' /\ ~cut => /\ q.pc # "idle" => \A e \in Tabs \ {d} : device[e].pc = "idle"
                              /\ q.identity = device[d].identity \/ storage.key # 0
                              /\ DeviceIsRight(q)
  PROVE  EncryptionInv'
  <1>1. /\ device' \in [Tabs -> Encryption!Device] /\ device'[d] = q
        /\ \A e \in Tabs \ {d} : device'[e] = device[e]
    BY DEF EncryptionInv, EncryptionTypes
  <1>2. EncryptionTypes'
    BY <1>1 DEF EncryptionInv, EncryptionTypes
  <1>3. CASE ~overlap' /\ ~cut'
    <2>1. /\ OneCalls /\ KeyIsGood /\ \A e \in Tabs : DeviceIsRight(device[e])
      BY <1>3 DEF EncryptionInv
    <2>2. OneCalls'
      BY <1>1, <1>3, <2>1 DEF OneCalls
    <2>3. (\A e \in Tabs : DeviceIsRight(device[e]))'
      <3>1. ASSUME NEW e \in Tabs
            PROVE  DeviceIsRight(device'[e])
        BY <1>1, <1>3, <2>1, <3>1
      <3> QED
        BY <3>1 DEF DeviceIsRight, Held, storage, ShownOpens, Encryption!Complete
    <2>4. KeyIsGood'
      <3>1. storage.key = 0 => \A e, f \in Tabs : Held(device'[e]) /\ Held(device'[f]) => e = f
        BY <1>1, <1>3, <2>1 DEF KeyIsGood, OneHolds, Held
      <3> QED
        BY <2>1, <3>1 DEF KeyIsGood, OneHolds, Held, storage, ShownOpens, Encryption!Complete
    <2> QED
      BY <1>2, <2>2, <2>3, <2>4 DEF EncryptionInv
  <1>4. CASE overlap' \/ cut'
    BY <1>2, <1>4 DEF EncryptionInv
  <1> QED
    BY <1>3, <1>4

(* A call that is over. *)
LEMMA EndedRecord ==
  ASSUME NEW r \in Encryption!Device, NEW q, q = [r EXCEPT !.pc = "idle", !.made = 0]
  PROVE  /\ q \in Encryption!Device /\ q.pc = "idle" /\ q.made = 0 /\ q.identity = r.identity
         /\ q.signed = r.signed /\ q.active = r.active /\ q.restored = r.restored
  <1>1. 0 \in Encryption!Numbers
    BY EncryptionNumbers
  <1>2. PICK p : p = [r EXCEPT !.pc = "idle"]
    OBVIOUS
  <1>3. /\ p \in Encryption!Device /\ p.pc = "idle" /\ p.identity = r.identity
        /\ p.signed = r.signed /\ p.active = r.active /\ p.restored = r.restored
    BY <1>2 DEF Encryption!Device, Encryption!Steps
  <1>4. q = [p EXCEPT !.made = 0]
    BY <1>2
  <1> QED
    BY <1>1, <1>3, <1>4 DEF Encryption!Device

LEMMA EndedIsRight ==
  ASSUME NEW r \in Encryption!Device, DeviceIsRight(r),
         NEW q, q = [r EXCEPT !.pc = "idle", !.made = 0]
  PROVE  DeviceIsRight(q)
  BY EndedRecord DEF DeviceIsRight, Held

LEMMA CallEnds ==
  ASSUME EncryptionInv, NEW d \in Tabs, Encryption!End(d),
         UNCHANGED <<crossSigning, shown, setups, overlap, cut>>
  PROVE  EncryptionInv'
  <1>1. device[d] \in Encryption!Device /\ setups \in Encryption!Numbers /\ overlap \in BOOLEAN
    BY DEF EncryptionInv, EncryptionTypes
  <1>2. PICK q : q = [device[d] EXCEPT !.pc = "idle", !.made = 0]
    OBVIOUS
  <1>3. /\ device' = [device EXCEPT ![d] = q]
        /\ q \in Encryption!Device /\ q.pc = "idle" /\ q.identity = device[d].identity
    BY <1>1, <1>2, EndedRecord DEF Encryption!End, Encryption!Update
  <1>4. ~overlap /\ ~cut => DeviceIsRight(q)
    BY <1>1, <1>2, CalmState, EndedIsRight
  <1> QED
    BY <1>1, <1>3, <1>4, DeviceMoves

(* The same device at another step of its call. *)
LEMMA AtAnotherStep ==
  ASSUME NEW r \in Encryption!Device, NEW pc \in Encryption!Steps, NEW q, q = [r EXCEPT !.pc = pc]
  PROVE  /\ q \in Encryption!Device /\ q.pc = pc /\ q.made = r.made /\ q.identity = r.identity
         /\ q.signed = r.signed /\ q.active = r.active /\ q.restored = r.restored /\ q.keys = r.keys
  BY DEF Encryption!Device

LEMMA CallGoesOn ==
  ASSUME EncryptionInv, NEW d \in Tabs, NEW pc \in Encryption!Steps, Encryption!Goto(d, pc),
         device[d].pc # "idle", UNCHANGED <<crossSigning, shown, setups, overlap, cut>>,
         NEW q, q = [device[d] EXCEPT !.pc = pc],
         ~overlap /\ ~cut => DeviceIsRight(q)
  PROVE  EncryptionInv'
  <1>1. device[d] \in Encryption!Device /\ setups \in Encryption!Numbers /\ overlap \in BOOLEAN
    BY DEF EncryptionInv, EncryptionTypes
  <1>2. device' = [device EXCEPT ![d] = q] /\ q \in Encryption!Device /\ q.identity = device[d].identity
    BY <1>1, AtAnotherStep DEF Encryption!Goto, Encryption!Update
  <1>3. ~overlap /\ ~cut => \A e \in Tabs \ {d} : device[e].pc = "idle"
    BY CalmState
  <1> QED
    BY <1>1, <1>2, <1>3, DeviceMoves

LEMMA PressSetUpStep ==
  ASSUME EncryptionInv, NEW d \in Tabs, Encryption!PressSetUp(d)
  PROVE  EncryptionInv'
  <1>1. /\ device[d] \in Encryption!Device /\ setups \in Encryption!Numbers /\ overlap \in BOOLEAN
        /\ device[d].pc = "idle" /\ UNCHANGED <<crossSigning, shown, cut>>
        /\ setups < MaxSetups /\ setups' = setups + 1
    BY DEF EncryptionInv, EncryptionTypes, Encryption!PressSetUp, Encryption!Begins
  <1>2. setups' \in Encryption!Numbers
    BY <1>1, EncryptionNumbers
  <1>3. /\ overlap' \in BOOLEAN /\ (~overlap' => ~overlap)
        /\ ~overlap' => \A e \in Tabs : device[e].pc = "idle"
    BY <1>1 DEF Encryption!PressSetUp, Encryption!Begins
  <1>4. ~Held(device[d])
    BY DEF Encryption!PressSetUp, Encryption!Verdict, Encryption!crossSigningReady, Encryption!Holds, Held
  <1>5. PICK q : q = [device[d] EXCEPT !.pc = "cross"]
    OBVIOUS
  <1>6. /\ q \in Encryption!Device /\ q.pc = "cross" /\ q.made = device[d].made
        /\ q.identity = device[d].identity /\ q.signed = device[d].signed
        /\ q.active = device[d].active /\ q.restored = device[d].restored
    BY <1>1, <1>5, AtAnotherStep DEF Encryption!Steps
  <1>7. device' = [device EXCEPT ![d] = q]
    BY <1>5 DEF Encryption!PressSetUp, Encryption!Goto, Encryption!Update
  <1>8. ~overlap /\ ~cut => DeviceIsRight(q)
    <2> SUFFICES ASSUME ~overlap, ~cut
                 PROVE  DeviceIsRight(q)
      OBVIOUS
    <2>1. DeviceIsRight(device[d])
      BY CalmState
    <2> QED
      BY <1>1, <1>4, <1>6, <2>1 DEF DeviceIsRight, Held
  <1> QED
    BY <1>1, <1>2, <1>3, <1>6, <1>7, <1>8, DeviceMoves

LEMMA PressRecoverStep ==
  ASSUME EncryptionInv, NEW d \in Tabs, Encryption!PressRecover(d)
  PROVE  EncryptionInv'
  <1>1. /\ device[d] \in Encryption!Device /\ setups \in Encryption!Numbers /\ overlap \in BOOLEAN
        /\ device[d].pc = "idle" /\ UNCHANGED <<crossSigning, shown, setups, cut>>
        /\ shown \subseteq Encryption!Numbers
    BY DEF EncryptionInv, EncryptionTypes, Encryption!PressRecover, Encryption!Begins
  <1>2. PICK key \in shown :
          /\ key = storage.key
          /\ device' = [device EXCEPT ![d] = [device[d] EXCEPT !.pc = "query", !.keys = @ \cup {key}]]
    BY DEF Encryption!PressRecover, Encryption!Update, storage
  <1>3. /\ overlap' \in BOOLEAN /\ (~overlap' => ~overlap)
        /\ ~overlap' => \A e \in Tabs : device[e].pc = "idle"
    BY <1>1 DEF Encryption!PressRecover, Encryption!Begins
  <1>4. PICK q : q = [device[d] EXCEPT !.pc = "query", !.keys = @ \cup {key}]
    OBVIOUS
  <1>5. /\ q \in Encryption!Device /\ q.pc = "query" /\ q.made = device[d].made
        /\ q.identity = device[d].identity /\ q.signed = device[d].signed
        /\ q.active = device[d].active /\ q.restored = device[d].restored
    BY <1>1, <1>2, <1>4 DEF Encryption!Device, Encryption!Steps
  <1>6. device' = [device EXCEPT ![d] = q]
    BY <1>2, <1>4
  <1>7. ~overlap /\ ~cut => DeviceIsRight(q)
    <2> SUFFICES ASSUME ~overlap, ~cut
                 PROVE  DeviceIsRight(q)
      OBVIOUS
    <2>1. DeviceIsRight(device[d]) /\ storage.key # 0
      BY CalmState DEF KeyIsGood
    <2> QED
      BY <1>1, <1>2, <1>5, <2>1 DEF DeviceIsRight, Held
  <1> QED
    BY <1>1, <1>3, <1>5, <1>6, <1>7, DeviceMoves

(* A new identity is nobody's but the device's that made it: there was no storage with *)
(* the former one, so no recovery key was shown.                                   *)
LEMMA NewIdentityStep ==
  ASSUME EncryptionInv, NEW d \in Tabs, NEW q \in Encryption!Device,
         device' = [device EXCEPT ![d] = q], device[d].pc # "idle",
         storage.identity = 0, crossSigning.identity + 1 \in Encryption!Numbers,
         crossSigning'.identity = crossSigning.identity + 1, crossSigning'.backup = crossSigning.backup,
         crossSigning'.storage \in Encryption!Storage,
         crossSigning'.storage.key = storage.key, crossSigning'.storage.identity # 0 => storage.key # 0,
         crossSigning' \in [identity : Encryption!Numbers, backup : Encryption!Numbers,
                            storage : Encryption!Storage],
         UNCHANGED <<shown, setups, overlap, cut>>,
         q.identity = crossSigning.identity + 1, q.restored = device[d].restored, q.made = 0,
         \/ q.pc = "idle" /\ storage.key = 0
         \/ q.pc \in {"storage", "load"} /\ q.signed = q.identity,
         q.pc = "load" => device[d].pc = "import"
  PROVE  EncryptionInv'
  <1>1. /\ device' \in [Tabs -> Encryption!Device] /\ device'[d] = q
        /\ \A e \in Tabs \ {d} : device'[e] = device[e]
    BY DEF EncryptionInv, EncryptionTypes
  <1>2. EncryptionTypes'
    BY <1>1 DEF EncryptionInv, EncryptionTypes
  <1>3. CASE ~overlap /\ ~cut
    <2>1. /\ OneCalls /\ KeyIsGood /\ \A e \in Tabs : DeviceIsRight(device[e])
          /\ \A e \in Tabs \ {d} : device[e].pc = "idle"
      BY <1>3, CalmState
    <2>2. storage.key \notin shown /\ q.pc # "load" /\ q.restored # TRUE
      BY <2>1 DEF KeyIsGood, ShownOpens, Encryption!Complete, DeviceIsRight
    <2>3. /\ crossSigning.identity \in Nat
          /\ \A e \in Tabs : device[e].identity \in Nat /\ device[e].identity <= crossSigning.identity
      BY <2>1, EncryptionNumbers DEF EncryptionInv, EncryptionTypes, Encryption!Device, DeviceIsRight
    <2>4. \A e \in Tabs \ {d} : device[e].identity # crossSigning'.identity
      BY <2>3
    <2>5. OneCalls'
      BY <1>1, <2>1 DEF OneCalls
    <2>6. OneHolds'
      BY <1>1, <2>4 DEF OneHolds, Held
    <2>7. KeyIsGood'
      BY <2>1, <2>2, <2>6 DEF KeyIsGood, storage
    <2>8. ASSUME NEW e \in Tabs
          PROVE  DeviceIsRight(device[e])'
      <3>1. CASE e = d
        <4>1. device'[e] = q /\ q.identity <= crossSigning'.identity /\ Held(q)'
          BY <1>1, <2>3, <3>1 DEF Held
        <4> QED
          BY <2>2, <4>1 DEF DeviceIsRight, storage
      <3>2. CASE e # d
        <4>1. device'[e] = device[e] /\ device[e].pc = "idle" /\ DeviceIsRight(device[e])
          BY <1>1, <2>1, <3>2
        <4>2. device[e].restored # TRUE /\ device[e].made = 0
          BY <2>2, <4>1 DEF DeviceIsRight
        <4>3. device[e].identity <= crossSigning'.identity /\ ~Held(device[e])'
          BY <2>3, <2>4, <3>2, <4>1 DEF Held
        <4> QED
          BY <4>1, <4>2, <4>3 DEF DeviceIsRight
      <3> QED
        BY <3>1, <3>2
    <2> QED
      BY <1>2, <2>5, <2>7, <2>8 DEF EncryptionInv
  <1>4. CASE overlap \/ cut
    BY <1>2, <1>4 DEF EncryptionInv
  <1> QED
    BY <1>3, <1>4

LEMMA CrossStep ==
  ASSUME EncryptionInv, NEW d \in Tabs, NEW next \in {"storage", "load"},
         device[d].pc \in {"cross", "import"}, next = "load" => device[d].pc = "import",
         Encryption!Cross(d, next), UNCHANGED <<shown, setups, overlap, cut>>
  PROVE  EncryptionInv'
  <1>1. /\ device[d] \in Encryption!Device /\ setups \in Encryption!Numbers /\ overlap \in BOOLEAN
        /\ crossSigning \in [identity : Encryption!Numbers, backup : Encryption!Numbers,
                             storage : Encryption!Storage]
        /\ next \in Encryption!Steps
    BY DEF EncryptionInv, EncryptionTypes, Encryption!Steps
  <1>2. CASE Encryption!End(d) /\ UNCHANGED crossSigning
    BY <1>2, CallEnds
  <1>3. CASE Encryption!Holds(d) /\ Encryption!Goto(d, next) /\ UNCHANGED crossSigning
    <2>1. PICK q : q = [device[d] EXCEPT !.pc = next]
      OBVIOUS
    <2>2. ~overlap /\ ~cut => DeviceIsRight(q)
      <3> SUFFICES ASSUME ~overlap, ~cut
                   PROVE  DeviceIsRight(q)
        OBVIOUS
      <3>1. DeviceIsRight(device[d])
        BY CalmState
      <3>2. /\ q.pc = next /\ q.made = device[d].made /\ q.identity = device[d].identity
            /\ q.signed = device[d].signed /\ q.active = device[d].active
            /\ q.restored = device[d].restored
        BY <1>1, <2>1, AtAnotherStep
      <3> QED
        BY <1>3, <3>1, <3>2 DEF DeviceIsRight, Held, Encryption!Holds
    <2> QED
      BY <1>1, <1>3, <2>1, <2>2, CallGoesOn
  <1>4. CASE /\ Encryption!CanOpen(d)
             /\ storage.identity # 0 /\ storage.identity = crossSigning.identity
             /\ UNCHANGED crossSigning
             /\ Encryption!Update(d, [device[d] EXCEPT !.pc = next, !.identity = crossSigning.identity,
                                                       !.signed = crossSigning.identity])
    <2>1. PICK q : q = [device[d] EXCEPT !.pc = next, !.identity = crossSigning.identity,
                                         !.signed = crossSigning.identity]
      OBVIOUS
    <2>2. /\ q \in Encryption!Device /\ q.pc = next /\ q.made = device[d].made
          /\ q.identity = crossSigning.identity /\ q.signed = crossSigning.identity
          /\ q.active = device[d].active /\ q.restored = device[d].restored
      BY <1>1, <2>1 DEF Encryption!Device
    <2>3. device' = [device EXCEPT ![d] = q]
      BY <1>4, <2>1 DEF Encryption!Update
    <2>4. storage.key # 0
      BY <1>4 DEF Encryption!CanOpen, storage
    <2>5. ~overlap /\ ~cut => DeviceIsRight(q) /\ \A e \in Tabs \ {d} : device[e].pc = "idle"
      <3> SUFFICES ASSUME ~overlap, ~cut
                   PROVE  DeviceIsRight(q) /\ \A e \in Tabs \ {d} : device[e].pc = "idle"
        OBVIOUS
      <3>1. DeviceIsRight(device[d]) /\ \A e \in Tabs \ {d} : device[e].pc = "idle"
        BY CalmState
      <3>2. q.identity <= crossSigning.identity /\ Held(q)
        BY <1>1, <1>4, <2>2, EncryptionNumbers DEF Held
      <3> QED
        BY <2>2, <3>1, <3>2 DEF DeviceIsRight
    <2> QED
      BY <1>1, <1>4, <2>2, <2>3, <2>4, <2>5, DeviceMoves
  <1>5. CASE /\ storage.identity = 0
             /\ 1 + crossSigning.identity \in Encryption!Numbers
             /\ crossSigning' = [crossSigning EXCEPT !.identity = 1 + crossSigning.identity,
                                   !.storage.identity = IF Encryption!CanOpen(d)
                                                        THEN 1 + crossSigning.identity ELSE 0]
             /\ Encryption!Update(d, [device[d] EXCEPT !.pc = next, !.identity = 1 + crossSigning.identity,
                                                       !.signed = 1 + crossSigning.identity])
    <2>1. PICK new : new = crossSigning.identity + 1
      OBVIOUS
    <2>2. new \in Encryption!Numbers /\ new = 1 + crossSigning.identity
      BY <1>1, <1>5, <2>1, EncryptionNumbers
    <2>3. PICK kept : kept = IF Encryption!CanOpen(d) THEN new ELSE 0
      OBVIOUS
    <2>4. kept \in Encryption!Numbers /\ (kept # 0 => storage.key # 0)
      BY <2>2, <2>3, EncryptionNumbers DEF Encryption!CanOpen, storage
    <2>5. crossSigning' = [crossSigning EXCEPT !.identity = new, !.storage.identity = kept]
      BY <1>5, <2>2, <2>3
    <2>6. /\ crossSigning'.identity = new /\ crossSigning'.backup = crossSigning.backup
          /\ crossSigning'.storage.key = storage.key /\ crossSigning'.storage.identity = kept
          /\ crossSigning'.storage \in Encryption!Storage
          /\ crossSigning' \in [identity : Encryption!Numbers, backup : Encryption!Numbers,
                                storage : Encryption!Storage]
      BY <1>1, <2>2, <2>4, <2>5 DEF Encryption!Storage, storage
    <2>7. PICK q : q = [device[d] EXCEPT !.pc = next, !.identity = new, !.signed = new]
      OBVIOUS
    <2>8. /\ q \in Encryption!Device /\ q.pc = next /\ q.made = device[d].made
          /\ q.identity = new /\ q.signed = new /\ q.restored = device[d].restored
      BY <1>1, <2>2, <2>7 DEF Encryption!Device
    <2>9. device' = [device EXCEPT ![d] = q]
      BY <1>5, <2>2, <2>7 DEF Encryption!Update
    <2>10. CASE q.made = 0
      BY <1>1, <1>5, <2>1, <2>2, <2>4, <2>6, <2>8, <2>9, <2>10, NewIdentityStep
    <2>11. CASE q.made # 0
      <3>1. overlap \/ cut
        BY <2>8, <2>11, CalmState DEF DeviceIsRight
      <3>2. EncryptionTypes'
        BY <2>6, <2>8, <2>9 DEF EncryptionInv, EncryptionTypes
      <3> QED
        BY <3>1, <3>2 DEF EncryptionInv
    <2> QED
      BY <2>10, <2>11
  <1> QED
    BY <1>2, <1>3, <1>4, <1>5 DEF Encryption!Cross, storage

LEMMA CrossSignCutStep ==
  ASSUME EncryptionInv, NEW d \in Tabs, Encryption!CrossSignCut(d)
  PROVE  EncryptionInv'
  <1>1. /\ device[d] \in Encryption!Device /\ device[d].pc = "cross"
        /\ crossSigning \in [identity : Encryption!Numbers, backup : Encryption!Numbers,
                             storage : Encryption!Storage]
        /\ storage.identity = 0 /\ storage.key = 0 /\ crossSigning.identity < MaxSetups
        /\ UNCHANGED <<shown, setups, overlap, cut>>
    BY DEF EncryptionInv, EncryptionTypes, Encryption!CrossSignCut, storage
  <1>2. PICK new : new = crossSigning.identity + 1
    OBVIOUS
  <1>3. new \in Encryption!Numbers /\ 0 \in Encryption!Numbers
    BY <1>1, <1>2, EncryptionNumbers
  <1>4. crossSigning' = [crossSigning EXCEPT !.identity = new]
    BY <1>2 DEF Encryption!CrossSignCut
  <1>5. /\ crossSigning'.identity = new /\ crossSigning'.backup = crossSigning.backup
        /\ crossSigning'.storage = storage
        /\ crossSigning' \in [identity : Encryption!Numbers, backup : Encryption!Numbers,
                              storage : Encryption!Storage]
    BY <1>1, <1>3, <1>4 DEF storage
  <1>6. storage \in Encryption!Storage
    BY <1>1 DEF storage
  <1>7. PICK q : q = [device[d] EXCEPT !.pc = "idle", !.identity = new, !.made = 0]
    OBVIOUS
  <1>8. /\ q \in Encryption!Device /\ q.pc = "idle" /\ q.made = 0
        /\ q.identity = new /\ q.restored = device[d].restored
    BY <1>1, <1>3, <1>7 DEF Encryption!Device, Encryption!Steps
  <1>9. device' = [device EXCEPT ![d] = q]
    BY <1>2, <1>7 DEF Encryption!CrossSignCut, Encryption!Update
  <1> QED
    BY <1>1, <1>2, <1>3, <1>5, <1>6, <1>8, <1>9, NewIdentityStep

(* The account's storage changes while one device is in a call: what the others hold     *)
(* still is right.                                                               *)
LEMMA StorageChanges ==
  ASSUME EncryptionInv, NEW d \in Tabs, NEW q \in Encryption!Device,
         device' = [device EXCEPT ![d] = q], device[d].pc # "idle",
         crossSigning' \in [identity : Encryption!Numbers, backup : Encryption!Numbers,
                            storage : Encryption!Storage],
         crossSigning'.identity = crossSigning.identity, q.identity = device[d].identity,
         shown' \subseteq Encryption!Numbers, UNCHANGED <<setups, overlap>>,
         cut' \in BOOLEAN, ~cut' => ~cut,
         ~overlap /\ ~cut' =>
           /\ DeviceIsRight(q)'
           /\ storage.key \in shown => storage'.key \in shown'
           /\ storage.key = 0 /\ storage'.key # 0 => Held(device[d])
           /\ storage'.key \in shown' => ShownOpens'
           /\ shown' # {} => storage'.key # 0
           /\ storage'.identity # 0 => storage'.key # 0
           /\ storage'.key = 0 => storage.key = 0
  PROVE  EncryptionInv'
  <1>1. /\ device' \in [Tabs -> Encryption!Device] /\ device'[d] = q
        /\ \A e \in Tabs \ {d} : device'[e] = device[e]
    BY DEF EncryptionInv, EncryptionTypes
  <1>2. EncryptionTypes'
    BY <1>1 DEF EncryptionInv, EncryptionTypes
  <1>3. CASE ~overlap /\ ~cut'
    <2>1. /\ OneCalls /\ KeyIsGood /\ \A e \in Tabs : DeviceIsRight(device[e])
          /\ \A e \in Tabs \ {d} : device[e].pc = "idle"
      BY <1>3, CalmState
    <2>2. OneCalls'
      BY <1>1, <2>1 DEF OneCalls
    <2>3. storage.key = 0 => OneHolds'
      BY <1>1, <2>1 DEF KeyIsGood, OneHolds, Held
    <2>4. KeyIsGood'
      BY <1>3, <2>3 DEF KeyIsGood
    <2>5. ASSUME NEW e \in Tabs
          PROVE  DeviceIsRight(device[e])'
      <3>1. CASE e = d
        BY <1>1, <1>3, <3>1
      <3>2. CASE e # d
        <4>1. device'[e] = device[e] /\ device[e].pc = "idle" /\ DeviceIsRight(device[e])
          BY <1>1, <2>1, <3>2
        <4>2. Held(device[e])' <=> Held(device[e])
          BY <4>1 DEF Held
        <4>3. storage.key = 0 /\ storage'.key # 0 => ~Held(device[e])
          BY <1>3, <2>1, <3>2 DEF KeyIsGood, OneHolds
        <4> QED
          BY <1>3, <4>1, <4>2, <4>3 DEF DeviceIsRight
      <3> QED
        BY <3>1, <3>2
    <2> QED
      BY <1>2, <2>2, <2>4, <2>5 DEF EncryptionInv
  <1>4. CASE overlap \/ cut'
    BY <1>2, <1>4 DEF EncryptionInv
  <1> QED
    BY <1>3, <1>4

LEMMA MakeKeyStep ==
  ASSUME EncryptionInv, NEW d \in Tabs, Encryption!MakeKey(d)
  PROVE  EncryptionInv'
  <1>1. /\ device[d] \in Encryption!Device /\ device[d].pc = "storage"
        /\ crossSigning \in [identity : Encryption!Numbers, backup : Encryption!Numbers,
                             storage : Encryption!Storage]
        /\ setups \in Encryption!Numbers /\ overlap \in BOOLEAN /\ cut \in BOOLEAN
        /\ shown \subseteq Encryption!Numbers
        /\ UNCHANGED <<shown, setups, overlap, cut>>
    BY DEF EncryptionInv, EncryptionTypes, Encryption!MakeKey
  <1>2. CASE storage.key # 0 /\ Encryption!Goto(d, "export") /\ UNCHANGED crossSigning
    <2>1. PICK q : q = [device[d] EXCEPT !.pc = "export"]
      OBVIOUS
    <2>2. "export" \in Encryption!Steps
      BY DEF Encryption!Steps
    <2>3. ~overlap /\ ~cut => DeviceIsRight(q)
      <3> SUFFICES ASSUME ~overlap, ~cut
                   PROVE  DeviceIsRight(q)
        OBVIOUS
      <3>1. DeviceIsRight(device[d])
        BY CalmState
      <3>2. /\ q.pc = "export" /\ q.made = device[d].made /\ q.identity = device[d].identity
            /\ q.signed = device[d].signed /\ q.active = device[d].active
            /\ q.restored = device[d].restored
        BY <1>1, <2>1, <2>2, AtAnotherStep
      <3> QED
        BY <1>1, <3>1, <3>2 DEF DeviceIsRight, Held
    <2> QED
      BY <1>1, <1>2, <2>1, <2>2, <2>3, CallGoesOn
  <1>3. CASE /\ storage.key = 0
             /\ crossSigning' = [crossSigning EXCEPT !.storage = [key |-> setups, identity |-> 0, backup |-> 0]]
             /\ Encryption!Update(d, [device[d] EXCEPT !.pc = "export", !.keys = @ \cup {setups},
                                                       !.made = setups])
    <2>1. PICK q : q = [device[d] EXCEPT !.pc = "export", !.keys = @ \cup {setups}, !.made = setups]
      OBVIOUS
    <2>2. device' = [device EXCEPT ![d] = q]
      BY <1>3, <2>1 DEF Encryption!Update
    <2>3. /\ q \in Encryption!Device /\ q.pc = "export" /\ q.made = setups /\ setups \in q.keys
          /\ q.identity = device[d].identity /\ q.signed = device[d].signed
          /\ q.restored = device[d].restored
      BY <1>1, <2>1 DEF Encryption!Device, Encryption!Steps
    <2>4. 0 \in Encryption!Numbers
      BY EncryptionNumbers
    <2>5. /\ crossSigning' \in [identity : Encryption!Numbers, backup : Encryption!Numbers,
                                storage : Encryption!Storage]
          /\ crossSigning'.identity = crossSigning.identity
          /\ storage'.key = setups /\ storage'.identity = 0
      BY <1>1, <1>3, <2>4 DEF Encryption!Storage, storage
    <2>6. ASSUME ~overlap, ~cut'
          PROVE  DeviceIsRight(q)' /\ shown = {} /\ Held(device[d])
      <3>1. DeviceIsRight(device[d]) /\ KeyIsGood
        BY <1>1, <2>6, CalmState
      <3>2. shown = {} /\ Held(device[d]) /\ device[d].signed = crossSigning.identity
            /\ device[d].restored # TRUE
        BY <1>1, <1>3, <3>1 DEF KeyIsGood, DeviceIsRight
      <3>3. Held(q)'
        BY <2>3, <2>5, <3>2 DEF Held
      <3>4. DeviceIsRight(q)'
        BY <1>1, <2>3, <2>5, <3>1, <3>2, <3>3 DEF DeviceIsRight
      <3> QED
        BY <3>2, <3>4
    <2> QED
      BY <1>1, <1>3, <2>2, <2>3, <2>5, <2>6, StorageChanges
  <1> QED
    BY <1>2, <1>3 DEF Encryption!MakeKey, storage

LEMMA ExportStep ==
  ASSUME EncryptionInv, NEW d \in Tabs, Encryption!Export(d)
  PROVE  EncryptionInv'
  <1>1. /\ device[d] \in Encryption!Device /\ device[d].pc = "export"
        /\ crossSigning \in [identity : Encryption!Numbers, backup : Encryption!Numbers,
                             storage : Encryption!Storage]
        /\ overlap \in BOOLEAN /\ cut \in BOOLEAN /\ shown \subseteq Encryption!Numbers
        /\ UNCHANGED <<shown, setups, overlap, cut>>
    BY DEF EncryptionInv, EncryptionTypes, Encryption!Export
  <1>2. PICK q : q = [device[d] EXCEPT !.pc = "backup"]
    OBVIOUS
  <1>3. "backup" \in Encryption!Steps
    BY DEF Encryption!Steps
  <1>4. /\ q \in Encryption!Device /\ q.pc = "backup" /\ q.made = device[d].made
        /\ q.identity = device[d].identity /\ q.signed = device[d].signed
        /\ q.active = device[d].active /\ q.restored = device[d].restored
    BY <1>1, <1>2, <1>3, AtAnotherStep
  <1>5. CASE storage.identity # 0 /\ Encryption!Goto(d, "backup") /\ UNCHANGED crossSigning
    <2>1. ~overlap /\ ~cut => DeviceIsRight(q)
      <3> SUFFICES ASSUME ~overlap, ~cut
                   PROVE  DeviceIsRight(q)
        OBVIOUS
      <3>1. DeviceIsRight(device[d])
        BY CalmState
      <3> QED
        BY <1>1, <1>4, <1>5, <3>1 DEF DeviceIsRight, Held
    <2> QED
      BY <1>1, <1>2, <1>3, <1>5, <2>1, CallGoesOn
  <1>6. CASE Encryption!End(d) /\ UNCHANGED crossSigning
    BY <1>1, <1>6, CallEnds
  <1>7. CASE /\ storage.identity = 0 /\ Encryption!CanOpen(d) /\ Encryption!Goto(d, "backup")
             /\ crossSigning' = [crossSigning EXCEPT !.storage.identity = device[d].identity]
    <2>1. device' = [device EXCEPT ![d] = q]
      BY <1>2, <1>7 DEF Encryption!Goto, Encryption!Update
    <2>2. device[d].identity \in Encryption!Numbers
      BY <1>1 DEF Encryption!Device
    <2>3. /\ crossSigning' \in [identity : Encryption!Numbers, backup : Encryption!Numbers,
                                storage : Encryption!Storage]
          /\ crossSigning'.identity = crossSigning.identity
          /\ storage'.key = storage.key /\ storage'.identity = device[d].identity
      BY <1>1, <1>7, <2>2 DEF Encryption!Storage, storage
    <2>4. storage.key # 0
      BY <1>7 DEF Encryption!CanOpen, storage
    <2>5. ASSUME ~overlap, ~cut'
          PROVE  DeviceIsRight(q)' /\ storage.key \notin shown
      <3>1. DeviceIsRight(device[d]) /\ KeyIsGood
        BY <1>1, <2>5, CalmState
      <3>2. storage.key \notin shown
        BY <1>7, <3>1 DEF KeyIsGood, ShownOpens, Encryption!Complete
      <3>3. Held(device[d]) /\ device[d].signed = crossSigning.identity /\ device[d].restored # TRUE
        BY <1>1, <3>1, <3>2 DEF DeviceIsRight
      <3>4. Held(q)' /\ storage'.identity # 0 /\ storage'.identity = crossSigning'.identity
        BY <1>4, <2>3, <3>3 DEF Held
      <3>5. DeviceIsRight(q)'
        BY <1>1, <1>4, <2>3, <2>4, <3>1, <3>3, <3>4 DEF DeviceIsRight
      <3> QED
        BY <3>2, <3>5
    <2> QED
      BY <1>1, <1>4, <2>1, <2>3, <2>4, <2>5, StorageChanges
  <1> QED
    BY <1>5, <1>6, <1>7 DEF Encryption!Export, storage

LEMMA BackupStep ==
  ASSUME EncryptionInv, NEW d \in Tabs, Encryption!Backup(d)
  PROVE  EncryptionInv'
  <1>1. /\ device[d] \in Encryption!Device /\ device[d].pc = "backup"
        /\ crossSigning \in [identity : Encryption!Numbers, backup : Encryption!Numbers,
                             storage : Encryption!Storage]
        /\ overlap \in BOOLEAN /\ cut \in BOOLEAN /\ shown \subseteq Encryption!Numbers
        /\ crossSigning.backup < MaxSetups
        /\ UNCHANGED <<shown, setups, overlap>>
    BY DEF EncryptionInv, EncryptionTypes, Encryption!Backup
  <1>2. PICK new : new = crossSigning.backup + 1
    OBVIOUS
  <1>3. new \in Encryption!Numbers /\ new # 0 /\ 0 \in Encryption!Numbers
    BY <1>1, <1>2, EncryptionNumbers
  <1>4. CASE /\ crossSigning' = [crossSigning EXCEPT !.backup = new, !.storage.backup = crossSigning.storage.backup]
             /\ device' = [device EXCEPT ![d] = [device[d] EXCEPT !.active = new, !.pc = "idle", !.made = 0]]
             /\ cut' = TRUE
    <2>1. crossSigning' \in [identity : Encryption!Numbers, backup : Encryption!Numbers,
                             storage : Encryption!Storage]
      BY <1>1, <1>3, <1>4 DEF Encryption!Storage
    <2>2. [device[d] EXCEPT !.active = new, !.pc = "idle", !.made = 0] \in Encryption!Device
      BY <1>1, <1>3 DEF Encryption!Device, Encryption!Steps
    <2>3. device' \in [Tabs -> Encryption!Device]
      BY <1>4, <2>2 DEF EncryptionInv, EncryptionTypes
    <2> QED
      BY <1>1, <1>4, <2>1, <2>3 DEF EncryptionInv, EncryptionTypes
  <1>5. CASE /\ Encryption!CanOpen(d)
             /\ crossSigning' = [crossSigning EXCEPT !.backup = new, !.storage.backup = new]
             /\ device' = [device EXCEPT ![d] = [device[d] EXCEPT !.active = new, !.pc = "enable",
                                                                  !.made = device[d].made]]
             /\ cut' = cut
    <2>1. /\ crossSigning' \in [identity : Encryption!Numbers, backup : Encryption!Numbers,
                                storage : Encryption!Storage]
          /\ crossSigning'.identity = crossSigning.identity /\ crossSigning'.backup = new
          /\ storage'.key = storage.key /\ storage'.identity = storage.identity
          /\ storage'.backup = new
      BY <1>1, <1>3, <1>5 DEF Encryption!Storage, storage
    <2>2. PICK q : q = [device[d] EXCEPT !.active = new, !.pc = "enable", !.made = device[d].made]
      OBVIOUS
    <2>3. /\ q \in Encryption!Device /\ q.pc = "enable" /\ q.made = device[d].made /\ q.active = new
          /\ q.identity = device[d].identity /\ q.signed = device[d].signed
          /\ q.restored = device[d].restored
      BY <1>1, <1>3, <2>2 DEF Encryption!Device, Encryption!Steps
    <2>4. device' = [device EXCEPT ![d] = q]
      BY <1>5, <2>2
    <2>5. storage.key # 0
      BY <1>5 DEF Encryption!CanOpen, storage
    <2>6. storage.identity # 0 /\ storage.identity = crossSigning.identity => ShownOpens'
      BY <1>3, <2>1, <2>5 DEF ShownOpens, Encryption!Complete, storage
    <2>7. ASSUME ~overlap, ~cut'
          PROVE  DeviceIsRight(q)' /\ (storage.key \in shown => ShownOpens')
      <3>1. DeviceIsRight(device[d]) /\ KeyIsGood
        BY <1>5, <2>7, CalmState
      <3>2. storage.key \in shown => ShownOpens'
        BY <2>6, <3>1 DEF KeyIsGood, ShownOpens, Encryption!Complete, storage
      <3>3. device[d].made # 0 => ShownOpens'
        BY <1>1, <2>6, <3>1 DEF DeviceIsRight
      <3>4. Held(q)' <=> Held(device[d])
        BY <2>1, <2>3 DEF Held
      <3>5. DeviceIsRight(q)'
        BY <1>1, <1>3, <2>1, <2>3, <3>1, <3>3, <3>4 DEF DeviceIsRight
      <3> QED
        BY <3>2, <3>5
    <2> QED
      BY <1>1, <1>5, <2>1, <2>3, <2>4, <2>5, <2>6, <2>7, StorageChanges DEF KeyIsGood
  <1>6. PICK saved \in {Encryption!CanOpen(d), FALSE} :
          /\ crossSigning' = [crossSigning EXCEPT !.backup = @ + 1,
                                !.storage.backup = IF saved THEN crossSigning.backup + 1 ELSE @]
          /\ Encryption!Update(d, [device[d] EXCEPT !.active = crossSigning.backup + 1,
                                     !.pc = IF saved THEN "enable" ELSE "idle",
                                     !.made = IF saved THEN @ ELSE 0])
          /\ cut' = (cut \/ ~saved)
    BY DEF Encryption!Backup
  <1>7. CASE saved
    <2>1. /\ Encryption!CanOpen(d) /\ cut' = cut
          /\ crossSigning' = [crossSigning EXCEPT !.backup = new, !.storage.backup = new]
          /\ device' = [device EXCEPT ![d] = [device[d] EXCEPT !.active = new, !.pc = "enable",
                                                               !.made = device[d].made]]
      BY <1>1, <1>2, <1>6, <1>7 DEF Encryption!Update
    <2> QED
      BY <1>5, <2>1
  <1>8. CASE ~saved
    <2>1. /\ cut' = TRUE
          /\ crossSigning' = [crossSigning EXCEPT !.backup = new, !.storage.backup = crossSigning.storage.backup]
          /\ device' = [device EXCEPT ![d] = [device[d] EXCEPT !.active = new, !.pc = "idle", !.made = 0]]
      BY <1>1, <1>2, <1>6, <1>8 DEF Encryption!Update
    <2> QED
      BY <1>4, <2>1
  <1> QED
    BY <1>7, <1>8

LEMMA EnableStep ==
  ASSUME EncryptionInv, NEW d \in Tabs, Encryption!Enable(d)
  PROVE  EncryptionInv'
  <1>1. /\ device[d] \in Encryption!Device /\ device[d].pc = "enable"
        /\ crossSigning \in [identity : Encryption!Numbers, backup : Encryption!Numbers,
                             storage : Encryption!Storage]
        /\ overlap \in BOOLEAN /\ cut \in BOOLEAN /\ shown \subseteq Encryption!Numbers
        /\ shown' = shown \cup ({device[d].made} \ {0})
        /\ UNCHANGED <<crossSigning, setups, overlap, cut>>
    BY DEF EncryptionInv, EncryptionTypes, Encryption!Enable
  <1>2. PICK q : q = [device[d] EXCEPT !.pc = "idle", !.made = 0]
    OBVIOUS
  <1>3. /\ q \in Encryption!Device /\ q.pc = "idle" /\ q.made = 0 /\ q.identity = device[d].identity
        /\ q.signed = device[d].signed /\ q.active = device[d].active /\ q.restored = device[d].restored
    BY <1>1, <1>2, EndedRecord
  <1>4. device' = [device EXCEPT ![d] = q]
    BY <1>2 DEF Encryption!Enable, Encryption!End, Encryption!Update
  <1>5. device[d].made \in Encryption!Numbers
    BY <1>1 DEF Encryption!Device
  <1>6. ASSUME ~overlap, ~cut'
        PROVE  /\ DeviceIsRight(q)'
               /\ storage'.key \in shown' => ShownOpens'
               /\ shown' # {} => storage'.key # 0
               /\ storage'.identity # 0 => storage'.key # 0
    <2>1. DeviceIsRight(device[d]) /\ KeyIsGood
      BY <1>1, <1>6, CalmState
    <2>2. device[d].made # 0 => ShownOpens /\ storage.key # 0
      BY <1>1, <2>1 DEF DeviceIsRight, ShownOpens, Encryption!Complete
    <2>3. UNCHANGED <<storage, ShownOpens>> /\ Held(q)' = Held(q)
      BY <1>1 DEF storage, ShownOpens, Encryption!Complete, Held
    <2>4. DeviceIsRight(q)'
      <3>1. DeviceIsRight(q)
        BY <1>1, <1>2, <2>1, EndedIsRight
      <3> QED
        BY <1>1, <1>3, <2>3, <3>1 DEF DeviceIsRight
    <2> QED
      BY <1>1, <2>1, <2>2, <2>3, <2>4 DEF KeyIsGood
  <1> QED
    BY <1>1, <1>3, <1>4, <1>5, <1>6, StorageChanges DEF storage

LEMMA LoadStep ==
  ASSUME EncryptionInv, NEW d \in Tabs, Encryption!Load(d)
  PROVE  EncryptionInv'
  <1>1. /\ device[d] \in Encryption!Device /\ device[d].pc = "load"
        /\ crossSigning \in [identity : Encryption!Numbers, backup : Encryption!Numbers,
                             storage : Encryption!Storage]
        /\ setups \in Encryption!Numbers /\ overlap \in BOOLEAN
        /\ UNCHANGED <<crossSigning, shown, setups, overlap, cut>>
    BY DEF EncryptionInv, EncryptionTypes, Encryption!Load
  <1>2. CASE Encryption!End(d)
    BY <1>1, <1>2, CallEnds
  <1>3. CASE Encryption!Update(d, [device[d] EXCEPT !.pc = "restore",
                 !.active = IF storage.backup = crossSigning.backup THEN crossSigning.backup ELSE 0])
    <2>1. PICK active : active = IF storage.backup = crossSigning.backup THEN crossSigning.backup ELSE 0
      OBVIOUS
    <2>2. active \in Encryption!Numbers
      BY <1>1, <2>1, EncryptionNumbers
    <2>3. PICK q : q = [device[d] EXCEPT !.pc = "restore", !.active = active]
      OBVIOUS
    <2>4. device' = [device EXCEPT ![d] = q]
      BY <1>3, <2>1, <2>3 DEF Encryption!Update
    <2>5. /\ q \in Encryption!Device /\ q.pc = "restore" /\ q.made = device[d].made /\ q.active = active
          /\ q.identity = device[d].identity /\ q.signed = device[d].signed
          /\ q.restored = device[d].restored
      BY <1>1, <2>2, <2>3 DEF Encryption!Device, Encryption!Steps
    <2>6. ~overlap /\ ~cut => DeviceIsRight(q) /\ \A e \in Tabs \ {d} : device[e].pc = "idle"
      <3> SUFFICES ASSUME ~overlap, ~cut
                   PROVE  DeviceIsRight(q) /\ \A e \in Tabs \ {d} : device[e].pc = "idle"
        OBVIOUS
      <3>1. DeviceIsRight(device[d]) /\ KeyIsGood /\ \A e \in Tabs \ {d} : device[e].pc = "idle"
        BY <1>1, CalmState
      <3>2. storage.key \in shown /\ ShownOpens
        BY <1>1, <3>1 DEF DeviceIsRight, KeyIsGood
      <3>3. q.active # 0
        BY <2>1, <2>5, <3>2 DEF ShownOpens, Encryption!Complete
      <3> QED
        BY <1>1, <2>5, <3>1, <3>2, <3>3 DEF DeviceIsRight, Held
    <2> QED
      BY <1>1, <2>4, <2>5, <2>6, DeviceMoves
  <1> QED
    BY <1>2, <1>3 DEF Encryption!Load, storage

LEMMA RestoreStep ==
  ASSUME EncryptionInv, NEW d \in Tabs, Encryption!Restore(d)
  PROVE  EncryptionInv'
  <1>1. /\ device[d] \in Encryption!Device /\ device[d].pc = "restore"
        /\ setups \in Encryption!Numbers /\ overlap \in BOOLEAN
        /\ UNCHANGED <<crossSigning, shown, setups, overlap, cut>>
    BY DEF EncryptionInv, EncryptionTypes, Encryption!Restore
  <1>2. PICK q : q = [device[d] EXCEPT !.pc = "idle", !.restored = TRUE]
    OBVIOUS
  <1>3. device' = [device EXCEPT ![d] = q]
    BY <1>2 DEF Encryption!Restore, Encryption!Update
  <1>4. /\ q \in Encryption!Device /\ q.pc = "idle" /\ q.made = device[d].made
        /\ q.identity = device[d].identity /\ q.signed = device[d].signed
        /\ q.active = device[d].active
    BY <1>1, <1>2 DEF Encryption!Device, Encryption!Steps
  <1>5. ~overlap /\ ~cut => DeviceIsRight(q)
    <2> SUFFICES ASSUME ~overlap, ~cut
                 PROVE  DeviceIsRight(q)
      OBVIOUS
    <2>1. DeviceIsRight(device[d])
      BY CalmState
    <2> QED
      BY <1>1, <1>4, <2>1 DEF DeviceIsRight, Held
  <1> QED
    BY <1>1, <1>3, <1>4, <1>5, DeviceMoves

LEMMA QueryStep ==
  ASSUME EncryptionInv, NEW d \in Tabs, Encryption!Query(d)
  PROVE  EncryptionInv'
  <1>1. /\ device[d] \in Encryption!Device /\ device[d].pc = "query"
        /\ UNCHANGED <<crossSigning, shown, setups, overlap, cut>>
    BY DEF EncryptionInv, EncryptionTypes, Encryption!Query
  <1>2. PICK q : q = [device[d] EXCEPT !.pc = "import"]
    OBVIOUS
  <1>3. "import" \in Encryption!Steps
    BY DEF Encryption!Steps
  <1>4. ~overlap /\ ~cut => DeviceIsRight(q)
    <2> SUFFICES ASSUME ~overlap, ~cut
                 PROVE  DeviceIsRight(q)
      OBVIOUS
    <2>1. DeviceIsRight(device[d])
      BY CalmState
    <2>2. /\ q.pc = "import" /\ q.made = device[d].made /\ q.identity = device[d].identity
          /\ q.signed = device[d].signed /\ q.active = device[d].active
          /\ q.restored = device[d].restored
      BY <1>1, <1>2, <1>3, AtAnotherStep
    <2> QED
      BY <1>1, <2>1, <2>2 DEF DeviceIsRight, Held
  <1> QED
    BY <1>1, <1>2, <1>3, <1>4, CallGoesOn DEF Encryption!Query

LEMMA EncryptionStep ==
  ASSUME EncryptionInv, Encryption!Next
  PROVE  EncryptionInv'
  <1>1. PICK d \in Tabs :
          \/ Encryption!PressSetUp(d) \/ Encryption!CrossSign(d) \/ Encryption!CrossSignCut(d)
          \/ Encryption!MakeKey(d) \/ Encryption!Export(d) \/ Encryption!Backup(d)
          \/ Encryption!Enable(d) \/ Encryption!PressRecover(d) \/ Encryption!Query(d)
          \/ Encryption!Import(d) \/ Encryption!Load(d) \/ Encryption!Restore(d)
          \/ Encryption!Fails(d)
    BY DEF Encryption!Next
  <1>2. CASE Encryption!CrossSign(d)
    BY <1>2, CrossStep DEF Encryption!CrossSign
  <1>3. CASE Encryption!Import(d)
    BY <1>3, CrossStep DEF Encryption!Import
  <1>4. CASE Encryption!Fails(d)
    BY <1>4, CallEnds DEF Encryption!Fails
  <1> QED
    BY <1>1, <1>2, <1>3, <1>4, PressSetUpStep, CrossSignCutStep, MakeKeyStep, ExportStep, BackupStep,
       EnableStep, PressRecoverStep, QueryStep, LoadStep, RestoreStep

LEMMA EncryptionStutter == EncryptionInv /\ UNCHANGED encryptionVars => EncryptionInv'
  BY DEF EncryptionInv, EncryptionTypes, OneCalls, OneHolds, KeyIsGood, DeviceIsRight, Held, storage,
     ShownOpens, Encryption!Complete, encryptionVars

LEMMA EncryptionInvImplies == EncryptionInv => RecoveryWorks
  <1> SUFFICES ASSUME EncryptionInv, ~overlap, ~cut
               PROVE  /\ storage.key \in shown => ShownOpens
                      /\ \A d \in Tabs : /\ device[d].restored
                                         /\ device[d].identity = crossSigning.identity
                                         => Encryption!Verdict(d) = "ready"
    BY DEF RecoveryWorks, Encryption!ShownKeyRecovers, Encryption!RestoredMeansReady, storage, ShownOpens
  <1>1. storage.key \in shown => ShownOpens
    BY DEF EncryptionInv, KeyIsGood
  <1>2. ASSUME NEW d \in Tabs, device[d].restored, device[d].identity = crossSigning.identity
        PROVE  Encryption!Verdict(d) = "ready"
    <2>1. DeviceIsRight(device[d]) /\ device[d].restored = TRUE /\ KeyIsGood
      BY <1>2, CalmState DEF Encryption!Device
    <2>2. storage.key \in shown /\ ShownOpens /\ device[d].active # 0 /\ storage.key # 0
      BY <1>1, <2>1 DEF DeviceIsRight, ShownOpens, Encryption!Complete
    <2>3. Held(device[d]) /\ device[d].signed = crossSigning.identity
      BY <1>2, <2>1, <2>2 DEF DeviceIsRight, Held, ShownOpens, Encryption!Complete, storage
    <2> QED
      BY <1>2, <2>2, <2>3 DEF Encryption!Verdict, Encryption!crossSigningReady, Encryption!deviceVerified,
         Encryption!secretStorageReady, Encryption!keyBackupEnabled, Encryption!Holds, Held,
         ShownOpens, Encryption!Complete, storage
  <1> QED
    BY <1>1, <1>2

(* A recovery key that was shown opens a storage with the identity and the backup in    *)
(* force, and a device that restored with it is ready, whichever calls failed on the     *)
(* way, unless devices acted at a time or a backup's key was not stored                 *)
(* (bootstrapEncryption, recoverWithKey).                                          *)
THEOREM RecoveryWorksHolds == WebSpec => []RecoveryWorks
  <1>1. EncryptionInv /\ [WebNext]_webVars => EncryptionInv'
    BY EncryptionStep, EncryptionStutter DEF WebNext, webVars
  <1> QED
    BY <1>1, EncryptionBegins, EncryptionInvImplies, PTL DEF WebSpec

-------------------------------------------------------------------------------
(* Composer *)

(* The key of an encrypted upload: the file is gone, or the key is in the room, or the *)
(* person was told, once the upload is over.  Texts do not touch it.                *)
SendingInv ==
  /\ KeyOrRemoved
  /\ upload \in [pc : Sending!UploadSteps, sealed : BOOLEAN]
  /\ encrypted \in BOOLEAN /\ listed \in BOOLEAN

LEMMA SendingBegins == WebInit => SendingInv
  BY DEF WebInit, Sending!Init, SendingInv, KeyOrRemoved, Sending!KeyOrRemoved, Sending!UploadSteps

LEMMA SendingStep ==
  ASSUME SendingInv, Sending!Next
  PROVE  SendingInv'
  <1> USE DEF SendingInv, KeyOrRemoved, Sending!KeyOrRemoved, Sending!UploadSteps
  <1>1. CASE \/ Sending!Encrypt \/ Sending!Relist \/ Sending!SessionTurns
             \/ \E t \in Texts : \/ Sending!Type(t) \/ Sending!Press(t) \/ Sending!Deliver(t)
                                 \/ Sending!Resolve(t) \/ Sending!Reject(t) \/ Sending!Api(t)
    <2>1. UNCHANGED Sending!file
      BY <1>1 DEF Sending!Encrypt, Sending!Relist, Sending!SessionTurns, Sending!Type, Sending!Press,
                  Sending!Deliver, Sending!Resolve, Sending!Reject, Sending!Api
    <2>2. encrypted' \in BOOLEAN /\ listed' \in BOOLEAN
      BY <1>1 DEF Sending!Encrypt, Sending!Relist, Sending!SessionTurns, Sending!Type, Sending!Press,
                  Sending!Deliver, Sending!Resolve, Sending!Reject, Sending!Api, Sending!channel
    <2> QED
      BY <2>1, <2>2 DEF Sending!file
  <1>2. CASE Sending!Choose
    BY <1>2 DEF Sending!Choose, Sending!channel
  <1>3. CASE Sending!PostFile
    BY <1>3 DEF Sending!PostFile, Sending!channel, Sending!Step
  <1>4. ASSUME NEW pc \in {"announce", "again"}, NEW next \in {"again", "abandon"}, Sending!Announce(pc, next)
        PROVE  SendingInv'
    BY <1>4 DEF Sending!Announce, Sending!channel, Sending!Step
  <1>5. CASE Sending!Abandon
    BY <1>5 DEF Sending!Abandon, Sending!channel, Sending!Step
  <1> QED
    BY <1>1, <1>2, <1>3, <1>4, <1>5 DEF Sending!Next

LEMMA SendingStutter == SendingInv /\ UNCHANGED sendingVars => SendingInv'
  BY DEF SendingInv, KeyOrRemoved, Sending!KeyOrRemoved, sendingVars

(* An encrypted file that is still listed when its upload is over has its key in the    *)
(* room, or the person was told that the upload failed, whichever of the posts, their     *)
(* second attempt and the removal fail (Dashboard's upload).                         *)
THEOREM KeyOrRemovedHolds == WebSpec => []KeyOrRemoved
  <1>1. SendingInv /\ [WebNext]_webVars => SendingInv'
    BY SendingStep, SendingStutter DEF WebNext, webVars
  <1>2. SendingInv => KeyOrRemoved
    BY DEF SendingInv
  <1> QED
    BY <1>1, <1>2, SendingBegins, PTL DEF WebSpec

-------------------------------------------------------------------------------
(* InstancePanel *)

(* A check under way has the answers the instance of its address gives now, unless it  *)
(* was marked; and while nothing was under way when the panel opened, every check and   *)
(* what is shown are of the instance the panel is open for.                         *)
CheckIsRight(q) ==
  /\ q = [of |-> q.of, got |-> q.got, clean |-> q.clean]
  /\ q.of \in Tabs /\ q.clean \in BOOLEAN
  /\ q.clean => \A e \in DOMAIN q.got : q.got[e] = Panel!Probe(e, instance[q.of])
  /\ panelShown # NoUser /\ ~panelCrossed => q.of = panelShown

HealthIsRight ==
  /\ health = [of |-> health.of, state |-> health.state, clean |-> health.clean]
  /\ health.of \in Tabs /\ health.clean \in BOOLEAN
  /\ health.clean => Panel!IsSo(health.state, instance[health.of])
  /\ panelShown # NoUser /\ ~panelCrossed => health.of = panelShown

PanelInv ==
  /\ instance \in [Tabs -> Panel!Instance]
  /\ panelShown \in Tabs \union {NoUser} /\ panelCrossed \in BOOLEAN
  /\ check = [c \in Tabs |-> check[c]]
  /\ \A c \in Tabs : check[c] # Panel!Idle => CheckIsRight(check[c])
  /\ health # Panel!Nothing => HealthIsRight

(* Three answers of one instance as it is add up to what it is. *)
LEMMA AssessmentIsSo ==
  ASSUME NEW i \in Panel!Instance, NEW got, DOMAIN got = Panel!Endpoints,
         \A e \in Panel!Endpoints : got[e] = Panel!Probe(e, i)
  PROVE  Panel!IsSo(Panel!AssessHealth(got), i)
  <1>1. /\ got["health"] = Panel!Probe("health", i)
        /\ got["ready"] = Panel!Probe("ready", i)
        /\ got["instance"] = Panel!Probe("instance", i)
    BY DEF Panel!Endpoints
  <1>2. CASE i.app = "down"
    <2>1. ~got["health"].ok /\ ~got["instance"].ok
      BY <1>1, <1>2 DEF Panel!Probe, Panel!Failed
    <2> QED
      BY <1>2, <2>1 DEF Panel!AssessHealth, Panel!IsSo
  <1>3. CASE i.app # "down"
    <2>1. /\ got["health"].ok /\ got["instance"].ok /\ got["ready"].ok
          /\ got["instance"].product = i.app
          /\ got["ready"].checks = IF i.app = "else" THEN {} ELSE {d \in {"database", "matrix"} : ~i[d]}
      BY <1>1, <1>3 DEF Panel!Probe
    <2>2. CASE i.app = "else"
      BY <2>1, <2>2 DEF Panel!AssessHealth, Panel!IsSo
    <2>3. CASE i.app = "incompatible"
      BY <2>1, <2>3 DEF Panel!AssessHealth, Panel!IsSo
    <2>4. CASE i.app = "sovrgnnet"
      <3>1. /\ i.database \in BOOLEAN /\ i.matrix \in BOOLEAN
            /\ i = [app |-> "sovrgnnet", database |-> i.database, matrix |-> i.matrix]
        BY <2>4 DEF Panel!Instance
      <3>2. Panel!ReadDependencies(got["ready"]) = {d \in {"database", "matrix"} : ~i[d]}
        BY <2>1, <2>4 DEF Panel!ReadDependencies
      <3>3. CASE i.database /\ i.matrix
        <4>1. Panel!ReadDependencies(got["ready"]) = {}
          BY <3>2, <3>3
        <4>2. Panel!AssessHealth(got) = "healthy"
          BY <2>1, <2>4, <4>1 DEF Panel!AssessHealth
        <4> QED
          BY <3>1, <3>3, <4>2 DEF Panel!IsSo
      <3>4. CASE ~(i.database /\ i.matrix)
        <4>1. Panel!ReadDependencies(got["ready"]) # {}
          BY <3>1, <3>2, <3>4
        <4>2. Panel!AssessHealth(got) = "degraded"
          BY <2>1, <2>4, <4>1 DEF Panel!AssessHealth
        <4> QED
          BY <2>4, <3>4, <4>2 DEF Panel!IsSo
      <3> QED
        BY <3>3, <3>4
    <2> QED
      BY <1>3, <2>2, <2>3, <2>4 DEF Panel!Instance
  <1> QED
    BY <1>2, <1>3

LEMMA PanelNames == NoUser \notin Tabs
  BY PartsAssumption DEF Panel!InstancePanelAssumption

LEMMA IdleCheck ==
  /\ Panel!Idle.of = NoUser /\ DOMAIN Panel!Idle.got = {}
  /\ Panel!Idle = [of |-> Panel!Idle.of, got |-> Panel!Idle.got, clean |-> Panel!Idle.clean]
  /\ Panel!Idle.clean = TRUE
  BY DEF Panel!Idle

LEMMA CheckRecord ==
  ASSUME NEW q, q = [of |-> q.of, got |-> q.got, clean |-> q.clean], NEW x
  PROVE  /\ [q EXCEPT !.of = x] = [of |-> x, got |-> q.got, clean |-> q.clean]
         /\ [q EXCEPT !.got = x] = [of |-> q.of, got |-> x, clean |-> q.clean]
         /\ [q EXCEPT !.clean = x] = [of |-> q.of, got |-> q.got, clean |-> x]
  <1>1. [q EXCEPT !.of = x] = [of |-> x, got |-> q.got, clean |-> q.clean]
    OBVIOUS
  <1>2. [q EXCEPT !.got = x] = [of |-> q.of, got |-> x, clean |-> q.clean]
    OBVIOUS
  <1>3. [q EXCEPT !.clean = x] = [of |-> q.of, got |-> q.got, clean |-> x]
    OBVIOUS
  <1> QED
    BY <1>1, <1>2, <1>3

LEMMA HealthRecord ==
  ASSUME NEW h, h = [of |-> h.of, state |-> h.state, clean |-> h.clean], NEW x
  PROVE  [h EXCEPT !.clean = x] = [of |-> h.of, state |-> h.state, clean |-> x]
  OBVIOUS

LEMMA LostRecord ==
  ASSUME NEW q, q = [of |-> q.of, got |-> q.got, clean |-> q.clean], NEW x
  PROVE  [q EXCEPT !.got = x, !.clean = FALSE] = [of |-> q.of, got |-> x, clean |-> FALSE]
  <1>1. [q EXCEPT !.got = x, !.clean = FALSE] = [[q EXCEPT !.got = x] EXCEPT !.clean = FALSE]
    OBVIOUS
  <1>2. [q EXCEPT !.got = x] = [of |-> q.of, got |-> x, clean |-> q.clean]
    BY CheckRecord
  <1> DEFINE r == [of |-> q.of, got |-> x, clean |-> q.clean]
  <1>3. r = [of |-> r.of, got |-> r.got, clean |-> r.clean] /\ r.of = q.of /\ r.got = x
    OBVIOUS
  <1> HIDE DEF r
  <1>4. [r EXCEPT !.clean = FALSE] = [of |-> r.of, got |-> r.got, clean |-> FALSE]
    BY <1>3, CheckRecord
  <1>5. [q EXCEPT !.got = x] = r
    BY <1>2 DEF r
  <1> QED
    BY <1>1, <1>3, <1>4, <1>5

LEMMA PanelBegins == WebInit => PanelInv
  <1> SUFFICES ASSUME WebInit
               PROVE  PanelInv
    OBVIOUS
  <1>1. PICK i \in Panel!Instance : instance = [s \in Tabs |-> i]
    BY DEF WebInit, Panel!Init
  <1> QED
    BY <1>1 DEF WebInit, Panel!Init, PanelInv

(* A check begins for the instance that is shown then. *)
LEMMA CheckBeginsStep ==
  ASSUME PanelInv, NEW s \in Tabs, NEW c \in Tabs, Panel!Begin(c, s), UNCHANGED instance,
         panelShown' = s, panelCrossed' \in BOOLEAN, health' # Panel!Nothing => HealthIsRight',
         ~panelCrossed' => \A b \in Tabs : check[b] # Panel!Idle => check[b].of = s
  PROVE  PanelInv'
  <1>1. /\ check[c] = Panel!Idle /\ check' = [check EXCEPT ![c].of = s]
        /\ check = [b \in Tabs |-> check[b]]
    BY DEF Panel!Begin, PanelInv
  <1> DEFINE q == [of |-> s, got |-> Panel!Idle.got, clean |-> TRUE]
  <1>2. /\ q.of = s /\ q.clean = TRUE /\ DOMAIN q.got = {}
        /\ q = [of |-> q.of, got |-> q.got, clean |-> q.clean]
    BY IdleCheck
  <1>3. check' = [check EXCEPT ![c] = q]
    <2>1. [Panel!Idle EXCEPT !.of = s] = q
      BY IdleCheck, CheckRecord
    <2> QED
      BY <1>1, <2>1
  <1> HIDE DEF q
  <1>4. \A b \in Tabs : check'[b] # Panel!Idle => CheckIsRight(check[b])'
    <2> SUFFICES ASSUME NEW b \in Tabs, check'[b] # Panel!Idle
                 PROVE  CheckIsRight(check[b])'
      OBVIOUS
    <2>1. CASE b = c
      BY <1>1, <1>2, <1>3, <2>1 DEF CheckIsRight
    <2>2. CASE b # c
      <3>1. check'[b] = check[b] /\ CheckIsRight(check[b])
        BY <1>1, <1>3, <2>2 DEF PanelInv
      <3>2. ~panelCrossed' => check[b].of = s
        BY <3>1
      <3> QED
        BY <3>1, <3>2 DEF CheckIsRight
    <2> QED
      BY <2>1, <2>2
  <1>5. check' = [b \in Tabs |-> check'[b]]
    BY <1>1, <1>3
  <1> QED
    BY <1>4, <1>5 DEF PanelInv

LEMMA OpenStep ==
  ASSUME PanelInv, NEW s \in Tabs, Panel!Open(s)
  PROVE  PanelInv'
  <1>1. PICK c \in Tabs : Panel!Begin(c, s)
    BY DEF Panel!Open
  <1>2. /\ UNCHANGED instance /\ panelShown' = s /\ health' = Panel!Nothing
        /\ panelCrossed' = \E b \in Tabs : check[b] # Panel!Idle
    BY DEF Panel!Open, Panel!ForgetHealth
  <1>3. panelCrossed' \in BOOLEAN
    BY <1>2
  <1>4. ~panelCrossed' => \A b \in Tabs : check[b] # Panel!Idle => check[b].of = s
    BY <1>2
  <1> QED
    BY <1>1, <1>2, <1>3, <1>4, CheckBeginsStep

LEMMA CheckAgainStep ==
  ASSUME PanelInv, Panel!CheckAgain
  PROVE  PanelInv'
  <1>1. panelShown \in Tabs
    BY DEF PanelInv, Panel!CheckAgain
  <1>2. PICK c \in Tabs : Panel!Begin(c, panelShown)
    BY DEF Panel!CheckAgain
  <1>3. UNCHANGED <<instance, panelShown, health, panelCrossed>> /\ panelCrossed' \in BOOLEAN
    BY DEF Panel!CheckAgain, PanelInv
  <1>4. ~panelCrossed' => \A b \in Tabs : check[b] # Panel!Idle => check[b].of = panelShown
    BY <1>1, <1>3, PanelNames DEF PanelInv, CheckIsRight
  <1>5. health' # Panel!Nothing => HealthIsRight'
    BY <1>3 DEF PanelInv, HealthIsRight
  <1> QED
    BY <1>1, <1>2, <1>3, <1>4, <1>5, CheckBeginsStep

LEMMA CloseStep ==
  ASSUME PanelInv, Panel!Close
  PROVE  PanelInv'
  BY DEF PanelInv, CheckIsRight, HealthIsRight, Panel!Close

(* An answer comes, or is lost. *)
LEMMA ReceiveStep ==
  ASSUME PanelInv, NEW c \in Tabs, NEW got, NEW clean, check[c] # Panel!Idle,
         check' = [check EXCEPT ![c] = [of |-> check[c].of, got |-> got, clean |-> clean]],
         clean \in BOOLEAN,
         clean => /\ check[c].clean
                  /\ \A x \in DOMAIN got : \/ got[x] = Panel!Probe(x, instance[check[c].of])
                                           \/ x \in DOMAIN check[c].got /\ got[x] = check[c].got[x],
         UNCHANGED <<instance, panelShown, health, panelCrossed>>
  PROVE  PanelInv'
  <1>1. CheckIsRight(check[c]) /\ check = [b \in Tabs |-> check[b]]
    BY DEF PanelInv
  <1>2. check'[c] = [of |-> check[c].of, got |-> got, clean |-> clean]
    BY <1>1
  <1>3. CheckIsRight(check[c])'
    <2>1. /\ check'[c].of = check[c].of /\ check'[c].got = got /\ check'[c].clean = clean
          /\ check'[c] = [of |-> check'[c].of, got |-> check'[c].got, clean |-> check'[c].clean]
      BY <1>2
    <2>2. clean => \A x \in DOMAIN got : got[x] = Panel!Probe(x, instance[check[c].of])
      BY <1>1, Zenon DEF CheckIsRight
    <2>3. check[c].of \in Tabs /\ (panelShown # NoUser /\ ~panelCrossed => check[c].of = panelShown)
      BY <1>1 DEF CheckIsRight
    <2> QED
      BY <2>1, <2>2, <2>3 DEF CheckIsRight
  <1>4. \A b \in Tabs : check'[b] # Panel!Idle => CheckIsRight(check[b])'
    <2> SUFFICES ASSUME NEW b \in Tabs, check'[b] # Panel!Idle
                 PROVE  CheckIsRight(check[b])'
      OBVIOUS
    <2>1. CASE b = c
      BY <1>1, <1>3, <2>1
    <2>2. CASE b # c
      <3>1. check'[b] = check[b] /\ CheckIsRight(check[b])
        BY <1>1, <2>2 DEF PanelInv
      <3> QED
        BY <3>1 DEF CheckIsRight
    <2> QED
      BY <2>1, <2>2
  <1>5. check' = [b \in Tabs |-> check'[b]]
    BY <1>1
  <1>6. health' # Panel!Nothing => HealthIsRight'
    BY DEF PanelInv, HealthIsRight
  <1> QED
    BY <1>4, <1>5, <1>6 DEF PanelInv

LEMMA AnswerStep ==
  ASSUME PanelInv, NEW c \in Tabs, NEW e \in Panel!Endpoints, Panel!Answer(c, e) \/ Panel!Lose(c, e)
  PROVE  PanelInv'
  <1>1. /\ check[c] # Panel!Idle /\ CheckIsRight(check[c]) /\ e \notin DOMAIN check[c].got
        /\ UNCHANGED <<instance, panelShown, health, panelCrossed>>
    BY DEF PanelInv, Panel!Answer, Panel!Lose
  <1> DEFINE with(answer) == [x \in DOMAIN check[c].got \union {e} |-> IF x = e THEN answer ELSE check[c].got[x]]
  <1>2. check[c] = [of |-> check[c].of, got |-> check[c].got, clean |-> check[c].clean]
    BY <1>1 DEF CheckIsRight
  <1>3. CASE Panel!Answer(c, e)
    <2>1. PICK got : got = with(Panel!Probe(e, instance[check[c].of]))
      OBVIOUS
    <2>2. [check[c] EXCEPT !.got = got] = [of |-> check[c].of, got |-> got, clean |-> check[c].clean]
      BY <1>2, CheckRecord
    <2>3. check' = [check EXCEPT ![c] = [check[c] EXCEPT !.got = got]]
      BY <1>3, <2>1 DEF Panel!Answer, Panel!Receive
    <2>4. \A x \in DOMAIN got : \/ got[x] = Panel!Probe(x, instance[check[c].of])
                                \/ x \in DOMAIN check[c].got /\ got[x] = check[c].got[x]
      BY <2>1
    <2>5. check[c].clean \in BOOLEAN
      BY <1>1 DEF CheckIsRight
    <2> QED
      BY <1>1, <2>2, <2>3, <2>4, <2>5, ReceiveStep
  <1>4. CASE Panel!Lose(c, e)
    <2>1. PICK got : got = with(Panel!Failed)
      OBVIOUS
    <2>2. [check[c] EXCEPT !.got = got, !.clean = FALSE] = [of |-> check[c].of, got |-> got, clean |-> FALSE]
      BY <1>2, LostRecord
    <2>3. check' = [check EXCEPT ![c] = [check[c] EXCEPT !.got = got, !.clean = FALSE]]
      BY <1>4, <2>1 DEF Panel!Lose
    <2> QED
      BY <1>1, <2>2, <2>3, ReceiveStep
  <1> QED
    BY <1>3, <1>4

(* What the panel says when a check ends is of that check's instance, and so. *)
LEMMA EndStep ==
  ASSUME PanelInv, NEW c \in Tabs, Panel!End(c)
  PROVE  PanelInv'
  <1>1. DOMAIN check[c].got = Panel!Endpoints /\ check' = [check EXCEPT ![c] = Panel!Idle]
    BY DEF Panel!End
  <1>2. check[c] # Panel!Idle
    BY <1>1, IdleCheck DEF Panel!Endpoints
  <1>3. CheckIsRight(check[c]) /\ check = [b \in Tabs |-> check[b]]
    BY <1>2 DEF PanelInv
  <1>4. /\ UNCHANGED <<instance, panelShown, panelCrossed>>
        /\ health' = [of |-> check[c].of, state |-> Panel!AssessHealth(check[c].got), clean |-> check[c].clean]
    BY DEF Panel!End
  <1>5. HealthIsRight'
    <2>1. health'.clean => Panel!IsSo(health'.state, instance[health'.of])
      <3> SUFFICES ASSUME check[c].clean
                   PROVE  Panel!IsSo(Panel!AssessHealth(check[c].got), instance[check[c].of])
        BY <1>4
      <3>1. \A e \in Panel!Endpoints : check[c].got[e] = Panel!Probe(e, instance[check[c].of])
        BY <1>1, <1>3 DEF CheckIsRight
      <3>2. instance[check[c].of] \in Panel!Instance
        BY <1>3 DEF CheckIsRight, PanelInv
      <3> QED
        BY <1>1, <3>1, <3>2, AssessmentIsSo
    <2> QED
      BY <1>3, <1>4, <2>1 DEF CheckIsRight, HealthIsRight
  <1>6. ASSUME NEW b \in Tabs, check'[b] # Panel!Idle
        PROVE  CheckIsRight(check[b])'
    <2>1. check'[b] = check[b] /\ CheckIsRight(check[b])
      BY <1>1, <1>3, <1>6 DEF PanelInv
    <2> QED
      BY <1>4, <2>1 DEF CheckIsRight
  <1> QED
    BY <1>1, <1>3, <1>4, <1>5, <1>6 DEF PanelInv

(* What is known of an instance that changes is marked. *)
LEMMA ChangeStep ==
  ASSUME PanelInv, NEW s \in Tabs, Panel!Change(s)
  PROVE  PanelInv'
  <1>1. PICK i \in Panel!Instance : instance' = [instance EXCEPT ![s] = i]
    BY DEF Panel!Change
  <1>2. /\ check' = [c \in Tabs |-> IF check[c].of = s THEN [check[c] EXCEPT !.clean = FALSE] ELSE check[c]]
        /\ health' = IF health.of = s THEN [health EXCEPT !.clean = FALSE] ELSE health
        /\ UNCHANGED <<panelShown, panelCrossed>>
    BY DEF Panel!Change
  <1>3. instance' \in [Tabs -> Panel!Instance]
    BY <1>1 DEF PanelInv
  <1>4. \A t \in Tabs : t # s => instance'[t] = instance[t]
    BY <1>1 DEF PanelInv
  <1>5. ASSUME NEW c \in Tabs, check'[c] # Panel!Idle
        PROVE  CheckIsRight(check[c])'
    <2>1. check[c] # Panel!Idle
      BY <1>2, <1>5, IdleCheck, PanelNames
    <2>2. CheckIsRight(check[c])
      BY <2>1 DEF PanelInv
    <2>3. CASE check[c].of = s
      <3>1. check'[c] = [of |-> check[c].of, got |-> check[c].got, clean |-> FALSE]
        <4>1. [check[c] EXCEPT !.clean = FALSE] = [of |-> check[c].of, got |-> check[c].got, clean |-> FALSE]
          BY <2>2, CheckRecord DEF CheckIsRight
        <4> QED
          BY <1>2, <2>3, <4>1
      <3>2. /\ check'[c].of = check[c].of /\ check'[c].clean = FALSE
            /\ check'[c] = [of |-> check'[c].of, got |-> check'[c].got, clean |-> check'[c].clean]
        BY <3>1
      <3>3. check[c].of \in Tabs /\ (panelShown # NoUser /\ ~panelCrossed => check[c].of = panelShown)
        BY <2>2 DEF CheckIsRight
      <3> QED
        BY <1>2, <3>2, <3>3 DEF CheckIsRight
    <2>4. CASE check[c].of # s
      <3>1. check'[c] = check[c] /\ instance'[check[c].of] = instance[check[c].of]
        BY <1>2, <1>4, <2>2, <2>4 DEF CheckIsRight
      <3> QED
        BY <1>2, <2>2, <3>1 DEF CheckIsRight
    <2> QED
      BY <2>3, <2>4
  <1>6. health' # Panel!Nothing => HealthIsRight'
    <2>1. CASE health = Panel!Nothing
      BY <1>2, <2>1, PanelNames DEF Panel!Nothing
    <2>2. CASE health # Panel!Nothing /\ health.of = s
      <3>1. HealthIsRight
        BY <2>2 DEF PanelInv
      <3>2. health' = [of |-> health.of, state |-> health.state, clean |-> FALSE]
        <4>1. [health EXCEPT !.clean = FALSE] = [of |-> health.of, state |-> health.state, clean |-> FALSE]
          BY <3>1, HealthRecord DEF HealthIsRight
        <4> QED
          BY <1>2, <2>2, <4>1
      <3>3. /\ health'.of = health.of /\ health'.clean = FALSE
            /\ health' = [of |-> health'.of, state |-> health'.state, clean |-> health'.clean]
        BY <3>2
      <3>4. health.of \in Tabs /\ (panelShown # NoUser /\ ~panelCrossed => health.of = panelShown)
        BY <3>1 DEF HealthIsRight
      <3> QED
        BY <1>2, <3>3, <3>4 DEF HealthIsRight
    <2>3. CASE health # Panel!Nothing /\ health.of # s
      <3>1. HealthIsRight
        BY <2>3 DEF PanelInv
      <3>2. health' = health /\ instance'[health.of] = instance[health.of]
        BY <1>2, <1>4, <2>3, <3>1 DEF HealthIsRight
      <3> QED
        BY <1>2, <3>1, <3>2 DEF HealthIsRight
    <2> QED
      BY <2>1, <2>2, <2>3
  <1>7. check' = [c \in Tabs |-> check'[c]]
    BY <1>2
  <1> QED
    BY <1>2, <1>3, <1>5, <1>6, <1>7 DEF PanelInv

LEMMA PanelStep ==
  ASSUME PanelInv, Panel!Next
  PROVE  PanelInv'
  BY OpenStep, CheckAgainStep, CloseStep, AnswerStep, EndStep, ChangeStep, Zenon DEF Panel!Next

LEMMA PanelStutter == PanelInv /\ UNCHANGED panelVars => PanelInv'
  BY DEF panelVars, PanelInv, CheckIsRight, HealthIsRight

LEMMA PanelInvImplies == PanelInv => PanelIsRight
  BY PanelNames DEF PanelInv, HealthIsRight, PanelIsRight, Panel!PanelIsRight

(* When no check was under way as the panel opened, what it says is of the instance it  *)
(* is open for, and is so unless that instance changed since its answers, whatever order *)
(* the answers of the checks come in (InstancePanel's check, assessHealth).           *)
THEOREM PanelIsRightHolds == WebSpec => []PanelIsRight
  <1>1. PanelInv /\ [WebNext]_webVars => PanelInv'
    BY PanelStep, PanelStutter DEF WebNext, webVars
  <1> QED
    BY <1>1, PanelBegins, PanelInvImplies, PTL DEF WebSpec
================================================================================
