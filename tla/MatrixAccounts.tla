---------------------------- MODULE MatrixAccounts ----------------------------
(*****************************************************************************)
(* The Matrix account behind each account of an instance: provisioned by the   *)
(* first request that needs it (ensureMatrixCredentials), kept in userProfiles, *)
(* and unmoved by a rename.  Requests take one step per call to the database    *)
(* or the homeserver.  profile.update writes the Matrix id its caller sends, and  *)
(* asks nobody whose it is.                                                    *)
(*                                                                            *)
(* A username and the localpart made of it are the same value.  The password   *)
(* is derived from the user's id, so it is the user who made the account.  A    *)
(* token is the number of the login that made it; a login under a device id     *)
(* that exists replaces that device's token.  The homeserver knows whose a token *)
(* is by itself: `of` is the account a stored or held token was made on.        *)
(*****************************************************************************)
EXTENDS Naturals, FiniteSets, Functions

CONSTANTS
  Users, NoUser,
  Names, NoName,
  Requests,
  MaxTokens,   \* logins of all accounts together
  MaxTroubles, \* names changed, ids their users wrote and lost answers, together
  MaxServed    \* requests under way at a time

MatrixAccountsAssumption ==
  /\ NoUser \notin Users /\ NoName \notin Names
  /\ {MaxTokens, MaxTroubles, MaxServed} \subseteq Nat
  /\ \E f \in [Users -> Names] : IsInjective(f)
  /\ IsFiniteSet(Requests)

\* The device a registration makes, the one the instance logs in under, and a client's.
Devices == {"registered", "SOVRGNNET_SERVER", "client"}
SERVER_DEVICE_ID == "SOVRGNNET_SERVER"

VARIABLES
  username,  \* users: each one's name
  rows,      \* userProfiles: a row is named after the request that inserted it
  account,   \* the homeserver's accounts: who has the password, the token of each device
  minted,    \* tokens made so far
  req,       \* the requests being served
  changes, faults,
  crossed,   \* the users who had two requests at once, one of them provisioning
  claimed    \* the users who sent an id of their own to profile.update

vars == <<username, rows, account, minted, req, changes, faults, crossed, claimed>>

NoRow == [user |-> NoUser, mxid |-> NoName, token |-> 0, of |-> NoName]
Row == [user : Users \cup {NoUser}, mxid : Names \cup {NoName}, token : 0 .. MaxTokens,
        of : Names \cup {NoName}]
NoAccount == [owner |-> NoUser, token |-> [d \in Devices |-> 0]]

Steps == {"idle", "read", "register", "login", "select", "update", "insert",
          "client", "whoami", "delete"}
Kinds == {"ensure", "client", "profile", "signout"}
Idle == [pc |-> "idle", kind |-> "ensure", user |-> NoUser, name |-> NoName,
         mxid |-> NoName, token |-> 0, of |-> NoName, device |-> "client"]

Provisioning(q) == q.kind \in {"ensure", "client"} /\ q.pc # "idle"

RowsOf(u) == {i \in Requests : rows[i].user = u}

TypeOK ==
  /\ username \in [Users -> Names] /\ IsInjective(username)
  /\ rows \in [Requests -> Row]
  /\ account \in [Names -> [owner : Users \cup {NoUser}, token : [Devices -> 0 .. MaxTokens]]]
  /\ minted \in 0 .. MaxTokens
  /\ req \in [Requests -> [pc : Steps, kind : Kinds, user : Users \cup {NoUser},
                           name : Names \cup {NoName}, mxid : Names \cup {NoName},
                           token : 0 .. MaxTokens, of : Names \cup {NoName}, device : Devices]]
  /\ changes \in 0 .. MaxTroubles /\ faults \in 0 .. MaxTroubles
  /\ crossed \cup claimed \subseteq Users

Init ==
  /\ username \in {f \in [Users -> Names] : IsInjective(f)}
  /\ rows = [i \in Requests |-> NoRow]
  /\ account = [n \in Names |-> NoAccount]
  /\ minted = 0 /\ changes = 0 /\ faults = 0 /\ crossed = {} /\ claimed = {}
  /\ req = [i \in Requests |-> Idle]

-------------------------------------------------------------------------------
Goto(i, pc) == req' = [req EXCEPT ![i].pc = pc]
End(i) == req' = [req EXCEPT ![i] = Idle]
Fault == changes + faults < MaxTroubles /\ faults' = faults + 1
Change == changes + faults < MaxTroubles /\ changes' = changes + 1

\* A handler begins with the account as the session's lookup read it, and
\* profile.update with the id it was sent, if any.
Begin(i, u) ==
  /\ req[i].pc = "idle" /\ rows[i] = NoRow
  /\ Cardinality({j \in Requests : req[j].pc # "idle"}) < MaxServed
  /\ \E kind \in Kinds, d \in Devices, m \in Names \cup {NoName} :
       /\ kind # "signout" => d = "client"
       /\ IF m = NoName THEN UNCHANGED <<changes, claimed>>
          ELSE kind = "profile" /\ Change /\ claimed' = claimed \cup {u}
       /\ req' = [req EXCEPT ![i] = [Idle EXCEPT !.pc = IF kind = "profile" THEN "select" ELSE "read",
                                                 !.kind = kind, !.user = u,
                                                 !.name = username[u], !.mxid = m, !.device = d]]
       /\ LET others == {req[j] : j \in {k \in Requests \ {i} : req[k].pc # "idle" /\ req[k].user = u}}
          IN crossed' = IF \/ \E q \in others : Provisioning(q)
                           \/ Provisioning(req'[i]) /\ others # {}
                        THEN crossed \cup {u} ELSE crossed
  /\ UNCHANGED <<username, rows, account, minted, faults>>

(* Mutant: credentials under another name than the present one are not believed. *)
FoundByName(u) ==
  IF \E j \in RowsOf(u) : rows[j].mxid = username[u] THEN {rows[j] : j \in RowsOf(u)} ELSE {NoRow}

\* getMatrixCredentials: an arbitrary row of the user; credentials need both columns.
Found(u) == IF RowsOf(u) = {} THEN {NoRow} ELSE {rows[j] : j \in RowsOf(u)}
Credentials(row) == row.mxid # NoName /\ row.token # 0

Read(i) ==
  /\ req[i].pc = "read"
  /\ \E row \in Found(req[i].user) :
       IF Credentials(row)
       THEN IF req[i].kind = "ensure" THEN End(i)
            ELSE req' = [req EXCEPT ![i].mxid = row.mxid, ![i].token = row.token, ![i].of = row.of,
                                    ![i].pc = IF req[i].kind = "client" THEN "client" ELSE "whoami"]
       ELSE IF req[i].kind = "signout" THEN End(i) ELSE Goto(i, "register")
  /\ UNCHANGED <<username, rows, account, minted, changes, faults, crossed, claimed>>

\* The homeserver gives the device a new token, and the caller knows it unless
\* the answer is lost.
Grant(i, name, device, next) ==
  /\ minted < MaxTokens /\ minted' = minted + 1
  /\ account' = [account EXCEPT ![name].owner = IF @ = NoUser THEN req[i].user ELSE @,
                                ![name].token[device] = minted + 1]
  /\ \/ /\ IF next = "idle" THEN End(i)
           ELSE req' = [req EXCEPT ![i].pc = next, ![i].mxid = name, ![i].token = minted + 1,
                                   ![i].of = name]
        /\ UNCHANGED faults
     \/ End(i) /\ Fault

\* registerOrLogin registers under the name the session was read with.
Register(i) ==
  /\ req[i].pc = "register"
  /\ IF account[req[i].name].owner = NoUser
     THEN Grant(i, req[i].name, "registered", "select")
     ELSE Goto(i, "login") /\ UNCHANGED <<account, minted, faults>>
  /\ UNCHANGED <<username, rows, changes, crossed, claimed>>

(* Mutant: the password is derived from the username. *)
PasswordByUsername(i, name) == account[name].owner # NoUser /\ req[i].name = name

\* M_USER_IN_USE: log in, with the password of the account the request is for.
PasswordFits(i, name) == account[name].owner = req[i].user

Login(i) ==
  /\ req[i].pc = "login"
  /\ IF PasswordFits(i, req[i].name)
     THEN Grant(i, req[i].name, SERVER_DEVICE_ID, "select")
     ELSE End(i) /\ UNCHANGED <<account, minted, faults>>
  /\ UNCHANGED <<username, rows, changes, crossed, claimed>>

\* saveMatrixCredentials and createOrUpdateUserProfile look for a row first.
Select(i) ==
  /\ req[i].pc = "select"
  /\ Goto(i, IF RowsOf(req[i].user) = {} THEN "insert" ELSE "update")
  /\ UNCHANGED <<username, rows, account, minted, changes, faults, crossed, claimed>>

Saved(i) == IF req[i].kind = "client" THEN Goto(i, "client") ELSE End(i)

\* saveMatrixCredentials sets the id and the token, profile.update the id it was
\* sent, if any, and keeps the token.
Saves(i, row) ==
  IF req[i].kind # "profile"
  THEN [row EXCEPT !.mxid = req[i].mxid, !.token = req[i].token, !.of = req[i].of]
  ELSE IF req[i].mxid # NoName THEN [row EXCEPT !.mxid = req[i].mxid] ELSE row

\* The update is of every row of the user; matrixUserId is unique.
Update(i) ==
  /\ req[i].pc = "update"
  /\ LET own == RowsOf(req[i].user)
         unique == /\ Cardinality(own) <= 1
                   /\ \A j \in Requests \ own : rows[j].mxid # req[i].mxid
     IN IF req[i].mxid = NoName \/ unique
        THEN /\ rows' = [j \in Requests |-> IF j \in own THEN Saves(i, rows[j]) ELSE rows[j]]
             /\ Saved(i)
        ELSE End(i) /\ UNCHANGED rows
  /\ UNCHANGED <<username, account, minted, changes, faults, crossed, claimed>>

\* profile.update has no token to insert, and may have no id.
Insert(i) ==
  /\ req[i].pc = "insert"
  /\ IF req[i].mxid = NoName \/ \A j \in Requests : rows[j].mxid # req[i].mxid
     THEN /\ rows' = [rows EXCEPT ![i] = [user |-> req[i].user, mxid |-> req[i].mxid,
                                         token |-> req[i].token, of |-> req[i].of]]
          /\ Saved(i)
     ELSE End(i) /\ UNCHANGED rows
  /\ UNCHANGED <<username, account, minted, changes, faults, crossed, claimed>>

\* matrix.clientSession, after ensureMatrixCredentials: a device of its own, on
\* the account of the stored id.
ClientSession(i) ==
  /\ req[i].pc = "client"
  /\ IF PasswordFits(i, req[i].mxid)
     THEN Grant(i, req[i].mxid, "client", "idle")
     ELSE End(i) /\ UNCHANGED <<account, minted, faults>>
  /\ UNCHANGED <<username, rows, changes, crossed, claimed>>

(* Mutant: the device is taken to be the one logins use. *)
ServerDeviceByConstant(i) == {SERVER_DEVICE_ID}

\* deleteDevice asks which device the token is on, and falls back to the
\* constant when it gets no answer.
ServerDevice(i) == {d \in Devices : account[req[i].of].token[d] = req[i].token}

Whoami(i) ==
  /\ req[i].pc = "whoami"
  /\ \/ /\ Goto(i, IF req[i].device \in ServerDevice(i) \cup {SERVER_DEVICE_ID} THEN "idle" ELSE "delete")
        /\ UNCHANGED faults
     \/ /\ Goto(i, IF req[i].device = SERVER_DEVICE_ID THEN "idle" ELSE "delete")
        /\ Fault
  /\ UNCHANGED <<username, rows, account, minted, changes, crossed, claimed>>

\* The homeserver wants a token that still works, and the password of its account:
\* the user named beside it is of the stored id.
DeleteDevice(i) ==
  /\ req[i].pc = "delete"
  /\ account' = IF ServerDevice(i) # {} /\ req[i].mxid = req[i].of /\ PasswordFits(i, req[i].mxid)
                THEN [account EXCEPT ![req[i].mxid].token[req[i].device] = 0] ELSE account
  /\ End(i)
  /\ UNCHANGED <<username, rows, minted, changes, faults, crossed, claimed>>

\* auth.changeUsername: one statement, on the users table alone.
RenameUser(u, name) ==
  /\ Change
  /\ name \notin {username[v] : v \in Users}
  /\ username' = [username EXCEPT ![u] = name]
  /\ crossed' = IF \E i \in Requests : req[i].user = u /\ Provisioning(req[i])
                THEN crossed \cup {u} ELSE crossed
  /\ UNCHANGED <<rows, account, minted, req, faults, claimed>>

Step(i) ==
  \/ Read(i) \/ Register(i) \/ Login(i) \/ Select(i) \/ Update(i) \/ Insert(i)
  \/ ClientSession(i) \/ Whoami(i) \/ DeleteDevice(i)

Next ==
  \/ \E i \in Requests : Step(i) \/ \E u \in Users : Begin(i, u)
  \/ \E u \in Users, name \in Names : RenameUser(u, name)

Spec == Init /\ [][Next]_vars

-------------------------------------------------------------------------------
(* What is stored for a user, or held by a request of theirs, is of an account they *)
(* made: the token always, and the id unless they sent one to profile.update.      *)
IsOwn(x) ==
  /\ x.token # 0 => account[x.of].owner = x.user
  /\ x.mxid # NoName /\ x.user \notin claimed => account[x.mxid].owner = x.user

(* No user is given another one's Matrix account: whoever took the name it was      *)
(* registered under, or lost it, whatever ids others wrote into their profiles, and   *)
(* after any order of first requests, renames and lost answers (deriveMatrixPassword *)
(* is keyed on the user's id, so that a name that was freed and taken again opens      *)
(* nobody's account, and neither does an id a user wrote).                          *)
OwnAccount == \A i \in Requests : IsOwn(rows[i]) /\ IsOwn(req[i])

(* "the Matrix ID does not move": what an account was provisioned with stays while    *)
(* its requests do not overlap, whatever it is called now and whatever others send.    *)
(* The token is never replaced, and the id only by the user's own profile.update       *)
(* (routers changeUsername, localpartOf).                                          *)
IdentityKept ==
  [][\A i \in Requests :
       Credentials(rows[i]) /\ rows[i].user \notin crossed' =>
         /\ rows'[i].token = rows[i].token
         /\ rows'[i].mxid # rows[i].mxid =>
              \E j \in Requests : /\ req[j].kind = "profile" /\ req[j].user = rows[i].user
                                  /\ req[j].mxid = rows'[i].mxid]_vars

(* Every later operation uses the token that was stored.  It stays a token of the      *)
(* account it was made on, which is that of the stored id unless the user wrote        *)
(* another, while first requests do not overlap and whoami answers: neither signing     *)
(* devices out nor logging clients in ends it (deleteDevice).                       *)
StoredTokenWorks ==
  faults = 0 =>
    \A i \in Requests :
      rows[i].token # 0 /\ rows[i].user \notin crossed =>
        /\ \E d \in Devices : account[rows[i].of].token[d] = rows[i].token
        /\ rows[i].user \notin claimed => rows[i].mxid = rows[i].of
===============================================================================
