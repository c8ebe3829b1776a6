--------------------------- MODULE ProviderSignIn ---------------------------
(*****************************************************************************)
(* Signing in to the identity service through Google, Microsoft, GitHub or     *)
(* Discord, and from its own host on to the hub's (identity/src/routes.ts:      *)
(* /oauth/:provider/start and callback, /hub/start, complete and signout).      *)
(*                                                                            *)
(* A person has one browser and one account at each provider, but neither the   *)
(* state of an attempt nor a handoff code is tied to a browser: whoever has it   *)
(* can deliver it, with an answer of the provider about anybody.  What a        *)
(* provider says a person's address is, it may say of somebody else another     *)
(* day: addresses change hands.  A request takes one step per statement or      *)
(* fetch it awaits.  A session records (history) the person it stands on: who    *)
(* gave the password or came through the provider.  Recovery and resets are in   *)
(* module AccountRecovery.                                                     *)
(*****************************************************************************)
EXTENDS Naturals, FiniteSets

CONSTANTS
  Users,
  Providers,    \* those the operator configured
  Emails, NoEmail,
  Requests,     \* requests under way at a time
  MaxAccounts, MaxAttempts, MaxCodes,  \* bounds: rows ever made,
  MaxFaults                            \* and fetches or statements that fail

ProviderAssumption ==
  /\ Providers \subseteq {"google", "microsoft", "github", "discord"} /\ NoEmail \notin Emails
  /\ {MaxAccounts, MaxAttempts, MaxCodes, MaxFaults} \subseteq Nat

VARIABLES
  accounts,    \* the rows, with (history) the person each was made by
  identities,  \* for each third-party account, the account it is bound to or 0
  attempts,    \* oauthAttempts: a number, provider and linkToAccountId
  handoffs,    \* hubHandoffs
  made,        \* how many attempts and codes were ever made
  cookie,      \* the session a browser holds on each host
  req,
  faults

vars == <<accounts, identities, attempts, handoffs, made, cookie, req, faults>>

Hosts == {"id", "hub"}
ThirdParty == Users \X Providers
Ids == 0 .. MaxAccounts
Account == [id : 1 .. MaxAccounts, email : Emails, password : BOOLEAN, owner : Users]
Unset == "unset"
People == Users \cup {Unset}
Session == [account : Ids, as : People]
NoSession == [account |-> 0, as |-> Unset]
Attempt == [nr : 1 .. MaxAttempts, provider : Providers, link : Ids, as : People]
Handoff == [nr : 1 .. MaxCodes, account : Ids, as : People]

Steps == {"idle", "token", "link", "identity", "email", "decide", "account", "bind", "touch",
          "open", "cross", "leave"}
\* `browser` sent the request, `person` is whom the provider answers about, `as` whom a
\* session opened or a link made by it stands on; `found` is the account by identity,
\* `clash` whether one has the address.
Request == [pc : Steps, browser : People, person : People, as : People,
            provider : Providers \cup {Unset}, link : Ids,
            email : Emails \cup {NoEmail}, verified : BOOLEAN, found : Ids, clash : BOOLEAN]
Idle == [pc |-> "idle", browser |-> Unset, person |-> Unset, as |-> Unset,
         provider |-> Unset, link |-> 0,
         email |-> NoEmail, verified |-> FALSE, found |-> 0, clash |-> FALSE]

TypeOK ==
  /\ accounts \subseteq Account /\ \A a, b \in accounts : a # b => a.id # b.id /\ a.email # b.email
  /\ identities \in [ThirdParty -> Ids]
  /\ attempts \subseteq Attempt /\ handoffs \subseteq Handoff
  /\ made \in [attempts : 0 .. MaxAttempts, codes : 0 .. MaxCodes]
  /\ cookie \in [Hosts -> [Users -> Session]]
  /\ req \in [Requests -> Request] /\ faults \in 0 .. MaxFaults

Init ==
  /\ accounts = {} /\ identities = [t \in ThirdParty |-> 0]
  /\ attempts = {} /\ handoffs = {} /\ made = [attempts |-> 0, codes |-> 0]
  /\ cookie = [h \in Hosts |-> [u \in Users |-> NoSession]]
  /\ req = [r \in Requests |-> Idle] /\ faults = 0

Goto(r, pc) == req' = [req EXCEPT ![r].pc = pc]
End(r) == req' = [req EXCEPT ![r] = Idle]
Fault == faults < MaxFaults /\ faults' = faults + 1
SetSession(h, u, id, as) ==
  cookie' = [cookie EXCEPT ![h][u] = [account |-> id, as |-> as]]
DropSession(h, u) == cookie' = [cookie EXCEPT ![h][u] = NoSession]
Used(e) == \E a \in accounts : a.email = e
NewAccount(e, password, u) ==
  [id |-> Cardinality(accounts) + 1, email |-> e, password |-> password, owner |-> u]

-----------------------------------------------------------------------------
(* Email and password, on the id host *)

Register(u, e) ==
  /\ Cardinality(accounts) < MaxAccounts /\ ~Used(e)
  /\ accounts' = accounts \cup {NewAccount(e, TRUE, u)}
  /\ SetSession("id", u, Cardinality(accounts) + 1, u)
  /\ UNCHANGED <<identities, attempts, handoffs, made, req, faults>>

Login(u) ==
  /\ \E a \in accounts : a.password /\ a.owner = u /\ SetSession("id", u, a.id, u)
  /\ UNCHANGED <<accounts, identities, attempts, handoffs, made, req, faults>>

-----------------------------------------------------------------------------
(* /oauth/:provider/start: linking demands a session, and remembers whose *)

Start(u, p, linking) ==
  /\ made.attempts < MaxAttempts /\ (linking => cookie["id"][u].account # 0)
  /\ made' = [made EXCEPT !.attempts = @ + 1]
  /\ attempts' = attempts \cup
       {[nr |-> made.attempts + 1, provider |-> p,
         link |-> IF linking THEN cookie["id"][u].account ELSE 0,
         as |-> IF linking THEN cookie["id"][u].as ELSE Unset]}
  /\ UNCHANGED <<accounts, identities, handoffs, cookie, req, faults>>

AttemptExpires(a) ==
  /\ attempts' = attempts \ {a}
  /\ UNCHANGED <<accounts, identities, handoffs, made, cookie, req, faults>>

-----------------------------------------------------------------------------
(* /oauth/:provider/callback, from browser b with a code about person w.  It     *)
(* may be delivered twice; the delete is what decides, so a callback without its *)
(* row changes nothing and is left out.                                        *)

Callback(r, a, b, w) ==
  /\ req[r].pc = "idle"
  /\ attempts' = attempts \ {a}
  /\ req' = [req EXCEPT ![r] =
       [Idle EXCEPT !.pc = "token", !.browser = b, !.person = w, !.provider = a.provider,
                    !.link = a.link, !.as = IF a.link # 0 THEN a.as ELSE w]]
  /\ UNCHANGED <<accounts, identities, handoffs, made, cookie, faults>>

\* normalizeProfile, githubPrimaryEmail and mergeGithubEmail: what the answers can
\* come to.  Microsoft's address counts as verified, GitHub's public one does not.
Profiles(p) ==
  LET Any == [email : Emails \cup {NoEmail}, verified : BOOLEAN]
  IN {f \in Any : (f.email = NoEmail => ~f.verified) /\ (p = "microsoft" => f.verified = (f.email # NoEmail))}

Profile(r) ==
  /\ req[r].pc = "token"
  /\ \E f \in Profiles(req[r].provider) :
       req' = [req EXCEPT ![r] = [@ EXCEPT !.pc = IF req[r].link # 0 THEN "link" ELSE "identity",
                                           !.email = f.email, !.verified = f.verified]]
  /\ UNCHANGED <<accounts, identities, attempts, handoffs, made, cookie, faults>>

Who(r) == <<req[r].person, req[r].provider>>

\* The unique key refuses what is bound already, to whomever.
Bind(r, id) == identities[Who(r)] = 0 /\ identities' = [identities EXCEPT ![Who(r)] = id]

Link(r) ==
  /\ req[r].pc = "link" /\ End(r)
  /\ \/ Bind(r, req[r].link)
     \/ identities[Who(r)] # 0 /\ UNCHANGED identities
  /\ UNCHANGED <<accounts, attempts, handoffs, made, cookie, faults>>

ByIdentity(r) ==
  /\ req[r].pc = "identity"
  /\ req' = [req EXCEPT ![r] = [@ EXCEPT !.pc = "email", !.found = identities[Who(r)]]]
  /\ UNCHANGED <<accounts, identities, attempts, handoffs, made, cookie, faults>>

ByEmail(r) ==
  /\ req[r].pc = "email"
  /\ req' = [req EXCEPT ![r] = [@ EXCEPT !.pc = "decide", !.clash = Used(req[r].email)]]
  /\ UNCHANGED <<accounts, identities, attempts, handoffs, made, cookie, faults>>

\* matchBrokerAccount: by identity; never by address, which only refuses.
Match(r) ==
  IF req[r].found # 0 THEN "sign-in" ELSE IF req[r].clash THEN "refuse" ELSE "create"

(* Mutant: the rule there was, which followed a verified address. *)
DecideByEmail(r) ==
  /\ req[r].pc = "decide"
  /\ CASE Match(r) = "sign-in" -> Goto(r, "touch")
       [] Match(r) = "create" /\ req[r].verified -> Goto(r, "account")
       [] Match(r) = "refuse" /\ req[r].verified /\ Used(req[r].email) ->
            \E a \in accounts : /\ a.email = req[r].email
                                /\ req' = [req EXCEPT ![r] = [@ EXCEPT !.pc = "touch", !.found = a.id]]
       [] OTHER -> End(r)
  /\ UNCHANGED <<accounts, identities, attempts, handoffs, made, cookie, faults>>

Decide(r) ==
  /\ req[r].pc = "decide"
  /\ CASE Match(r) = "sign-in" -> Goto(r, "touch")
       [] Match(r) = "create" /\ req[r].verified -> Goto(r, "account")
       [] OTHER -> End(r)
  /\ UNCHANGED <<accounts, identities, attempts, handoffs, made, cookie, faults>>

\* An address taken since the check is refused by the unique key.
InsertAccount(r) ==
  /\ req[r].pc = "account"
  /\ \/ /\ ~Used(req[r].email) /\ Cardinality(accounts) < MaxAccounts
        /\ accounts' = accounts \cup {NewAccount(req[r].email, FALSE, req[r].person)}
        /\ req' = [req EXCEPT ![r] = [@ EXCEPT !.pc = "bind", !.found = Cardinality(accounts) + 1]]
     \/ Used(req[r].email) /\ End(r) /\ UNCHANGED accounts
  /\ UNCHANGED <<identities, attempts, handoffs, made, cookie, faults>>

\* A second statement.  When the key refuses it, the account stays.
InsertIdentity(r) ==
  /\ req[r].pc = "bind"
  /\ \/ Bind(r, req[r].found) /\ Goto(r, "open")
     \/ identities[Who(r)] # 0 /\ End(r) /\ UNCHANGED identities
  /\ UNCHANGED <<accounts, attempts, handoffs, made, cookie, faults>>

\* Selects the account and updates the identity's row.
Touch(r) ==
  /\ req[r].pc = "touch" /\ Goto(r, "open")
  /\ UNCHANGED <<accounts, identities, attempts, handoffs, made, cookie, faults>>

OpenSession(r) ==
  /\ req[r].pc = "open"
  /\ SetSession("id", req[r].browser, req[r].found, req[r].as) /\ End(r)
  /\ UNCHANGED <<accounts, identities, attempts, handoffs, made, faults>>

-----------------------------------------------------------------------------
(* The hub, on its own host *)

HubStart(u) ==
  /\ cookie["id"][u].account # 0 /\ made.codes < MaxCodes
  /\ made' = [made EXCEPT !.codes = @ + 1]
  /\ handoffs' = handoffs \cup
       {[nr |-> made.codes + 1, account |-> cookie["id"][u].account, as |-> cookie["id"][u].as]}
  /\ UNCHANGED <<accounts, identities, attempts, cookie, req, faults>>

\* Swept, or too old when it is redeemed; either way the row is gone.
HandoffExpires(c) ==
  /\ handoffs' = handoffs \ {c}
  /\ UNCHANGED <<accounts, identities, attempts, made, cookie, req, faults>>

HubComplete(r, c, b) ==
  /\ req[r].pc = "idle"
  /\ handoffs' = handoffs \ {c}
  /\ req' = [req EXCEPT ![r] =
       [Idle EXCEPT !.pc = "cross", !.browser = b, !.as = c.as, !.found = c.account]]
  /\ UNCHANGED <<accounts, identities, attempts, made, cookie, faults>>

Cross(r) ==
  /\ req[r].pc = "cross"
  /\ SetSession("hub", req[r].browser, req[r].found, req[r].as) /\ End(r)
  /\ UNCHANGED <<accounts, identities, attempts, handoffs, made, faults>>

\* The hub page's button: this host's session, then by a redirect the other's.
SignOut(r, u) ==
  /\ req[r].pc = "idle" /\ cookie["hub"][u].account # 0
  /\ DropSession("hub", u)
  /\ req' = [req EXCEPT ![r] = [Idle EXCEPT !.pc = "leave", !.browser = u]]
  /\ UNCHANGED <<accounts, identities, attempts, handoffs, made, faults>>

HubSignOut(r) ==
  /\ req[r].pc = "leave"
  /\ DropSession("id", req[r].browser) /\ End(r)
  /\ UNCHANGED <<accounts, identities, attempts, handoffs, made, faults>>

\* POST /api/logout on the id host.
Logout(u) ==
  /\ cookie["id"][u].account # 0 /\ DropSession("id", u)
  /\ UNCHANGED <<accounts, identities, attempts, handoffs, made, req, faults>>

\* A provider that refuses, a statement that fails, a navigation that is lost.
Fails(r) ==
  /\ req[r].pc # "idle" /\ Fault /\ End(r)
  /\ UNCHANGED <<accounts, identities, attempts, handoffs, made, cookie>>

-----------------------------------------------------------------------------
Next ==
  \/ \E u \in Users :
       \/ \E e \in Emails : Register(u, e)
       \/ Login(u) \/ Logout(u) \/ HubStart(u)
       \/ \E p \in Providers, linking \in BOOLEAN : Start(u, p, linking)
  \/ \E a \in attempts :
       AttemptExpires(a) \/ \E r \in Requests, b, w \in Users : Callback(r, a, b, w)
  \/ \E c \in handoffs :
       HandoffExpires(c) \/ \E r \in Requests, b \in Users : HubComplete(r, c, b)
  \/ \E r \in Requests :
       \/ Profile(r) \/ Link(r) \/ ByIdentity(r) \/ ByEmail(r) \/ Decide(r)
       \/ InsertAccount(r) \/ InsertIdentity(r) \/ Touch(r) \/ OpenSession(r)
       \/ Cross(r) \/ HubSignOut(r) \/ Fails(r)
       \/ \E u \in Users : SignOut(r, u)

Spec == Init /\ [][Next]_vars

-----------------------------------------------------------------------------
(* Who can sign in to an account: who made it, and whose third-party account is  *)
(* bound to it.                                                               *)
Holders(a) == {a.owner} \cup {t[1] : t \in {s \in ThirdParty : identities[s] = a.id}}

(* Whatever addresses the providers report, however callbacks, links and         *)
(* sign-ups overlap and whoever delivers them, a session of an account, on        *)
(* either host, stands on somebody who can sign in to it, and so does every       *)
(* linking of a third-party account to it: never on an address that the account   *)
(* and the provider have in common.                                            *)
ProvenOnly ==
  \A a \in accounts :
    /\ \A h \in Hosts, u \in Users : cookie[h][u].account = a.id => cookie[h][u].as \in Holders(a)
    /\ \A t \in attempts : t.link = a.id => t.as \in Holders(a)
    /\ \A r \in Requests : req[r].link = a.id => req[r].as \in Holders(a)

(* What the sources say and the code does not keep: *)

(* "linking is claiming, and only someone who has already proved the account is   *)
(* theirs may" (identity/src/routes.ts:735-736): no browser holds a session of    *)
(* an account that somebody else made, and nobody else's third-party account is    *)
(* bound to it.  A state or a code delivered by another browser breaks it.        *)
OwnersOnly ==
  \A a \in accounts :
    /\ \A h \in Hosts, u \in Users : cookie[h][u].account = a.id => u = a.owner
    /\ \A t \in ThirdParty : identities[t] = a.id => t[1] = a.owner

(* What the 409 tells people who are refused: "Sign in the way you did before". *)
(* An account whose identity was not inserted has no way to be signed in to.    *)
WayBackIn ==
  \A a \in accounts :
    \/ a.password
    \/ \E t \in ThirdParty : identities[t] = a.id
    \/ \E r \in Requests : req[r].pc = "bind" /\ req[r].found = a.id
=============================================================================
