------------------------------- MODULE Arrival -------------------------------
(* How somebody who opened an invitation link gets into the community: the pages   *)
(* of the web client on the way (client/src/pages/Invite.tsx, Home.tsx,             *)
(* SsoCallback.tsx, client/src/contexts/AuthContext.tsx) and the instance's answers *)
(* (server/routers.ts, server/instance.ts).                                       *)
(*                                                                              *)
(* A visitor without a session is sent to the sign-in form, and the code waits in   *)
(* the tab's sessionStorage; it is taken up again on the form's page once somebody  *)
(* is signed in.  Whether somebody is comes from a cached answer of auth.me, which   *)
(* can fail, and goes stale when the session ends.                                *)
(*                                                                              *)
(* Left out: names, passwords and emails that are refused; the app that opens a     *)
(* link of its own scheme (Frame).                                               *)
EXTENDS Naturals

CONSTANTS
  Codes, NoCode,                   \* invitation codes
  MaxLinks,                        \* bound: links opened
  MaxTroubles                      \* bound: changes of the instance, sessions ended, lost answers

ArrivalAssumption == MaxLinks \in Nat /\ MaxTroubles \in Nat /\ NoCode \notin Codes

VARIABLES
  policy,        \* joinPolicy of the instance
  empty,         \* it has no accounts yet (needsSetup)
  works,         \* the codes that are some community's
  account,       \* the visitor's accounts here: with a password, bound to the provider
  session,       \* whether the browser's cookie is good
  joined,        \* the codes of the communities the visitor is in
  page,          \* where the tab is, and the code in its address
  me,            \* the cache of auth.me
  pending,       \* sessionStorage: pending_invite
  form,          \* the sign-in form: what /api/instance told it, and the invite code in it
  call,          \* the request the page waits for
  wanted,        \* the code of the link opened last
  heard,         \* the codes of which the visitor was told that they do not work
  excused,       \* whether the visitor went by the provider, or the session ended meanwhile
  links, troubles

instance == <<policy, empty, works>>
vars == <<instance, account, session, joined, page, me, pending, form, call, wanted, heard,
          excused, links, troubles>>

Unknown == [policy |-> "unknown", empty |-> FALSE]
Blank == [told |-> Unknown, code |-> NoCode]
NoCall == [kind |-> "none", code |-> NoCode, token |-> FALSE]

At(name) == page.name = name

Init ==
  /\ policy \in {"open", "invite", "closed"} /\ empty \in BOOLEAN
  /\ works \in SUBSET Codes
  /\ account \in SUBSET {"password", "provider"} /\ (empty => account = {})
  /\ session \in BOOLEAN /\ (session => account # {})
  /\ joined = {} /\ pending = NoCode
  /\ page = [name |-> "away", code |-> NoCode, shows |-> "nothing"]
  /\ me = "loading" /\ form = Blank /\ call = NoCall
  /\ wanted = NoCode /\ heard = {} /\ excused = FALSE /\ links = 0 /\ troubles = 0

Trouble == troubles < MaxTroubles /\ troubles' = troubles + 1
Calm == UNCHANGED troubles
Steady == UNCHANGED <<instance, links, wanted>>

(* The tab shows another page; the form's page reads the code that waits. *)
Go(name, code) ==
  /\ page' = [name |-> name, code |-> code, shows |-> "nothing"]
  /\ form' = IF name = "home" THEN [Blank EXCEPT !.code = pending'] ELSE form

(* --------------------------------------------------------------------- auth.me *)

(* An answer that fails leaves nobody signed in, and is not asked again until the     *)
(* window gets the focus.                                                           *)
LearnMe ==
  /\ ~At("away")
  /\ \/ me' = (IF session THEN "user" ELSE "nobody") /\ Calm
     \/ me = "loading" /\ me' = "nobody" /\ Trouble
  /\ Steady
  /\ UNCHANGED <<account, session, joined, page, pending, form, call, heard, excused>>

(* ------------------------------------------------------------------ the link page *)

OpenLink(c) ==
  /\ links < MaxLinks /\ links' = links + 1 /\ call = NoCall
  /\ Go("invite", c) /\ me' = "loading"
  /\ wanted' = c /\ excused' = FALSE /\ heard' = heard \ {c}
  /\ UNCHANGED <<instance, account, session, joined, pending, call, troubles>>

(* "The code survives in sessionStorage". *)
Stash(c) == pending' = c

SendToSignIn ==
  /\ At("invite") /\ page.shows = "nothing" /\ call = NoCall /\ me = "nobody"
  /\ Stash(page.code)
  /\ Go("home", NoCode)
  /\ Calm /\ Steady
  /\ UNCHANGED <<account, session, joined, me, call, heard, excused>>

Attempt ==
  /\ At("invite") /\ page.shows = "nothing" /\ call = NoCall /\ me = "user"
  /\ call' = [NoCall EXCEPT !.kind = "join", !.code = page.code]
  /\ Calm /\ Steady
  /\ UNCHANGED <<account, session, joined, page, me, pending, form, heard, excused>>

(* An answer that says that nobody is signed in loads the sign-in page. *)
JoinByInvite ==
  /\ call.kind = "join" /\ call' = NoCall /\ UNCHANGED pending
  /\ \/ /\ session /\ call.code \in works /\ Calm
        /\ joined' = joined \union {call.code}
        /\ page' = [page EXCEPT !.shows = "joined"]
        /\ UNCHANGED <<me, heard, form, excused>>
     \/ /\ session /\ call.code \notin works /\ Calm
        /\ page' = [page EXCEPT !.shows = "error"] /\ heard' = heard \union {call.code}
        /\ UNCHANGED <<joined, me, form, excused>>
     \/ /\ session /\ Trouble
        /\ joined' \in {joined, joined \union (works \intersect {call.code})}
        /\ page' = [page EXCEPT !.shows = "error"] /\ heard' = heard \union {call.code}
        /\ UNCHANGED <<me, form, excused>>
     \/ /\ ~session /\ Calm
        /\ Go("home", NoCode) /\ me' = "loading" /\ excused' = TRUE
        /\ UNCHANGED <<joined, heard>>
  /\ Steady /\ UNCHANGED <<account, session>>

Land ==
  /\ At("invite") /\ page.shows = "joined"
  /\ Go("dashboard", NoCode)
  /\ Calm /\ Steady
  /\ UNCHANGED <<account, session, joined, me, pending, call, heard, excused>>

(* ------------------------------------------------------------------ the form page *)

Back ==
  /\ page.name \in {"invite", "callback"} /\ page.shows = "error"
  /\ call = NoCall
  /\ UNCHANGED pending /\ Go("home", NoCode)
  /\ Calm /\ Steady
  /\ UNCHANGED <<account, session, joined, me, call, heard, excused>>

(* "If the user arrived via an invite link before signing in, resume it." *)
Resume ==
  /\ At("home") /\ call = NoCall /\ me = "user" /\ pending # NoCode
  /\ pending' = NoCode
  /\ Go("invite", pending)
  /\ Calm /\ Steady
  /\ UNCHANGED <<account, session, joined, me, call, heard, excused>>

GoToDashboard ==
  /\ At("home") /\ me = "user" /\ pending = NoCode /\ call = NoCall
  /\ UNCHANGED pending /\ Go("dashboard", NoCode)
  /\ Calm /\ Steady
  /\ UNCHANGED <<account, session, joined, me, call, heard, excused>>

LearnInstance ==
  /\ At("home") /\ form' = [form EXCEPT !.told = [policy |-> policy, empty |-> empty]]
  /\ Calm /\ Steady
  /\ UNCHANGED <<account, session, joined, page, me, pending, call, heard, excused>>

TypeCode(c) ==
  /\ At("home") /\ me # "user" /\ call = NoCall
  /\ form.told.policy = "invite" /\ ~form.told.empty
  /\ form' = [form EXCEPT !.code = c]
  /\ Calm /\ Steady
  /\ UNCHANGED <<account, session, joined, page, me, pending, call, heard, excused>>

CanSignUp == form.told.policy # "closed"

(* A code in the form wins; otherwise the one that waits. *)
SignUp(token) ==
  /\ At("home") /\ me # "user" /\ call = NoCall
  /\ CanSignUp /\ "password" \notin account
  /\ token => form.told.empty
  /\ call' = [kind |-> "register", token |-> token,
              code |-> IF form.code # NoCode THEN form.code ELSE pending]
  /\ Calm /\ Steady
  /\ UNCHANGED <<account, session, joined, page, me, pending, form, heard, excused>>

SignIn ==
  /\ At("home") /\ me # "user" /\ call = NoCall /\ "password" \in account
  /\ call' = [NoCall EXCEPT !.kind = "login"]
  /\ Calm /\ Steady
  /\ UNCHANGED <<account, session, joined, page, me, pending, form, heard, excused>>

(* The first account takes the setup token, whatever the policy; a later one what     *)
(* the policy asks for.                                                             *)
CanRegister(c) ==
  IF empty THEN c.token
  ELSE policy = "open" \/ (policy = "invite" /\ c.code \in works)

(* Plausible bug: who has signed in goes on to the dashboard. *)
SignedInLands ==
  session' = TRUE /\ me' = "user" /\ page' = [name |-> "dashboard", code |-> NoCode, shows |-> "nothing"]

(* The answer of auth.me is set to the account, and the page stays. *)
SignedIn == session' = TRUE /\ me' = "user" /\ UNCHANGED page

Authenticate ==
  /\ call.kind \in {"register", "login"} /\ call' = NoCall
  /\ \/ /\ call.kind = "login" \/ CanRegister(call)
        /\ account' = account \union {"password"}
        /\ empty' = FALSE
        /\ SignedIn /\ Calm
     \/ /\ call.kind = "register" /\ ~CanRegister(call) /\ Calm
        /\ UNCHANGED <<empty, account, session, me, page>>
     \/ /\ Trouble
        /\ UNCHANGED <<empty, account, session, me, page>>
  /\ UNCHANGED <<policy, works, links, wanted, joined, pending, form, heard, excused>>

(* ------------------------------------------------------------------ the provider *)

(* The provider sends the visitor back to a page that does not look at the code. *)
StartSso ==
  /\ At("home") /\ me # "user" /\ call = NoCall
  /\ UNCHANGED pending /\ Go("callback", NoCode) /\ me' = "loading"
  /\ call' = [NoCall EXCEPT !.kind = "sso"]
  /\ excused' = TRUE
  /\ Calm /\ Steady
  /\ UNCHANGED <<account, session, joined, heard>>

(* decideSsoLink and the join policy: an account that is bound signs in; a new one is  *)
(* created only where anybody may join, and never as the first.                       *)
Sso ==
  /\ call.kind = "sso" /\ call' = NoCall
  /\ \/ /\ "provider" \in account \/ (~empty /\ policy = "open")
        /\ account' = account \union {"provider"}
        /\ session' = TRUE /\ me' = "user"
        /\ UNCHANGED pending /\ Go("dashboard", NoCode)
        /\ Calm
     \/ /\ "provider" \notin account /\ (empty \/ policy # "open") /\ Calm
        /\ page' = [page EXCEPT !.shows = "error"]
        /\ UNCHANGED <<account, session, me, pending, form>>
     \/ /\ Trouble
        /\ page' = [page EXCEPT !.shows = "error"]
        /\ UNCHANGED <<account, session, me, pending, form>>
  /\ Steady /\ UNCHANGED <<joined, heard, excused>>

(* ----------------------------------------------------------------- the dashboard *)

SentHome ==
  /\ At("dashboard") /\ me = "nobody"
  /\ UNCHANGED pending /\ Go("home", NoCode)
  /\ Calm /\ Steady
  /\ UNCHANGED <<account, session, joined, me, call, heard, excused>>

Logout ==
  /\ At("dashboard") /\ me = "user"
  /\ session' = FALSE /\ me' = "nobody"
  /\ UNCHANGED pending /\ Go("home", NoCode)
  /\ Calm /\ Steady
  /\ UNCHANGED <<account, joined, call, heard, excused>>

(* ------------------------------------------------------------------- the instance *)

SessionEnds ==
  /\ session /\ session' = FALSE /\ Trouble
  /\ Steady
  /\ UNCHANGED <<account, joined, page, me, pending, form, call, heard, excused>>

InstanceChanges ==
  /\ Trouble
  /\ \/ policy' \in {"open", "invite", "closed"} \ {policy} /\ UNCHANGED works
     \/ \E c \in Codes : works' \in {works \ {c}, works \union {c}} \ {works} /\ UNCHANGED policy
  /\ UNCHANGED <<empty, account, session, joined, page, me, pending, form, call, wanted, heard,
                 excused, links>>

Next ==
  \/ LearnMe \/ SendToSignIn \/ Attempt \/ JoinByInvite \/ Land
  \/ Back \/ Resume \/ GoToDashboard \/ LearnInstance \/ SignIn
  \/ Authenticate \/ StartSso \/ Sso \/ SentHome \/ Logout
  \/ SessionEnds \/ InstanceChanges
  \/ \E c \in Codes : OpenLink(c) \/ TypeCode(c)
  \/ \E token \in BOOLEAN : SignUp(token)

Spec == Init /\ [][Next]_vars

(* ---------------------------------------------------------------- properties *)

Pages == {"away", "invite", "home", "callback", "dashboard"}

TypeOK ==
  /\ policy \in {"open", "invite", "closed"} /\ empty \in BOOLEAN /\ works \subseteq Codes
  /\ account \subseteq {"password", "provider"} /\ session \in BOOLEAN /\ joined \subseteq Codes
  /\ page \in [name : Pages, code : Codes \union {NoCode}, shows : {"nothing", "joined", "error"}]
  /\ me \in {"loading", "nobody", "user"} /\ pending \in Codes \union {NoCode}
  /\ form.code \in Codes \union {NoCode}
  /\ call.kind \in {"none", "join", "register", "login", "sso"}
  /\ wanted \in Codes \union {NoCode} /\ heard \subseteq Codes /\ excused \in BOOLEAN
  /\ links \in 0..MaxLinks /\ troubles \in 0..MaxTroubles

(* Whoever opened an invitation link and has come to the dashboard is in its          *)
(* community, or was told why not: the code outlives the sign-in or sign-up in        *)
(* between, an older code that waits, and an answer of auth.me that failed             *)
(* ("If the user arrived via an invite link before signing in, resume it",            *)
(* client/src/pages/Home.tsx:28).  Excused is who signed in by the provider, or lost    *)
(* the session between the page and its request.                                     *)
InviteFollowed ==
  At("dashboard") /\ ~excused => wanted \in joined \union heard \union {NoCode}

(* ... whichever way the visitor signed in.  The code does not keep this: the page the *)
(* provider sends the visitor to goes on to the dashboard (SsoCallback.tsx:47, 58), and  *)
(* the code waits for whoever is next on the form's page.                             *)
InviteFollowedAnyhow ==
  At("dashboard") => wanted \in joined \union heard \union {NoCode}

(* Where the first account can be made the form offers it ("The first registration is  *)
(* always allowed", server/instance.ts:108).  The code does not keep this: the form      *)
(* offers no account on a closed instance, an empty one included (Home.tsx:84).        *)
FirstAccountOffered == At("home") /\ form.told.empty => CanSignUp
===============================================================================
