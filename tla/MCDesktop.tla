------------------------------ MODULE MCDesktop ------------------------------
(* The desktop app, the server it hosts and the identity service it signs in to, *)
(* for TLC.  The five parts share no state, so a run is about one of them:        *)
(* `part` says which, and the variables of the others stay as they are.          *)
(* People and servers are the same model values, and so are the slots in which    *)
(* requests and connects are served.                                            *)
EXTENDS Hosting, TLC

CONSTANTS
  Servers, NoServer, Addresses, Requests, Calls, MaxMoves, MaxOpens,
  CodesPerBatch, MaxBatches, MaxLinks, MaxSessions,
  Providers, Emails, NoEmail, MaxAccounts, MaxAttempts, MaxCodes,
  MaxKeys

VARIABLES
  part,
  store, list, active, overlay, effect, launch, refresh, connect, frameCall, made, visible,
  address, moves, opens, joined, risky,
  unused, lapsed, changes, sessions, issued, recoveryReq,
  accounts, identities, attempts, handoffs, begun, cookie, signInReq,
  grants, revoked, straggler, signing, published, cache, stale, flight, visit

Window == INSTANCE Frame WITH Connects <- Requests, call <- frameCall
Recovery == INSTANCE AccountRecovery WITH made <- issued, req <- recoveryReq
SignIn == INSTANCE ProviderSignIn WITH Users <- Servers, made <- begun, req <- signInReq
Tokens == INSTANCE ServerTokens WITH Visits <- Requests, active <- signing

ASSUME PartsAssumption ==
  /\ Window!FrameAssumption
  /\ Recovery!RecoveryAssumption
  /\ SignIn!ProviderAssumption
  /\ Tokens!ServerTokensAssumption

hostingVars ==
  <<keychain, mints, done, baked, named, dendrite, astray, ids, call, held, loose, voiceOff, shell,
    shown, acts, tidy>>
frameVars ==
  <<store, list, active, overlay, effect, launch, refresh, connect, frameCall, made, visible,
    address, moves, opens, joined, risky>>
recoveryVars == <<unused, lapsed, changes, sessions, issued, recoveryReq>>
signInVars == <<accounts, identities, attempts, handoffs, begun, cookie, signInReq>>
tokenVars == <<grants, revoked, straggler, signing, published, cache, stale, flight, visit>>
desktopVars == <<part, faults, hostingVars, frameVars, recoveryVars, signInVars, tokenVars>>

Off == "off"
FrameOff ==
  /\ store = Off /\ list = Off /\ active = Off /\ overlay = Off /\ effect = Off /\ launch = Off
  /\ refresh = Off /\ connect = Off /\ frameCall = Off /\ made = Off /\ visible = Off
  /\ address = Off /\ moves = Off /\ opens = Off /\ joined = Off /\ risky = Off
RecoveryOff ==
  /\ unused = Off /\ lapsed = Off /\ changes = Off /\ sessions = Off /\ issued = Off
  /\ recoveryReq = Off
SignInOff ==
  /\ accounts = Off /\ identities = Off /\ attempts = Off /\ handoffs = Off /\ begun = Off
  /\ cookie = Off /\ signInReq = Off
TokensOff ==
  /\ grants = Off /\ revoked = Off /\ straggler = Off /\ signing = Off /\ published = Off
  /\ cache = Off /\ stale = Off /\ flight = Off /\ visit = Off

DesktopInit ==
  /\ part \in {"hosting", "frame", "recovery", "provider", "tokens"}
  /\ Init /\ (part = "hosting" \/ keychain.password = 0)
  /\ IF part = "frame" THEN Window!Init ELSE FrameOff
  /\ IF part = "recovery" THEN Recovery!Init ELSE RecoveryOff
  /\ IF part = "provider" THEN SignIn!Init ELSE SignInOff
  /\ IF part = "tokens" THEN Tokens!Init ELSE TokensOff

DesktopNext ==
  /\ UNCHANGED part
  /\ \/ part = "hosting" /\ Next /\ UNCHANGED <<frameVars, recoveryVars, signInVars, tokenVars>>
     \/ /\ part = "frame" /\ Window!Next
        /\ UNCHANGED <<faults, hostingVars, recoveryVars, signInVars, tokenVars>>
     \/ /\ part = "recovery" /\ Recovery!Next
        /\ UNCHANGED <<faults, hostingVars, frameVars, signInVars, tokenVars>>
     \/ /\ part = "provider" /\ SignIn!Next
        /\ UNCHANGED <<hostingVars, frameVars, recoveryVars, tokenVars>>
     \/ /\ part = "tokens" /\ Tokens!Next
        /\ UNCHANGED <<hostingVars, frameVars, recoveryVars, signInVars>>

DesktopSpec == DesktopInit /\ [][DesktopNext]_desktopVars

(* Frame: a server that was added stays in the list, once, unless a refresh was   *)
(* under way that had not read it.                                              *)
RememberedOnce == part = "frame" => Window!RememberedOnce

(* AccountRecovery: a code or a link changes the password once. *)
SpentOnce == part = "recovery" => Recovery!SpentOnce

(* AccountRecovery: a new password ends every session begun before it, and a new set  *)
(* of codes the codes there were before.                                          *)
OldAccessEnds ==
  part = "recovery" => Recovery!EarlierSessionsGone /\ Recovery!PreviousCodesGone

(* ProviderSignIn: every session stands on somebody who can sign in to the account. *)
ProvenOnly == part = "provider" => SignIn!ProvenOnly

(* ServerTokens: once a server is revoked no token for it is issued, unless a     *)
(* first visit to it was under way.                                             *)
RevocationHolds == part = "tokens" => Tokens!RevocationHolds

(* ServerTokens: while the keys a server holds are in force, it accepts tokens    *)
(* whether or not the identity service answers.                                 *)
OutageHarmless == part = "tokens" => Tokens!OutageHarmless

Symmetry ==
  Permutations(Servers) \union Permutations(Requests)
    \union Permutations(Emails)
===============================================================================
