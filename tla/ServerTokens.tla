----------------------------- MODULE ServerTokens -----------------------------
(*****************************************************************************)
(* The tokens that carry a person from the identity service to one server:     *)
(* minted under the active key while their grant is not revoked                *)
(* (identity/src/routes.ts, /authorize and /api/token), verified by the server  *)
(* against the keys it has cached (server/sso.ts), at sign-in and, for somebody *)
(* new, once more with the name they chose (client/src/pages/SsoCallback.tsx).  *)
(*                                                                            *)
(* Grants are looked up by account and server, so one of each stands for all.   *)
(* Signatures are cryptography: a token is the key that signed it.             *)
(*****************************************************************************)
EXTENDS Naturals, FiniteSets

CONSTANTS
  Visits,     \* windows in which the person signs in, a token at a time
  MaxKeys,    \* bounds: keys ever signed with,
  MaxFaults   \* and fetches of the keys that fail

ServerTokensAssumption == IsFiniteSet(Visits) /\ MaxKeys \in Nat \ {0} /\ MaxFaults \in Nat

VARIABLES
  grants,     \* the rows of the account and server: "live" or "revoked", by who inserted them
  revoked,    \* (history) the person revoked the server,
  straggler,  \* (history) while a request that had found no row was under way
  active,     \* IDENTITY_SIGNING_KEY
  published,  \* it and IDENTITY_PREVIOUS_KEYS
  cache,      \* JwksCache.keys
  stale,      \* an hour since fetchedAt
  flight,     \* JwksCache.inFlight and the answer under way
  visit,
  faults

grantVars == <<grants, revoked, straggler>>
keyVars == <<active, published>>
cacheVars == <<cache, stale, flight>>
vars == <<grants, revoked, straggler, active, published, cache, stale, flight, visit, faults>>

Keys == 1 .. MaxKeys
NoFlight == [at |-> "none", keys |-> {}]
Flights == [at : {"none", "asked", "answered"}, keys : SUBSET Keys]

\* `late` (history): begun after the revocation; `held` (history): the key was
\* cached when the token was presented; `why` a refusal.
Steps == {"idle", "grant", "page", "keys", "check", "unknown", "choose", "in", "refused"}
Visit == [pc : Steps, found : BOOLEAN, key : 0 .. MaxKeys, expired : BOOLEAN, named : BOOLEAN,
          second : BOOLEAN, late : BOOLEAN, held : BOOLEAN, why : {"", "revoked", "expired", "key"}]
NewVisit == [pc |-> "idle", found |-> FALSE, key |-> 0, expired |-> FALSE, named |-> FALSE,
             second |-> FALSE, late |-> FALSE, held |-> FALSE, why |-> ""]

TypeOK ==
  /\ grants \in [Visits -> {"none", "live", "revoked"}]
  /\ revoked \in BOOLEAN /\ straggler \in BOOLEAN
  /\ published \subseteq Keys /\ active \in published
  /\ cache \subseteq Keys /\ stale \in BOOLEAN /\ flight \in Flights
  /\ visit \in [Visits -> Visit] /\ faults \in 0 .. MaxFaults

Init ==
  /\ grants = [v \in Visits |-> "none"] /\ revoked = FALSE /\ straggler = FALSE
  /\ active = 1 /\ published = {1}
  /\ cache = {} /\ stale = TRUE /\ flight = NoFlight
  /\ visit = [v \in Visits |-> NewVisit] /\ faults = 0

Goto(v, pc) == visit' = [visit EXCEPT ![v].pc = pc]
Refused(rec, why) == [rec EXCEPT !.pc = "refused", !.why = why]
Rows == {v \in Visits : grants[v] # "none"}

-----------------------------------------------------------------------------
(* The identity service: grants *)

\* currentAccount, and `limit 1` of the rows there are, in no order.
ReadGrant(v) ==
  /\ visit[v].pc = "idle"
  /\ \/ Rows = {} /\ visit' = [visit EXCEPT ![v] = [@ EXCEPT !.pc = "grant", !.late = revoked]]
     \/ \E row \in Rows :
          visit' = [visit EXCEPT ![v] =
                      IF grants[row] = "revoked" THEN Refused(@, "revoked")
                      ELSE [@ EXCEPT !.pc = "grant", !.found = TRUE, !.late = revoked]]
  /\ UNCHANGED <<grantVars, keyVars, cacheVars, faults>>

\* issueToken, then the update or the insert; the redirect carries the token.
Issue(v) ==
  /\ visit[v].pc = "grant"
  /\ grants' = IF visit[v].found THEN grants ELSE [grants EXCEPT ![v] = "live"]
  /\ visit' = [visit EXCEPT ![v] = [@ EXCEPT !.pc = "page", !.key = active]]
  /\ UNCHANGED <<revoked, straggler, keyVars, cacheVars, faults>>

(* Mutant: one row is marked, the one that a select finds. *)
RevokeOne ==
  /\ \E row \in Rows : grants' = [grants EXCEPT ![row] = "revoked"]
  /\ revoked' = TRUE
  /\ straggler' = (straggler \/ \E v \in Visits : visit[v].pc = "grant" /\ ~visit[v].found)
  /\ UNCHANGED <<keyVars, cacheVars, visit, faults>>

\* The list of servers offers what has a row.
Revoke ==
  /\ Rows # {}
  /\ grants' = [v \in Visits |-> IF v \in Rows THEN "revoked" ELSE "none"]
  /\ revoked' = TRUE
  /\ straggler' = (straggler \/ \E v \in Visits : visit[v].pc = "grant" /\ ~visit[v].found)
  /\ UNCHANGED <<keyVars, cacheVars, visit, faults>>

-----------------------------------------------------------------------------
(* Its keys: a restart signs with a new one and publishes the old beside it, and *)
(* another drops the old once the tokens they signed are out of date.           *)

Rotate ==
  /\ active < MaxKeys
  /\ active' = active + 1 /\ published' = published \cup {active + 1}
  /\ UNCHANGED <<grantVars, cacheVars, visit, faults>>

DropRetired ==
  /\ \A v \in Visits : visit[v].key \in {0, active} \/ visit[v].expired
  /\ published' = {active}
  /\ UNCHANGED <<grantVars, active, cacheVars, visit, faults>>

-----------------------------------------------------------------------------
(* The server: JwksCache *)

Stale == stale' = TRUE /\ UNCHANGED <<grantVars, keyVars, cache, flight, visit, faults>>

\* refresh: callers share the request that is in flight.
Ask == flight' = IF flight = NoFlight THEN [NoFlight EXCEPT !.at = "asked"] ELSE flight

IssuerAnswers ==
  /\ flight.at = "asked"
  /\ flight' = [at |-> "answered", keys |-> published]
  /\ UNCHANGED <<grantVars, keyVars, cache, stale, visit, faults>>

\* Whoever waited goes on with the keys there now are.
Refreshed ==
  /\ flight.at = "answered"
  /\ cache' = flight.keys /\ stale' = FALSE /\ flight' = NoFlight
  /\ visit' = [v \in Visits |->
                 IF visit[v].pc = "keys" THEN [visit[v] EXCEPT !.pc = "check"]
                 ELSE IF visit[v].pc = "unknown" THEN [visit[v] EXCEPT !.pc = "check", !.second = TRUE]
                 ELSE visit[v]]
  /\ UNCHANGED <<grantVars, keyVars, faults>>

(* Mutant: failing closed, which signs nobody in while the service is away. *)
RefreshFailsClosed ==
  /\ flight # NoFlight /\ faults < MaxFaults /\ faults' = faults + 1
  /\ flight' = NoFlight
  /\ visit' = [v \in Visits |-> IF visit[v].pc \in {"keys", "unknown"} THEN Refused(visit[v], "key")
                                ELSE visit[v]]
  /\ UNCHANGED <<grantVars, keyVars, cache, stale>>

\* Out of reach, too slow, or no keys in the answer.  getKeys goes on with the
\* keys it holds, if it holds any; the retry for an unknown key does not.
RefreshFails ==
  /\ flight # NoFlight /\ faults < MaxFaults /\ faults' = faults + 1
  /\ flight' = NoFlight
  /\ visit' = [v \in Visits |->
                 IF visit[v].pc = "keys" /\ cache # {} THEN [visit[v] EXCEPT !.pc = "check"]
                 ELSE IF visit[v].pc \in {"keys", "unknown"} THEN Refused(visit[v], "key")
                 ELSE visit[v]]
  /\ UNCHANGED <<grantVars, keyVars, cache, stale>>

\* auth.ssoLogin with the token of the fragment; auth.ssoRegister, later, with the
\* token the page kept and a name.  getKeys answers at once or waits.
Present(v) ==
  /\ visit[v].pc = "page"
  /\ LET held == [visit[v] EXCEPT !.held = visit[v].key \in cache]
     IN IF cache # {} /\ ~stale
        THEN visit' = [visit EXCEPT ![v] = [held EXCEPT !.pc = "check"]] /\ UNCHANGED flight
        ELSE visit' = [visit EXCEPT ![v] = [held EXCEPT !.pc = "keys"]] /\ Ask
  /\ UNCHANGED <<grantVars, keyVars, cache, stale, faults>>

\* verifyToken, and verifySsoToken's one retry.  An identity bound to an account
\* signs in; another is asked for a name, if it has none yet.
Check(v) ==
  /\ visit[v].pc = "check"
  /\ IF visit[v].key \in cache
     THEN /\ visit' = [visit EXCEPT ![v] = IF visit[v].expired THEN Refused(@, "expired")
                                           ELSE [@ EXCEPT !.pc = IF visit[v].named THEN "in" ELSE "choose",
                                                          !.second = FALSE]]
          /\ UNCHANGED flight
     ELSE IF visit[v].second
     THEN visit' = [visit EXCEPT ![v] = Refused(@, "key")] /\ UNCHANGED flight
     ELSE Goto(v, "unknown") /\ Ask
  /\ UNCHANGED <<grantVars, keyVars, cache, stale, faults>>

\* The answer of ssoLogin: known here already, or submitUsername some time later.
SignedIn(v) ==
  /\ visit[v].pc = "choose" /\ Goto(v, "in")
  /\ UNCHANGED <<grantVars, keyVars, cacheVars, faults>>

ChooseName(v) ==
  /\ visit[v].pc = "choose"
  /\ visit' = [visit EXCEPT ![v] = [@ EXCEPT !.pc = "page", !.named = TRUE]]
  /\ UNCHANGED <<grantVars, keyVars, cacheVars, faults>>

\* Later, another sign-in in the same window.
Again(v) ==
  /\ visit[v].pc \in {"in", "refused"}
  /\ visit' = [visit EXCEPT ![v] = NewVisit]
  /\ UNCHANGED <<grantVars, keyVars, cacheVars, faults>>

\* TOKEN_TTL_SECONDS
Expire(v) ==
  /\ visit[v].key # 0 /\ ~visit[v].expired
  /\ visit' = [visit EXCEPT ![v].expired = TRUE]
  /\ UNCHANGED <<grantVars, keyVars, cacheVars, faults>>

-----------------------------------------------------------------------------
Next ==
  \/ \E v \in Visits :
       \/ ReadGrant(v) \/ Issue(v) \/ Present(v) \/ Check(v)
       \/ SignedIn(v) \/ ChooseName(v) \/ Expire(v) \/ Again(v)
  \/ Revoke \/ Rotate \/ DropRetired
  \/ Stale \/ IssuerAnswers \/ Refreshed \/ RefreshFails

Spec == Init /\ [][Next]_vars

-----------------------------------------------------------------------------
(* "New sign-ins are blocked": a request begun after the revocation is given no  *)
(* token, however many rows the first requests had left, unless one of those was *)
(* still under way and inserts its row behind the revocation.                   *)
RevocationHolds ==
  straggler \/ \A v \in Visits : visit[v].late => visit[v].pc \in {"idle", "refused"}

(* A server does not depend on the service being up: the token of a key it held  *)
(* when it was presented is never refused for its key, whatever refreshes fail   *)
(* or succeed meanwhile, and whatever is rotated or dropped.                    *)
OutageHarmless ==
  \A v \in Visits : visit[v].held /\ visit[v].why = "key" => visit[v].expired

(* What the answer of a revocation says without the exception (routes.ts:1397):   *)
(* a sign-in under way undoes it.                                              *)
RevokedForGood == \A v \in Visits : visit[v].late => visit[v].pc \in {"idle", "refused"}

(* "Refresh once and retry" for a rotated key (server/sso.ts:234): the refresh it *)
(* joins may have been asked before the rotation.                              *)
RotationUnnoticed ==
  \A v \in Visits : visit[v].why = "key" => visit[v].expired \/ faults > 0
=============================================================================
