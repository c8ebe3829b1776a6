------------------------------ MODULE Discovery ------------------------------
(* What an instance says about itself to anyone who asks, and the conformance    *)
(* suite that asks it (server/instanceRoutes.ts, server/instance.ts,              *)
(* server/matrixPublic.ts, shared/conformance.ts, scripts/conformance.ts).        *)
(*                                                                              *)
(* Whether clients may sync with the homeserver is not configured but found out:  *)
(* two probes, one of a timer and one that an answer starts when the cached       *)
(* verdict has expired, each replace the verdict when they land.  The suite asks  *)
(* six endpoints one after the other while all this goes on, and compares what    *)
(* they say.                                                                     *)
EXTENDS Naturals

CONSTANT MaxChanges                \* bound: changes of the world and lost requests

DiscoveryAssumption == MaxChanges \in Nat

VARIABLES
  env,           \* how the operator configured the instance
  saved,         \* the join policy an administrator saved, "none" before
  database,      \* whether the database answers
  homeserver,    \* what is at the address of the homeserver
  cached,        \* the verdict of the latest probe to land, "none" before
  expired,       \* whether the verdict is older than it may be
  probe,         \* what has become of each probe
  run,           \* the run of the suite
  steady,        \* whether the run found the instance settled and nothing changed since
  changes

vars == <<env, saved, database, homeserver, cached, expired, probe, run, steady, changes>>

Answers == {"up", "down", "other"}          \* "other" answers, and is not a homeserver
Probers == {"timer", "request"}

(* A URL is not given, given without its scheme, given with a path, or as it       *)
(* should be.                                                                    *)
Env ==
  [url : {"none", "bare", "path", "good"}, sso : {"off", "bare", "good"},
   appservice : BOOLEAN, policy : {"open", "invite"}]

Lost == [ok |-> FALSE]

(* ------------------------------------------------------- what the server says *)

ParsePublicMatrixUrl(url) == IF url = "good" THEN url ELSE "none"

DirectSyncStatus(url, verdict) ==
  IF ParsePublicMatrixUrl(url) = "none" THEN "no-public-url"
  ELSE CASE verdict = "none" -> "unverified"
         [] verdict = "down" -> "unreachable"
         [] verdict = "other" -> "not-a-homeserver"
         [] verdict = "up" -> "available"

(* Plausible bug: an expired verdict is forgotten while it is probed again. *)
KnownIfFresh == IF expired THEN "none" ELSE cached

(* The verdict an answer is made from: what is known, whatever its age. *)
Known == cached

(* An answer made from an expired verdict starts a probe, one at a time. *)
DirectSync ==
  probe' = IF ParsePublicMatrixUrl(env.url) # "none" /\ (cached = "none" \/ expired)
                /\ probe["request"] = "idle"
           THEN [probe EXCEPT !["request"] = "out"] ELSE probe

(* A read of the settings that fails is answered as no settings. *)
InstanceInfo ==
  LET stored == IF database THEN saved ELSE "none"
  IN  [policy |-> IF stored = "none" THEN env.policy ELSE stored,
       issuer |-> IF env.sso = "off" THEN "none" ELSE env.sso]

E2eeAvailable == DirectSyncStatus(env.url, Known) = "available" /\ env.appservice

InstanceDescriptor ==
  [ok |-> TRUE,
   capabilities |->
     [e2ee |-> E2eeAvailable,
      sso |-> env.sso # "off",
      publicRegistration |-> InstanceInfo.policy = "open",
      clientMatrix |-> DirectSyncStatus(env.url, Known) = "available",
      eventIngest |-> env.appservice],
   joinPolicy |-> InstanceInfo.policy,
   baseUrl |-> env.url,
   identityIssuer |-> InstanceInfo.issuer]

(* ---------------------------------------------------------- what the suite finds *)

ParseInstanceDescriptor(d) == d.baseUrl # "bare" /\ d.identityIssuer # "bare"

CheckCapabilities(answer, d) ==
  IF ~answer.ok THEN "warn" ELSE IF answer.capabilities = d.capabilities THEN "pass" ELSE "fail"

CheckVersion(answer) == IF answer.ok THEN "pass" ELSE "warn"
CheckHealth(answer) == IF answer.ok THEN "pass" ELSE "warn"
CheckReady(answer) == IF answer.ok /\ answer.status = 200 THEN "pass" ELSE "warn"

CheckMatrixReachable(d, matrixVersions) ==
  CASE ~d.capabilities.clientMatrix \/ d.baseUrl = "none" -> "skip"
    [] OTHER -> IF matrixVersions.ok /\ matrixVersions.body = "up" THEN "pass" ELSE "fail"

Promise(claim, kept) == IF claim /\ ~kept THEN "fail" ELSE "pass"

CheckConsistency(d, matrixVersions) ==
  LET caps == d.capabilities
  IN  {<<"registration", Promise(caps.publicRegistration, d.joinPolicy = "open")>>,
       <<"e2ee", Promise(caps.e2ee, caps.clientMatrix /\ caps.eventIngest)>>,
       <<"matrixUrl", Promise(caps.clientMatrix, d.baseUrl # "none")>>,
       <<"matrixReachable", CheckMatrixReachable(d, matrixVersions)>>,
       <<"sso", Promise(caps.sso, d.identityIssuer # "none")>>}

(* Every check that can be made, with what it found. *)
RunConformance(got) ==
  CASE ~got.instance.ok -> {<<"reachable", "fail">>}
    [] got.instance.ok /\ ~ParseInstanceDescriptor(got.instance) -> {<<"descriptor", "fail">>}
    [] OTHER ->
       {<<"capabilities", CheckCapabilities(got.capabilities, got.instance)>>,
        <<"version", CheckVersion(got.version)>>,
        <<"health", CheckHealth(got.health)>>,
        <<"ready", CheckReady(got.ready)>>}
       \union CheckConsistency(got.instance, got.matrixVersions)

Conformant(results) == \A result \in results : result[2] # "fail"

(* ----------------------------------------------------------------- the world *)

Asked == <<"instance", "capabilities", "version", "health", "ready", "matrixVersions">>
Idle ==
  [at |-> 0, got |-> [instance |-> Lost, capabilities |-> Lost, version |-> Lost,
                      health |-> Lost, ready |-> Lost, matrixVersions |-> Lost]]

(* The process is up; its first probe is out, and nothing has answered it.       *)
Init ==
  /\ env \in Env /\ saved = "none" /\ database = TRUE /\ homeserver \in Answers
  /\ cached = "none" /\ expired = FALSE
  /\ probe = [timer |-> "out", request |-> "idle"]
  /\ run = Idle /\ steady = FALSE /\ changes = 0

Change == changes < MaxChanges /\ changes' = changes + 1 /\ steady' = FALSE

HomeserverChanges ==
  /\ Change
  /\ homeserver' \in Answers \ {homeserver}
  /\ UNCHANGED <<env, saved, database, cached, expired, probe, run>>

DatabaseChanges ==
  /\ Change
  /\ database' = ~database
  /\ UNCHANGED <<env, saved, homeserver, cached, expired, probe, run>>

UpdateSettings ==
  /\ Change /\ database
  /\ saved' \in {"open", "invite", "closed"} \ {saved}
  /\ UNCHANGED <<env, database, homeserver, cached, expired, probe, run>>

Restart ==
  /\ Change
  /\ cached' = "none" /\ expired' = FALSE
  /\ probe' = [timer |-> "out", request |-> "idle"]
  /\ UNCHANGED <<env, saved, database, homeserver, run>>

(* ---------------------------------------------------------------- the probes *)

(* A verdict is old after a minute, a negative one after five seconds. *)
Expire ==
  /\ cached # "none" /\ ~expired
  /\ expired' = TRUE
  /\ UNCHANGED <<env, saved, database, homeserver, cached, probe, run, steady, changes>>

RefreshDirectSync ==
  /\ ParsePublicMatrixUrl(env.url) # "none"
  /\ probe["timer"] = "idle"
  /\ probe' = [probe EXCEPT !["timer"] = "out"]
  /\ UNCHANGED <<env, saved, database, homeserver, cached, expired, run, steady, changes>>

HomeserverAnswers(p) ==
  /\ probe[p] = "out"
  /\ probe' = [probe EXCEPT ![p] = homeserver]
  /\ UNCHANGED <<env, saved, database, homeserver, cached, expired, run, steady, changes>>

(* Whichever probe lands later is believed. *)
Land(p) ==
  /\ probe[p] \in Answers
  /\ cached' = probe[p] /\ expired' = FALSE
  /\ probe' = [probe EXCEPT ![p] = "idle"]
  /\ UNCHANGED <<env, saved, database, homeserver, run, steady, changes>>

(* ----------------------------------------------------------------- the suite *)

(* No verdict, known or under way, says something else than is the case. *)
Settled ==
  \/ ParsePublicMatrixUrl(env.url) = "none"
  \/ cached = homeserver /\ \A p \in Probers : probe[p] \in {"idle", "out", homeserver}

StartRun ==
  /\ run.at = 0
  /\ run' = [Idle EXCEPT !.at = 1]
  /\ steady' = Settled
  /\ UNCHANGED <<env, saved, database, homeserver, cached, expired, probe, changes>>

Receive(answer) ==
  run' = [run EXCEPT !.at = @ + 1, !.got[Asked[run.at]] = answer]

AskDescriptor ==
  /\ run.at \in {1, 2}
  /\ DirectSync
  /\ Receive(InstanceDescriptor)
  /\ UNCHANGED <<env, saved, database, homeserver, cached, expired, steady, changes>>

AskProcess ==
  /\ run.at \in {3, 4, 5}
  /\ Receive([ok |-> TRUE, status |-> IF run.at = 5 /\ ~database THEN 503 ELSE 200])
  /\ UNCHANGED <<env, saved, database, homeserver, cached, expired, probe, steady, changes>>

(* The address the descriptor gave is asked; one that is no URL makes the suite    *)
(* throw, and there is no verdict.                                              *)
AskMatrix ==
  /\ run.at = 6
  /\ IF run.got.instance.ok /\ run.got.instance.baseUrl = "bare" THEN run' = Idle
     ELSE Receive(IF run.got.instance.ok /\ run.got.instance.baseUrl # "none"
                       /\ homeserver # "down"
                  THEN [ok |-> TRUE, body |-> homeserver] ELSE Lost)
  /\ UNCHANGED <<env, saved, database, homeserver, cached, expired, probe, steady, changes>>

LoseRequest ==
  /\ run.at \in DOMAIN Asked
  /\ Change /\ Receive(Lost)
  /\ UNCHANGED <<env, saved, database, homeserver, cached, expired, probe>>

EndRun ==
  /\ run.at = 7
  /\ run' = Idle /\ steady' = FALSE
  /\ UNCHANGED <<env, saved, database, homeserver, cached, expired, probe, changes>>

Next ==
  \/ HomeserverChanges \/ DatabaseChanges \/ UpdateSettings \/ Restart
  \/ Expire \/ RefreshDirectSync \/ StartRun \/ AskDescriptor \/ AskProcess \/ AskMatrix
  \/ LoseRequest \/ EndRun
  \/ \E p \in Probers : HomeserverAnswers(p) \/ Land(p)

Spec == Init /\ [][Next]_vars

(* ---------------------------------------------------------------- properties *)

TypeOK ==
  /\ env \in Env /\ saved \in {"none", "open", "invite", "closed"}
  /\ database \in BOOLEAN /\ homeserver \in Answers
  /\ cached \in Answers \union {"none"} /\ expired \in BOOLEAN
  /\ probe \in [Probers -> Answers \union {"idle", "out"}]
  /\ run.at \in 0..7 /\ steady \in BOOLEAN /\ changes \in 0..MaxChanges

Verdict == RunConformance(run.got)
Over == run.at = 7

(* An instance whose addresses are URLs conforms, however it is configured and      *)
(* whatever state its homeserver and database are in, when the suite finds it         *)
(* settled and nothing changes meanwhile: it claims nothing it cannot keep, and        *)
(* its endpoints agree, although verdicts expire and probes land between two of        *)
(* them (server/matrixPublic.ts, directSync).                                       *)
HonestInstanceConforms ==
  Over /\ steady /\ env.url # "bare" /\ env.sso # "bare" => Conformant(Verdict)

(* "Two endpoints asked in sequence" never disagree because of the instance itself   *)
(* (server/_core/index.ts:61-69): nothing has changed since it started, and the       *)
(* suite fails it.  The code does not keep this: the first probe is not waited for. *)
FreshStartConforms ==
  Over /\ changes = 0 /\ env.url # "bare" /\ env.sso # "bare" => Conformant(Verdict)

(* A homeserver's address that is no URL is caught where it is configured             *)
(* (shared/matrixDelegation.ts:29-31): the rest of the instance is recognised.         *)
(* The code does not keep this: the descriptor carries the value as it is.            *)
Recognised == Over /\ run.got.instance.ok /\ env.sso # "bare" => Verdict # {<<"descriptor", "fail">>}
===============================================================================
