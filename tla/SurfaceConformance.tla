-------------------------- MODULE SurfaceConformance --------------------------
(* The conformance suite of the signed-in surface (scripts/conformance-auth.ts,    *)
(* shared/conformanceAuth.ts) and the handlers it walks through                    *)
(* (server/routers.ts, server/permissions.ts, server/instanceRoutes.ts).            *)
(*                                                                              *)
(* The suite tells a conforming instance by the codes of its refusals, so the       *)
(* order of a handler's guards is part of what it checks.  A request can be lost     *)
(* and an administrator can change the join policy while it runs.                  *)
EXTENDS Sequences, Naturals

CONSTANT MaxTroubles               \* bound: lost requests and changes of the policy

SurfaceAssumption == MaxTroubles \in Nat

VARIABLES
  inst,          \* the instance
  args,          \* what the operator gave the suite
  mem,           \* what the suite remembers of the answers
  step,          \* the step of the walk that comes next
  failed,        \* the checks that failed
  steady,        \* whether nothing has disturbed the run
  troubles

vars == <<inst, args, mem, step, failed, steady, troubles>>

Policies == {"open", "invite", "closed"}

(* Registered names; who is signed in under which name; the sandbox server's owner    *)
(* and members, whether it has a code, and who wrote the messages in its channel.    *)
Instance ==
  [policy : Policies, fresh : BOOLEAN, encrypts : BOOLEAN, limited : BOOLEAN,
   names : SUBSET {"newA", "newB", "userA", "userB"}, sessions : SUBSET {"anon", "a", "b"},
   created : BOOLEAN, code : BOOLEAN, members : SUBSET {"a", "b"},
   messages : SUBSET {"a", "b"}]

(* ------------------------------------------------------------ the handlers *)

Reply(code, then) == [code |-> code, then |-> then]
Refuse(code) == Reply(code, inst)

(* The suite presents no setup token, so the first account is refused it. *)
CanRegister(invite) ==
  /\ ~inst.fresh
  /\ \/ inst.policy = "open"
     \/ inst.policy = "invite" /\ invite

Register(who, name, invite) ==
  CASE name \in inst.names -> Refuse("CONFLICT")
    [] name \notin inst.names /\ ~CanRegister(invite) -> Refuse("FORBIDDEN")
    [] OTHER -> Reply("OK", [inst EXCEPT !.names = @ \union {name}, !.sessions = @ \union {who}])

Login(who, right) ==
  CASE inst.limited -> Refuse("TOO_MANY_REQUESTS")
    [] ~inst.limited /\ ~right -> Refuse("UNAUTHORIZED")
    [] OTHER -> Reply("OK", [inst EXCEPT !.sessions = @ \union {who}])

Logout(who) == Reply("OK", [inst EXCEPT !.sessions = @ \ {who}])

Role(who) ==
  CASE who = "a" /\ inst.created -> "owner"
    [] who = "b" /\ who \in inst.members -> "member"
    [] OTHER -> "none"

CreateServer == Reply("OK", [inst EXCEPT !.created = TRUE, !.members = {"a"}])

Read(who) == IF Role(who) = "none" THEN Refuse("FORBIDDEN") ELSE Refuse("OK")

Post(who) == Reply("OK", [inst EXCEPT !.messages = @ \union {who}])

(* Plausible bug: the refusal for the encryption comes before the membership. *)
SendEncryptionFirst(who) ==
  CASE inst.encrypts -> Refuse("PRECONDITION_FAILED")
    [] ~inst.encrypts /\ Role(who) = "none" -> Refuse("FORBIDDEN")
    [] OTHER -> Post(who)

Send(who) ==
  CASE Role(who) = "none" -> Refuse("FORBIDDEN")
    [] Role(who) # "none" /\ inst.encrypts -> Refuse("PRECONDITION_FAILED")
    [] OTHER -> Post(who)

RequireAdmin(who, then) == IF Role(who) = "owner" THEN Reply("OK", then) ELSE Refuse("FORBIDDEN")

CreateInvite(who) == RequireAdmin(who, [inst EXCEPT !.code = TRUE])
CreateChannel(who) == RequireAdmin(who, inst)

JoinByInvite(who) ==
  IF inst.code THEN Reply("OK", [inst EXCEPT !.members = @ \union {who}]) ELSE Refuse("NOT_FOUND")

(* Whoever acts on themselves is told so before their rank is looked at. *)
SetRole(who, target) ==
  CASE who = target -> Refuse("BAD_REQUEST")
    [] who # target /\ Role(who) \in {"none", "member"} -> Refuse("FORBIDDEN")
    [] OTHER -> Refuse("OK")

Delete(who, author) ==
  CASE author \notin inst.messages -> Refuse("NOT_FOUND")
    [] author \in inst.messages /\ (Role(who) = "none" \/ (who # author /\ Role(who) = "member")) ->
         Refuse("FORBIDDEN")
    [] OTHER -> Reply("OK", [inst EXCEPT !.messages = @ \ {author}])

(* The preview of an invite: a code that is not one, one never issued, a live one. *)
Preview(code) ==
  Refuse(CASE code = "malformed" -> "400"
           [] code = "unknown" \/ (code = "live" /\ ~inst.code) -> "404"
           [] OTHER -> "OK")

(* ----------------------------------------------------------------- the walk *)

AccountWalk ==
  <<"instance", "anonMe", "registerRefused", "closedInvite", "registerA", "duplicate",
    "registerB", "loginA", "loginB", "badPassword">>

ServerWalk ==
  <<"createServer", "readServer", "readMessages", "writeWall", "createInvite", "preview",
    "unknownCode", "malformedCode", "join", "memberRead", "memberSend", "roleFloor",
    "selfElevation", "postTarget", "deleteOthers", "deleteOwn", "logout">>

Walk == AccountWalk \o ServerWalk \o <<"over">>

(* The policy that was announced, and the steps whose answer was not a refusal. *)
NoMemory == [policy |-> "none", done |-> {}]

Both ==
  /\ {"registerA", "loginA"} \intersect mem.done # {}
  /\ {"registerB", "loginB"} \intersect mem.done # {}

Done(s) == s \in mem.done

(* Whether the suite comes to a step, by what it was given and has been answered. *)
AccountStepApplies(s) ==
  CASE s \in {"instance", "anonMe"} -> TRUE
    [] s = "registerRefused" -> mem.policy # "open"
    [] s = "closedInvite" -> mem.policy = "closed" /\ ~args.supplied /\ args.invite
    [] s \in {"registerA", "registerB"} ->
         ~args.supplied /\ (mem.policy = "open" \/ (mem.policy = "invite" /\ args.invite))
    [] s = "duplicate" -> Done("registerA")
    [] s \in {"loginA", "loginB"} -> args.supplied
    [] s = "badPassword" -> Done("registerA") \/ Done("loginA")

ServerStepApplies(s) ==
  CASE s = "createServer" -> Both
    [] s \in {"readServer", "readMessages", "writeWall", "createInvite", "logout"} ->
         Done("createServer")
    [] s \in {"preview", "unknownCode", "malformedCode", "join"} -> Done("createInvite")
    [] s \in {"memberRead", "memberSend", "roleFloor", "selfElevation"} -> Done("join")
    [] s = "postTarget" -> Done("join") /\ ~inst.encrypts
    [] s \in {"deleteOthers", "deleteOwn"} -> Done("postTarget") /\ Done("memberSend")

OfAccounts(s) == \E i \in DOMAIN AccountWalk : AccountWalk[i] = s
Applies(s) == IF OfAccounts(s) THEN AccountStepApplies(s) ELSE ServerStepApplies(s)

(* What is asked in a step, and by whom. *)
AccountExchange(s) ==
  CASE s \in {"instance", "anonMe"} -> Refuse("OK")
    [] s = "registerRefused" -> Register("anon", "newA", FALSE)
    [] s = "closedInvite" -> Register("anon", "newA", TRUE)
    [] s = "registerA" -> Register("a", "newA", args.invite)
    [] s = "duplicate" -> Register("anon", "newA", args.invite)
    [] s = "registerB" -> Register("b", "newB", args.invite)
    [] s = "loginA" -> Login("a", TRUE)
    [] s = "loginB" -> Login("b", TRUE)
    [] s = "badPassword" -> Login("anon", FALSE)

ServerExchange(s) ==
  CASE s = "createServer" -> CreateServer
    [] s \in {"readServer", "readMessages", "memberRead"} -> Read("b")
    [] s \in {"writeWall", "memberSend"} -> Send("b")
    [] s = "createInvite" -> CreateInvite("a")
    [] s = "preview" -> Preview("live")
    [] s = "unknownCode" -> Preview("unknown")
    [] s = "malformedCode" -> Preview("malformed")
    [] s = "join" -> JoinByInvite("b")
    [] s = "roleFloor" -> CreateChannel("b")
    [] s = "selfElevation" -> SetRole("b", "b")
    [] s = "postTarget" -> Send("a")
    [] s = "deleteOthers" -> Delete("b", "a")
    [] s = "deleteOwn" -> Delete("b", "b")
    [] s = "logout" -> Logout("b")

Exchange(s) == IF OfAccounts(s) THEN AccountExchange(s) ELSE ServerExchange(s)

(* The codes with which a check does not fail. *)
AccountCodes ==
  [anonMe |-> {"OK"}, registerA |-> {"OK"}, loginA |-> {"OK"}, logout |-> {"OK"},
   registerRefused |-> {"FORBIDDEN"}, closedInvite |-> {"FORBIDDEN"}, duplicate |-> {"CONFLICT"},
   badPassword |-> {"UNAUTHORIZED", "TOO_MANY_REQUESTS"}]

MemberCodes ==
  [readServer |-> {"FORBIDDEN"}, readMessages |-> {"FORBIDDEN"}, writeWall |-> {"FORBIDDEN"},
   memberRead |-> {"OK"},
   memberSend |-> IF inst.encrypts THEN {"PRECONDITION_FAILED"} ELSE {"OK"}]

RankCodes ==
  [roleFloor |-> {"FORBIDDEN"}, selfElevation |-> {"FORBIDDEN"}, deleteOthers |-> {"FORBIDDEN"},
   deleteOwn |-> {"OK"}]

InviteCodes == [preview |-> {"OK"}, unknownCode |-> {"404"}, malformedCode |-> {"400"}]

(* A step without a check takes any answer, and none. *)
Expected(s) ==
  CASE s \in DOMAIN AccountCodes -> AccountCodes[s]
    [] s \in DOMAIN MemberCodes -> MemberCodes[s]
    [] s \in DOMAIN RankCodes -> RankCodes[s]
    [] s \in DOMAIN InviteCodes -> InviteCodes[s]
    [] OTHER -> {Exchange(s).code, "LOST"}

(* Signing in is checked by asking who one is, and so is signing out. *)
SessionChecked(s, then) ==
  CASE s \in {"registerA", "loginA"} -> "a" \in then.sessions
    [] s = "logout" -> "b" \notin then.sessions
    [] OTHER -> TRUE

Init ==
  /\ inst \in [policy : Policies, fresh : BOOLEAN, encrypts : BOOLEAN, limited : BOOLEAN,
                names : {{"userA", "userB"}}, sessions : {{}}, created : {FALSE},
                code : {FALSE}, members : {{}}, messages : {{}}]
  /\ args \in [supplied : BOOLEAN, invite : BOOLEAN]
  /\ inst.fresh => ~args.supplied /\ ~args.invite
  /\ mem = NoMemory /\ step = 1 /\ failed = {} /\ steady = TRUE /\ troubles = 0

This == Walk[step]

(* What the suite makes of an answer: an error code is a refusal, anything else is   *)
(* taken for success, a lost answer too where the step has no check of its own.       *)
Conclude(code, then) ==
  /\ failed' = IF code \in Expected(This) /\ (code = "LOST" \/ SessionChecked(This, then))
               THEN failed ELSE failed \union {This}
  /\ mem' = [policy |-> IF This = "instance" THEN inst.policy ELSE mem.policy,
             done |-> IF code \in {"OK", "LOST"} THEN mem.done \union {This} ELSE mem.done]
  /\ step' = step + 1

Ask ==
  /\ This # "over" /\ Applies(This)
  /\ LET reply == Exchange(This)
     IN  inst' = reply.then /\ Conclude(reply.code, reply.then)
  /\ UNCHANGED <<args, steady, troubles>>

Skip ==
  /\ This # "over" /\ ~Applies(This)
  /\ step' = step + 1
  /\ UNCHANGED <<inst, args, mem, failed, steady, troubles>>

Trouble == troubles < MaxTroubles /\ troubles' = troubles + 1 /\ steady' = FALSE

(* A request is lost, before it is served or after.  Without a descriptor the suite    *)
(* stops at once.                                                                  *)
Lose ==
  /\ This # "over" /\ Applies(This) /\ Trouble
  /\ inst' \in {inst, Exchange(This).then}
  /\ IF This = "instance" THEN step' = Len(Walk) /\ UNCHANGED <<mem, failed>>
     ELSE Conclude("LOST", inst')
  /\ UNCHANGED args

UpdateSettings ==
  /\ Trouble
  /\ \E p \in Policies \ {inst.policy} : inst' = [inst EXCEPT !.policy = p]
  /\ UNCHANGED <<args, mem, step, failed>>

Next == Ask \/ Skip \/ Lose \/ UpdateSettings

Spec == Init /\ [][Next]_vars

(* ---------------------------------------------------------------- properties *)

TypeOK ==
  /\ inst \in Instance
  /\ args \in [supplied : BOOLEAN, invite : BOOLEAN]
  /\ step \in 1..Len(Walk) /\ failed \subseteq {Walk[i] : i \in 1..Len(Walk)}
  /\ mem.policy \in Policies \union {"none"} /\ steady \in BOOLEAN
  /\ troubles \in 0..MaxTroubles

(* A run that nothing disturbs fails none of its checks on this instance, whatever    *)
(* its join policy, its encryption and what the operator supplied: each handler's       *)
(* guards come in the order the suite expects.  Except for two that it always fails:    *)
(* the role a member gives themselves, and the first account of a fresh instance.      *)
WalksThrough ==
  steady /\ ~inst.limited =>
    failed \subseteq {"selfElevation"} \union (IF inst.fresh THEN {"registerA"} ELSE {})

(* "The reference implementation passes its own suite" (docs/PROTOCOL.md:287).  The     *)
(* code does not keep this: who gives themselves a role is refused with BAD_REQUEST     *)
(* (server/permissions.ts:81-86), and the suite expects FORBIDDEN.                    *)
PassesItsOwnSuite == steady /\ ~inst.limited /\ ~inst.fresh => failed = {}

(* The suite can be pointed at a fresh container (docs/PROTOCOL.md:261).  The code does *)
(* not keep this: an open instance refuses the first account without its setup token,  *)
(* which the suite cannot be given.                                                 *)
FreshContainerPasses == steady /\ inst.fresh => failed = {}
===============================================================================
