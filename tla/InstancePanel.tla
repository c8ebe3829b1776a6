---------------------------- MODULE InstancePanel ----------------------------
(* The desktop shell's panel about an instance, and the health it works out of     *)
(* three unauthenticated answers (desktop/src/components/InstancePanel.tsx,         *)
(* shared/instanceHealth.ts).                                                     *)
(*                                                                              *)
(* A check asks /health, /ready and /api/instance at once and waits for all three; *)
(* meanwhile the panel can be closed, and opened for another instance, whose       *)
(* check is then under way beside the first.  Whichever ends later is shown.       *)
EXTENDS Naturals, FiniteSets

CONSTANTS
  Servers,                         \* the instances of the list
  NoServer,                        \* the panel is closed
  Checks,                          \* the checks under way
  MaxTroubles                      \* bound: changes of an instance and lost answers

InstancePanelAssumption == MaxTroubles \in Nat /\ NoServer \notin Servers

VARIABLES
  instance,      \* what is at the address of each server
  shown,         \* the server the panel is open for
  health,        \* what the panel says, and of whom: "none" while nothing is known
  checking,      \* whether the panel says that it is checking
  check,         \* the checks that are under way
  crossed,       \* whether a check was under way when the panel opened
  troubles

vars == <<instance, shown, health, checking, check, crossed, troubles>>

Endpoints == {"health", "ready", "instance"}

(* What answers is an instance, which may lack its database or its homeserver, one  *)
(* of another protocol, or something else.                                        *)
Instance ==
  [app : {"sovrgnnet"}, database : BOOLEAN, matrix : BOOLEAN]
    \union [app : {"down", "incompatible", "else"}, database : {TRUE}, matrix : {TRUE}]

(* -------------------------------------------------------------- assessHealth *)

Failed == [ok |-> FALSE]

(* What each endpoint says of the instance as it is; /ready also when it is not. *)
Probe(endpoint, i) ==
  IF i.app = "down" THEN Failed
  ELSE CASE endpoint = "health" -> [ok |-> TRUE]
         [] endpoint = "instance" -> [ok |-> TRUE, product |-> i.app]
         [] endpoint = "ready" ->
              [ok |-> TRUE, checks |-> IF i.app = "else" THEN {}
                                       ELSE {d \in {"database", "matrix"} : ~i[d]}]

(* An answer of /ready that did not come leaves no dependency to be down. *)
ReadDependencies(ready) == IF ready.ok THEN ready.checks ELSE {}

AssessHealth(p) ==
  LET down == ReadDependencies(p["ready"])
      product == IF p["instance"].ok THEN p["instance"].product ELSE "unknown"
  IN  CASE ~p["health"].ok /\ ~p["instance"].ok -> "unreachable"
        [] product = "else" -> "not-sovrgnnet"
        [] product = "incompatible" -> "incompatible"
        [] p["health"].ok /\ down = {} /\ product \in {"unknown", "sovrgnnet"} -> "healthy"
        [] OTHER -> "degraded"

(* ----------------------------------------------------------------- the panel *)

Nothing == [of |-> NoServer, state |-> "none", clean |-> FALSE]
Idle == [of |-> NoServer, got |-> [e \in {} |-> Failed], clean |-> TRUE]

(* The instances begin alike; a change makes them differ. *)
Init ==
  /\ \E i \in Instance : instance = [s \in Servers |-> i]
  /\ shown = NoServer /\ health = Nothing /\ checking = FALSE
  /\ check = [c \in Checks |-> Idle] /\ crossed = FALSE /\ troubles = 0

Begin(c, s) ==
  /\ check[c] = Idle
  /\ check' = [check EXCEPT ![c].of = s]
  /\ checking' = TRUE

(* Plausible bug: what was known of the instance before stays until the check ends. *)
KeepHealth == health

(* The panel forgets what it knew when it opens. *)
ForgetHealth == Nothing

(* The panel opens, or turns to another instance, and checks. *)
Open(s) ==
  /\ shown # s
  /\ shown' = s
  /\ health' = ForgetHealth
  /\ crossed' = \E c \in Checks : check[c] # Idle
  /\ \E c \in Checks : Begin(c, s)
  /\ UNCHANGED <<instance, troubles>>

(* Closing shows nothing and cancels nothing. *)
Close ==
  /\ shown # NoServer
  /\ shown' = NoServer
  /\ UNCHANGED <<instance, health, checking, check, crossed, troubles>>

CheckAgain ==
  /\ shown # NoServer /\ ~checking
  /\ \E c \in Checks : Begin(c, shown)
  /\ UNCHANGED <<instance, shown, health, crossed, troubles>>

Receive(c, e, answer) ==
  check' = [check EXCEPT
              ![c].got = [x \in DOMAIN @ \union {e} |-> IF x = e THEN answer ELSE @[x]]]

Answer(c, e) ==
  /\ check[c] # Idle /\ e \notin DOMAIN check[c].got
  /\ Receive(c, e, Probe(e, instance[check[c].of]))
  /\ UNCHANGED <<instance, shown, health, checking, crossed, troubles>>

(* When all three have come, or failed, the panel shows what they amount to. *)
End(c) ==
  /\ DOMAIN check[c].got = Endpoints
  /\ health' = [of |-> check[c].of, state |-> AssessHealth(check[c].got), clean |-> check[c].clean]
  /\ check' = [check EXCEPT ![c] = Idle]
  /\ checking' = FALSE
  /\ UNCHANGED <<instance, shown, crossed, troubles>>

Trouble == troubles < MaxTroubles /\ troubles' = troubles + 1

Lose(c, e) ==
  /\ Trouble
  /\ check[c] # Idle /\ e \notin DOMAIN check[c].got
  /\ check' = [check EXCEPT
                 ![c].got = [x \in DOMAIN @ \union {e} |-> IF x = e THEN Failed ELSE @[x]],
                 ![c].clean = FALSE]
  /\ UNCHANGED <<instance, shown, health, checking, crossed>>

Change(s) ==
  /\ Trouble
  /\ \E i \in Instance : i # instance[s] /\ instance' = [instance EXCEPT ![s] = i]
  /\ check' = [c \in Checks |-> IF check[c].of = s THEN [check[c] EXCEPT !.clean = FALSE]
                               ELSE check[c]]
  /\ health' = IF health.of = s THEN [health EXCEPT !.clean = FALSE] ELSE health
  /\ UNCHANGED <<shown, checking, crossed>>

Next ==
  \/ Close \/ CheckAgain
  \/ \E s \in Servers : Open(s) \/ Change(s)
  \/ \E c \in Checks : End(c) \/ \E e \in Endpoints : Answer(c, e) \/ Lose(c, e)

Spec == Init /\ [][Next]_vars

(* ---------------------------------------------------------------- properties *)

States == {"none", "unreachable", "not-sovrgnnet", "incompatible", "healthy", "degraded"}

TypeOK ==
  /\ instance \in [Servers -> Instance]
  /\ shown \in Servers \union {NoServer} /\ checking \in BOOLEAN /\ crossed \in BOOLEAN
  /\ health \in [of : Servers \union {NoServer}, state : States, clean : BOOLEAN]
  /\ \A c \in Checks : DOMAIN check[c].got \subseteq Endpoints
  /\ troubles \in 0..MaxTroubles

(* What is so of an instance the panel calls this. *)
IsSo(state, i) ==
  CASE state = "healthy" -> i = [app |-> "sovrgnnet", database |-> TRUE, matrix |-> TRUE]
    [] state = "degraded" -> i.app = "sovrgnnet" /\ ~(i.database /\ i.matrix)
    [] state = "unreachable" -> i.app = "down"
    [] state = "incompatible" -> i.app = "incompatible"
    [] state = "not-sovrgnnet" -> i.app = "else"

(* The panel says nothing of another instance than the one it is open for, unless  *)
(* a check was under way when it opened; and what it says is so, unless the         *)
(* instance changed or an answer was lost since its check began                    *)
(* (desktop/src/components/InstancePanel.tsx:93-110).                              *)
PanelIsRight ==
  shown # NoServer /\ ~crossed /\ health # Nothing =>
    /\ health.of = shown
    /\ health.clean => IsSo(health.state, instance[shown])

(* Whatever was under way, the panel speaks of the instance it is open for.  The     *)
(* code does not keep this: a check that ends after the panel has turned to another  *)
(* instance is shown as that one's.                                               *)
PanelNamesItsOwn == shown # NoServer => health.of \in {NoServer, shown}

(* "Everything answers" when the panel says that an instance is healthy              *)
(* (shared/instanceHealth.ts:28-29).  The code does not keep this: without an answer  *)
(* of /ready no dependency is down, and the instance is healthy.                   *)
HealthyAnswers ==
  \A c \in Checks :
    DOMAIN check[c].got = Endpoints /\ AssessHealth(check[c].got) = "healthy" =>
      \A e \in Endpoints : check[c].got[e].ok
===============================================================================
