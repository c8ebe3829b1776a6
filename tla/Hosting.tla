-------------------------------- MODULE Hosting --------------------------------
(*****************************************************************************)
(* A server hosted by the desktop app: the supervisor (desktop/src-tauri/src/  *)
(* hosting.rs, main.rs), the policy that reads its reports (shared/hosting.ts, *)
(* desktop/src/lib/hosting.ts) and who calls it (App.tsx, HostPanel.tsx).      *)
(*                                                                            *)
(* host_start takes one step per component, so that another start, a stop, a   *)
(* quit or the death of a process falls between two.  A process is held (its   *)
(* handle is in HostProcesses) or runs on without a handle.  A secret is the   *)
(* number of the batch it was generated in.  Ports are left out: each start     *)
(* gets free ones or fails.                                                   *)
(*****************************************************************************)
EXTENDS Naturals, FiniteSets, Sequences, SequencesExt

CONSTANTS
  MaxMints,    \* batches of secrets generated
  MaxActs,     \* launches, quits and clicks
  MaxFaults    \* refused ports, failing tools, processes that die, kills of the app

ASSUME HostingBounds ==
  {MaxMints, MaxActs, MaxFaults} \subseteq Nat /\ MaxMints > 0

COMPONENTS == <<"postgres", "matrix", "ipfs", "voice", "app">>
Components == Range(COMPONENTS)
REQUIRED_FOR_CHAT == {"postgres", "matrix", "app"}
Callers == {"launch", "panel", "code"}

\* What host_install leaves on disk, in order; initdb writes PG_VERSION first.
INSTALL_STEPS == <<"version", "cluster", "conf", "key", "repo">>

LegacyName == MaxMints + 1
Names == 1 .. LegacyName

VARIABLES
  keychain,  \* the entry "host": the batch of the password and of the server name, 0 if absent
  mints,
  done,      \* the steps of host_install that are on disk
  baked,     \* the password the cluster was made with
  named,     \* the file matrix-server-name, 0 if there is none
  dendrite,  \* the directory Dendrite makes for itself, below the data directory
  astray,    \* an older install whose Dendrite wrote elsewhere
  ids,       \* the names Matrix ids were minted under
  call,      \* the calls of the front end
  held,      \* HostProcesses
  loose,     \* the components with a running process that nothing holds
  voiceOff,  \* VOICE_OFF_REASON
  shell,     \* the app
  shown,     \* the status the panel shows
  acts, faults,
  tidy       \* no kill, no start over running children, no quit in the middle of a start

disk == <<done, baked, named, dendrite, astray, ids>>
procs == <<held, loose, voiceOff>>
secrets == <<keychain, mints>>
vars == <<secrets, disk, call, procs, shell, shown, acts, faults, tidy>>

ComponentState == {"stopped", "starting", "running", "failed", "off"}
NoRows == [c \in Components |-> "stopped"]
NoCall == [pc |-> "idle", install |-> FALSE, got |-> [password |-> 0, name |-> 0],
           rows |-> NoRows, db |-> FALSE]

Installed == "version" \in done
Alive(c) == held[c] = "alive" \/ c \in loose
Starting(k) == call[k].pc \in Components \cup {"createdbs", "report"}

\* An older install's Dendrite wrote where its template said: below the data directory,
\* or in /var/lib.  Its cluster is in `pg`; the `postgres` the code looks for is never made.
Init ==
  /\ call = [k \in Callers |-> NoCall]
  /\ held = [c \in Components |-> "none"] /\ loose = {} /\ voiceOff = FALSE
  /\ shell = "quit" /\ shown = "absent" /\ acts = 0 /\ faults = 0 /\ tidy = TRUE
  /\ named = 0
  /\ \/ /\ keychain = [password |-> 0, name |-> 0] /\ mints = 0
        /\ done = {} /\ baked = 0 /\ dendrite = FALSE /\ ids = {} /\ astray = FALSE
     \/ /\ keychain = [password |-> 1, name |-> 0] /\ mints = 1
        /\ done = Range(INSTALL_STEPS) /\ baked = 1 /\ ids = {LegacyName}
        /\ dendrite \in BOOLEAN /\ astray = ~dendrite

Act == acts < MaxActs /\ acts' = acts + 1
Fault == faults < MaxFaults /\ faults' = faults + 1
Goto(k, pc) == call' = [call EXCEPT ![k].pc = pc]
End(k) == call' = [call EXCEPT ![k] = NoCall]

-------------------------------------------------------------------------------
(* The app's life, and what the panel lets a person do. *)

\* App's effect on launch: a machine that hosts starts its server with the app.
Launch ==
  /\ shell \in {"quit", "killed"} /\ Act
  /\ shell' = "up" /\ shown' = "absent"
  /\ IF Installed THEN Goto("launch", "secrets") ELSE UNCHANGED call
  /\ UNCHANGED <<secrets, disk, procs, faults, tidy>>

\* The panel is opened: it reads the setup code from the keychain.
OpenPanel ==
  /\ shell = "up" /\ Act /\ call["code"].pc = "idle" /\ shown = "absent"
  /\ Goto("code", "secrets")
  /\ UNCHANGED <<secrets, disk, procs, shell, shown, faults, tidy>>

SetUp ==
  /\ shell = "up" /\ Act /\ call["panel"].pc = "idle" /\ shown = "absent"
  /\ call' = [call EXCEPT !["panel"].pc = "secrets", !["panel"].install = TRUE]
  /\ UNCHANGED <<secrets, disk, procs, shell, shown, faults, tidy>>

PressStart ==
  /\ shell = "up" /\ Act /\ call["panel"].pc = "idle" /\ shown \in {"stopped", "failed"}
  /\ Goto("panel", "secrets")
  /\ UNCHANGED <<secrets, disk, procs, shell, shown, faults, tidy>>

\* Mutant: a component that started after the others is not killed.
StopAllButVoice(pgctl) ==
  /\ held' = [c \in Components |-> "none"]
  /\ loose' = (IF held["postgres"] # "none" /\ pgctl THEN loose \ {"postgres"} ELSE loose)
              \cup {c \in {"voice"} : held[c] = "alive"}
  /\ voiceOff' = FALSE

\* stop_all: what the map holds is killed; the database is stopped through
\* pg_ctl, which finds it by its data directory, held or not.
StopAll(pgctl) ==
  /\ held' = [c \in Components |-> "none"]
  /\ loose' = IF held["postgres"] # "none" /\ pgctl THEN loose \ {"postgres"} ELSE loose
  /\ voiceOff' = FALSE

DatabaseGone == call' = [k \in Callers |-> [call[k] EXCEPT !.db = FALSE]]

PressStop ==
  /\ shell = "up" /\ Act /\ call["panel"].pc = "idle" /\ shown \in {"running", "degraded"}
  /\ \/ StopAll(TRUE) /\ UNCHANGED faults
     \/ StopAll(FALSE) /\ Fault
  /\ shown' = "stopped"
  /\ DatabaseGone
  /\ UNCHANGED <<secrets, disk, shell, tidy>>

\* RunEvent::Exit stops the children; the process ends a moment later.
Quit ==
  /\ shell = "up" /\ Act
  /\ \/ StopAll(TRUE) /\ UNCHANGED faults
     \/ StopAll(FALSE) /\ Fault
  /\ shell' = "closing"
  /\ tidy' = (tidy /\ \A k \in Callers : call[k].pc = "idle")
  /\ DatabaseGone
  /\ UNCHANGED <<secrets, disk, shown>>

Forsake ==
  /\ call' = [k \in Callers |-> NoCall]
  /\ loose' = loose \cup {c \in Components : held[c] = "alive"}
  /\ held' = [c \in Components |-> "none"]
  /\ voiceOff' = FALSE

Exit ==
  /\ shell = "closing" /\ shell' = "quit"
  /\ Forsake
  /\ UNCHANGED <<secrets, disk, shown, acts, faults, tidy>>

Kill ==
  /\ shell = "up" /\ Fault /\ shell' = "killed" /\ tidy' = FALSE
  /\ Forsake
  /\ UNCHANGED <<secrets, disk, shown, acts>>

-------------------------------------------------------------------------------
(* hostSecrets: made once, when the keychain has no entry. *)

ReadSecrets(k) ==
  LET next == IF k = "code" THEN "code" ELSE IF call[k].install THEN "install" ELSE "start" IN
  /\ call[k].pc = "secrets"
  /\ IF keychain.password # 0 /\ keychain.name # 0
       THEN /\ call' = [call EXCEPT ![k].got = keychain, ![k].pc = next]
            /\ UNCHANGED mints
       ELSE /\ mints < MaxMints /\ mints' = mints + 1
            /\ call' = [call EXCEPT ![k].pc = "store",
                 ![k].got = IF keychain.password # 0 THEN [keychain EXCEPT !.name = mints']
                            ELSE [password |-> mints', name |-> mints']]
  /\ UNCHANGED <<keychain, disk, procs, shell, shown, acts, faults, tidy>>

StoreSecrets(k) ==
  /\ call[k].pc = "store"
  /\ keychain' = call[k].got
  /\ Goto(k, IF k = "code" THEN "code" ELSE IF call[k].install THEN "install" ELSE "start")
  /\ UNCHANGED <<mints, disk, procs, shell, shown, acts, faults, tidy>>

ShowCode ==
  /\ call["code"].pc = "code" /\ End("code")
  /\ UNCHANGED <<secrets, disk, procs, shell, shown, acts, faults, tidy>>

-------------------------------------------------------------------------------
(* host_install: an install that finds PG_VERSION is taken for complete. *)

BeginInstall ==
  /\ call["panel"].pc = "install"
  /\ IF Installed THEN call' = [call EXCEPT !["panel"].pc = "secrets", !["panel"].install = FALSE]
     ELSE Goto("panel", "version")
  /\ UNCHANGED <<secrets, disk, procs, shell, shown, acts, faults, tidy>>

InstallStep(i) ==
  LET last == i = Len(INSTALL_STEPS) IN
  /\ call["panel"].pc = INSTALL_STEPS[i]
  /\ done' = done \cup {INSTALL_STEPS[i]}
  /\ baked' = IF INSTALL_STEPS[i] = "cluster" THEN call["panel"].got.password ELSE baked
  /\ call' = [call EXCEPT !["panel"].pc = IF last THEN "secrets" ELSE INSTALL_STEPS[i + 1],
                          !["panel"].install = ~last]
  /\ UNCHANGED <<secrets, named, dendrite, astray, ids, procs, shell, shown, acts, faults, tidy>>

\* A tool fails: the command answers an error.  initdb takes its files with it.
InstallFails(i) ==
  /\ call["panel"].pc = INSTALL_STEPS[i] /\ Fault
  /\ done' = IF INSTALL_STEPS[i] = "cluster" THEN {} ELSE done
  /\ End("panel")
  /\ UNCHANGED <<secrets, baked, named, dendrite, astray, ids, procs, shell, shown, acts, tidy>>

-------------------------------------------------------------------------------
(* host_start *)

\* A command that answers an error: on launch it is shown, the panel keeps what it showed.
Refuse(k) == End(k) /\ shown' = IF k = "launch" THEN "failed" ELSE shown

BeginStart(k) ==
  /\ call[k].pc = "start"
  /\ IF Installed THEN Goto(k, "postgres") /\ UNCHANGED shown ELSE Refuse(k)
  /\ tidy' = (tidy /\ \A c \in Components : ~Alive(c) /\ \A j \in Callers : ~Starting(j))
  /\ UNCHANGED <<secrets, disk, procs, shell, acts, faults>>

\* spawn_logged and the insert into the map: a handle that was there is dropped,
\* and its process is left to itself.
Spawn(c, stays) ==
  /\ held' = [held EXCEPT ![c] = IF stays THEN "alive" ELSE "dead"]
  /\ loose' = IF held[c] = "alive" THEN loose \cup {c} ELSE loose

\* No port, or a tool with `?`: the start is given up, what runs stays.
StartAborts(k) ==
  /\ call[k].pc \in {"postgres", "createdbs", "matrix", "ipfs", "app"} /\ Fault
  /\ Refuse(k)
  /\ UNCHANGED <<secrets, disk, procs, shell, acts, tidy>>

\* A second server on one data directory ends at once.
StartPostgres(k) ==
  LET up == ~Alive("postgres") /\ {"cluster", "conf"} \subseteq done IN
  /\ call[k].pc = "postgres"
  /\ Spawn("postgres", up)
  /\ call' = [call EXCEPT ![k].pc = "createdbs", ![k].db = up]
  /\ UNCHANGED <<secrets, disk, voiceOff, shell, shown, acts, faults, tidy>>

CreateDatabases(k) ==
  /\ call[k].pc = "createdbs"
  /\ IF ~call[k].db
       THEN /\ call' = [call EXCEPT ![k].rows["postgres"] = "failed", ![k].pc = "matrix"]
            /\ UNCHANGED shown
       ELSE IF call[k].got.password # baked THEN Refuse(k)
       ELSE /\ call' = [call EXCEPT ![k].rows["postgres"] = "running", ![k].pc = "matrix"]
            /\ UNCHANGED shown
  /\ UNCHANGED <<secrets, disk, procs, shell, acts, faults, tidy>>

\* Mutant: the name the app proposes is preferred to the one on disk.
ServerNameProposed(k) == IF named = 0 /\ dendrite THEN LegacyName ELSE call[k].got.name

\* matrix_server_name: the file, or the old shared name, or what the app proposes.
ServerName(k) ==
  IF named # 0 THEN named ELSE IF dendrite THEN LegacyName ELSE call[k].got.name

StartMatrix(k) ==
  LET up == call[k].db /\ "key" \in done IN
  /\ call[k].pc = "matrix"
  /\ named' = ServerName(k)
  /\ Spawn("matrix", up)
  /\ dendrite' = (dendrite \/ up)
  /\ ids' = IF up THEN ids \cup {ServerName(k)} ELSE ids
  /\ call' = [call EXCEPT ![k].rows["matrix"] = IF up THEN "running" ELSE "starting", ![k].pc = "ipfs"]
  /\ UNCHANGED <<secrets, done, baked, astray, voiceOff, shell, shown, acts, faults, tidy>>

StartIpfs(k) ==
  /\ call[k].pc = "ipfs"
  /\ IF "repo" \in done
       THEN /\ Spawn("ipfs", ~Alive("ipfs"))
            /\ call' = [call EXCEPT ![k].rows["ipfs"] = "starting", ![k].pc = "voice"]
       ELSE /\ call' = [call EXCEPT ![k].rows["ipfs"] = "failed", ![k].pc = "voice"]
            /\ UNCHANGED <<held, loose>>
  /\ UNCHANGED <<secrets, disk, voiceOff, shell, shown, acts, faults, tidy>>

\* Voice is off with a reason, started, or failed; the app is told of it only when started.
StartVoice(k) ==
  /\ call[k].pc = "voice"
  /\ \/ /\ Spawn("voice", TRUE) /\ voiceOff' = FALSE
        /\ call' = [call EXCEPT ![k].rows["voice"] = "starting", ![k].pc = "app"]
        /\ UNCHANGED faults
     \/ /\ voiceOff' = TRUE
        /\ call' = [call EXCEPT ![k].rows["voice"] = "off", ![k].pc = "app"]
        /\ UNCHANGED <<held, loose, faults>>
     \/ /\ Fault /\ voiceOff' = FALSE
        /\ call' = [call EXCEPT ![k].rows["voice"] = "failed", ![k].pc = "app"]
        /\ UNCHANGED <<held, loose>>
  /\ UNCHANGED <<secrets, disk, shell, shown, acts, tidy>>

\* The app migrates and answers within 90 s, or is still "starting".
StartApp(k) ==
  /\ call[k].pc = "app"
  /\ Spawn("app", call[k].db)
  /\ named' = ServerName(k)
  /\ ids' = IF call[k].db THEN ids \cup {ServerName(k)} ELSE ids
  /\ \E state \in {"running", "starting"} :
       /\ state = "running" => call[k].db
       /\ call' = [call EXCEPT ![k].rows["app"] = state, ![k].pc = "report"]
  /\ UNCHANGED <<secrets, done, baked, dendrite, astray, voiceOff, shell, shown, acts, faults, tidy>>

\* shared/hosting.ts evaluate
Evaluate(rows) ==
  LET Some(s) == {c \in Components : rows[c] = s} IN
  IF Some("failed") \cap REQUIRED_FOR_CHAT # {} THEN "failed"
  ELSE CASE Some("stopped") \cup Some("off") = Components -> "stopped"
         [] Some("starting") # {} /\ rows["app"] # "running" -> "starting"
         [] rows["app"] = "running" /\ Some("failed") # {} -> "degraded"
         [] rows["app"] = "running" /\ Some("failed") = {} -> "running"
         [] OTHER -> "failed"

Report(k) ==
  /\ call[k].pc = "report"
  /\ shown' = Evaluate(call[k].rows)
  /\ End(k)
  /\ UNCHANGED <<secrets, disk, procs, shell, acts, faults, tidy>>

\* A component ends by itself.  Nothing polls host_state, so the panel shows what it showed.
Die(c) ==
  /\ Fault
  /\ \/ /\ held[c] = "alive" /\ held' = [held EXCEPT ![c] = "dead"] /\ UNCHANGED loose
     \/ /\ c \in loose /\ loose' = loose \ {c} /\ UNCHANGED held
  /\ IF c = "postgres" THEN DatabaseGone ELSE UNCHANGED call
  /\ UNCHANGED <<secrets, disk, voiceOff, shell, shown, acts, tidy>>

HostStart(k) ==
  \/ BeginStart(k) \/ StartAborts(k) \/ StartPostgres(k) \/ CreateDatabases(k) \/ StartMatrix(k)
  \/ StartIpfs(k) \/ StartVoice(k) \/ StartApp(k) \/ Report(k)

Next ==
  \/ Launch \/ OpenPanel \/ SetUp \/ PressStart \/ PressStop \/ Quit \/ Exit \/ Kill
  \/ ShowCode \/ BeginInstall
  \/ \E k \in Callers : ReadSecrets(k) \/ StoreSecrets(k) \/ HostStart(k)
  \/ \E i \in 1 .. Len(INSTALL_STEPS) : InstallStep(i) \/ InstallFails(i)
  \/ \E c \in Components : Die(c)

Spec == Init /\ [][Next]_vars

-------------------------------------------------------------------------------
(* Types *)

\* Every variable has the shape the code gives it.
TypeOK ==
  /\ keychain \in [password : 0 .. MaxMints, name : 0 .. MaxMints] /\ mints \in 0 .. MaxMints
  /\ done \subseteq Range(INSTALL_STEPS) /\ baked \in 0 .. MaxMints
  /\ named \in 0 .. LegacyName /\ {dendrite, astray} \subseteq BOOLEAN /\ ids \subseteq Names
  /\ held \in [Components -> {"none", "alive", "dead"}] /\ loose \subseteq Components
  /\ voiceOff \in BOOLEAN /\ tidy \in BOOLEAN
  /\ shell \in {"up", "closing", "quit", "killed"}
  /\ shown \in {"absent", "starting", "running", "degraded", "stopped", "failed"}
  /\ acts \in 0 .. MaxActs /\ faults \in 0 .. MaxFaults
  /\ \A k \in Callers : call[k].rows \in [Components -> ComponentState]

(* Properties *)

\* All the Matrix ids an install mints are minted under one server name, that of an older
\* install among them wherever its Dendrite can be seen (hosting.rs:164-214), though two
\* calls may generate two batches of secrets, starts may overlap, steps fail and the app be
\* killed between any two.
OneNameKept == Cardinality(IF astray THEN ids \ {LegacyName} ELSE ids) <= 1

\* An orderly quit leaves no process of the server behind (main.rs:349-357), unless the
\* app was killed before, a start ran over running children, or one was under way.
QuitLeavesNothing == shell = "quit" /\ tidy => loose = {}

(* What the sources say and the code does not keep: *)

\* "the install predates this fix and keeps `sovrgn.host` - grandfathered rather than
\* silently broken" (hosting.rs:190-192): all the ids of an install are under one name.
OneServerName == Cardinality(ids) <= 1

\* "They are made exactly once" (desktop/src/lib/hosting.ts:109): the password the
\* cluster was made with is the one the keychain holds, once no call is writing it.
PasswordOpensCluster ==
  baked # 0 /\ (\A k \in Callers : call[k].pc # "store") => keychain.password = baked

\* "Quitting the app must stop them" (main.rs:350-352).
QuitStopsEverything == shell = "quit" => loose = {}

\* "An interrupted install can be retried" (hosting.rs:384).
StartedIsComplete == shown \in {"running", "degraded"} => Range(INSTALL_STEPS) \subseteq done

===============================================================================
