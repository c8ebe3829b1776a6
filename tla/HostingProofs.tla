----------------------------- MODULE HostingProofs -----------------------------
(*****************************************************************************)
(* Proofs about Hosting, for any number of secrets, clicks and faults: an       *)
(* install keeps the name its ids are minted under, with the ids of an older    *)
(* install counted where its Dendrite tells of it; a quit leaves nothing.       *)
(*****************************************************************************)
EXTENDS Hosting, FiniteSetTheorems, TLAPS

(* What the proofs need of types: less than TypeOK. *)
Secrets == [password : Nat, name : Nat]
Rows == [Components -> ComponentState]
Pcs == {"idle", "secrets", "store", "code", "install", "version", "cluster", "conf", "key", "repo",
        "start", "postgres", "createdbs", "matrix", "ipfs", "voice", "app", "report"}
Call == [pc : Pcs, install : BOOLEAN, got : Secrets, rows : Rows, db : BOOLEAN]

Typed ==
  /\ keychain \in Secrets /\ mints \in Nat
  /\ named \in Nat /\ call \in [Callers -> Call]
  /\ held \in [Components -> {"none", "alive", "dead"}]

(* A call past its reading of the secrets has a name. *)
GotInv == \A k \in Callers : call[k].pc \notin {"idle", "secrets"} => call[k].got.name # 0

(* The ids the property counts. *)
Counted == IF astray THEN ids \ {LegacyName} ELSE ids

(* Ids were minted under the name on disk, or by the install an older app left, *)
(* whose Dendrite still tells it.                                              *)
NameInv ==
  \/ Counted = {}
  \/ named # 0 /\ Counted \subseteq {named}
  \/ named = 0 /\ dendrite /\ Counted \subseteq {LegacyName}

(* What a start at this step has not come to. *)
NotYet(pc) ==
  CASE pc = "postgres" -> Components
    [] pc \in {"createdbs", "matrix"} -> {"matrix", "ipfs", "voice", "app"}
    [] pc = "ipfs" -> {"ipfs", "voice", "app"}
    [] pc = "voice" -> {"voice", "app"}
    [] pc = "app" -> {"app"}
    [] OTHER -> {}

(* While all is tidy, one start at most is under way, over components that are   *)
(* not running; what runs is held; and nothing runs or is asked for once the app *)
(* is closing.                                                                 *)
TidyInv ==
  tidy =>
    /\ loose = {}
    /\ \A j, k \in Callers : Starting(j) /\ Starting(k) => j = k
    /\ \A k \in Callers : \A c \in NotYet(call[k].pc) : held[c] # "alive"
    /\ shell = "closing" =>
         (\A c \in Components : held[c] # "alive") /\ (\A k \in Callers : call[k].pc = "idle")

LEMMA ComponentsAre == Components = {"postgres", "matrix", "ipfs", "voice", "app"}
  BY DEF Components, COMPONENTS, Range

LEMMA StepsAre ==
  /\ Len(INSTALL_STEPS) = 5 /\ 1 .. Len(INSTALL_STEPS) = {1, 2, 3, 4, 5}
  /\ INSTALL_STEPS[1] = "version" /\ INSTALL_STEPS[2] = "cluster" /\ INSTALL_STEPS[3] = "conf"
  /\ INSTALL_STEPS[4] = "key" /\ INSTALL_STEPS[5] = "repo"
  BY DEF INSTALL_STEPS

LEMMA LegacyNameType == LegacyName \in Nat /\ LegacyName # 0
  BY HostingBounds DEF LegacyName

LEMMA ServerNameType ==
  ASSUME Typed, NEW k \in Callers
  PROVE  ServerName(k) \in Nat /\ (call[k].got.name # 0 => ServerName(k) # 0)
  BY LegacyNameType DEF ServerName, Typed, Call, Secrets

LEMMA NoCallType == NoCall \in Call
  BY DEF NoCall, NoRows, Call, Pcs, Rows, ComponentState, Secrets

(* Every step keeps the types. *)
LEMMA TypedStep ==
  ASSUME Typed, [Next]_vars
  PROVE  Typed'
  <1> USE DEF Typed, Call, Pcs, Callers
  <1>1. ASSUME Launch
        PROVE  Typed'
    BY <1>1 DEF Launch, Act, Goto, secrets, disk, procs
  <1>2. ASSUME OpenPanel
        PROVE  Typed'
    BY <1>2 DEF OpenPanel, Act, Goto, secrets, disk, procs
  <1>3. ASSUME SetUp
        PROVE  Typed'
    BY <1>3 DEF SetUp, Act, secrets, disk, procs
  <1>4. ASSUME PressStart
        PROVE  Typed'
    BY <1>4 DEF PressStart, Act, Goto, secrets, disk, procs
  <1>5. ASSUME PressStop
        PROVE  Typed'
    <2>1. call' \in [Callers -> Call]
      BY <1>5 DEF PressStop, DatabaseGone
    <2>2. held' \in [Components -> {"none", "alive", "dead"}]
      BY <1>5 DEF PressStop, StopAll
    <2> QED
      BY <1>5, <2>1, <2>2 DEF PressStop, secrets, disk
  <1>6. ASSUME Quit
        PROVE  Typed'
    <2>1. call' \in [Callers -> Call]
      BY <1>6 DEF Quit, DatabaseGone
    <2>2. held' \in [Components -> {"none", "alive", "dead"}]
      BY <1>6 DEF Quit, StopAll
    <2> QED
      BY <1>6, <2>1, <2>2 DEF Quit, secrets, disk
  <1>7. ASSUME Exit
        PROVE  Typed'
    BY <1>7, NoCallType DEF Exit, Forsake, secrets, disk, procs
  <1>8. ASSUME Kill
        PROVE  Typed'
    BY <1>8, NoCallType DEF Kill, Fault, Forsake, secrets, disk, procs
  <1>9. ASSUME ShowCode
        PROVE  Typed'
    BY <1>9, NoCallType DEF ShowCode, End, secrets, disk, procs
  <1>10. ASSUME BeginInstall
        PROVE  Typed'
    BY <1>10 DEF BeginInstall, Goto, secrets, disk, procs
  <1>11. ASSUME NEW k \in Callers, ReadSecrets(k)
        PROVE  Typed'
    BY <1>11 DEF Secrets, ReadSecrets, secrets, disk, procs
  <1>12. ASSUME NEW k \in Callers, StoreSecrets(k)
        PROVE  Typed'
    BY <1>12 DEF StoreSecrets, Goto, secrets, disk, procs
  <1>13. ASSUME NEW k \in Callers, BeginStart(k)
        PROVE  Typed'
    BY <1>13, NoCallType DEF BeginStart, Goto, Refuse, End, secrets, disk, procs
  <1>14. ASSUME NEW k \in Callers, StartAborts(k)
        PROVE  Typed'
    BY <1>14, NoCallType DEF StartAborts, Fault, Refuse, End, secrets, disk, procs
  <1>15. ASSUME NEW k \in Callers, StartPostgres(k)
        PROVE  Typed'
    <2> DEFINE up == ~Alive("postgres") /\ {"cluster", "conf"} \subseteq done
    <2>1. up \in BOOLEAN
      OBVIOUS
    <2>2. /\ call' = [call EXCEPT ![k].pc = "createdbs", ![k].db = up]
          /\ held' = [held EXCEPT !["postgres"] = IF up THEN "alive" ELSE "dead"]
          /\ keychain' = keychain /\ mints' = mints /\ named' = named
      BY <1>15 DEF StartPostgres, Spawn, secrets, disk
    <2> HIDE DEF up
    <2>3. call' \in [Callers -> Call]
      BY <2>1, <2>2
    <2>4. held' \in [Components -> {"none", "alive", "dead"}]
      BY <2>2
    <2> QED
      BY <2>2, <2>3, <2>4
  <1>16. ASSUME NEW k \in Callers, CreateDatabases(k)
        PROVE  Typed'
    BY <1>16, NoCallType DEF Rows, ComponentState, CreateDatabases, Refuse, End, secrets, disk, procs
  <1>17. ASSUME NEW k \in Callers, StartMatrix(k)
        PROVE  Typed'
    BY <1>17, ServerNameType DEF Rows, ComponentState, StartMatrix, Spawn, secrets, disk, procs
  <1>18. ASSUME NEW k \in Callers, StartIpfs(k)
        PROVE  Typed'
    BY <1>18 DEF Rows, ComponentState, StartIpfs, Spawn, secrets, disk, procs
  <1>19. ASSUME NEW k \in Callers, StartVoice(k)
        PROVE  Typed'
    BY <1>19 DEF Rows, ComponentState, StartVoice, Spawn, Fault, secrets, disk, procs
  <1>20. ASSUME NEW k \in Callers, StartApp(k)
        PROVE  Typed'
    BY <1>20, ServerNameType DEF Rows, ComponentState, StartApp, Spawn, secrets, disk, procs
  <1>21. ASSUME NEW k \in Callers, Report(k)
        PROVE  Typed'
    BY <1>21, NoCallType DEF Report, End, secrets, disk, procs
  <1>22. ASSUME NEW i \in 1 .. Len(INSTALL_STEPS), InstallStep(i)
        PROVE  Typed'
    <2> DEFINE last == i = Len(INSTALL_STEPS)
               next == IF last THEN "secrets" ELSE INSTALL_STEPS[i + 1]
    <2>1. next \in Pcs
      BY StepsAre
    <2>2. (~last) \in BOOLEAN
      OBVIOUS
    <2>3. /\ call' = [call EXCEPT !["panel"].pc = next, !["panel"].install = ~last]
          /\ keychain' = keychain /\ mints' = mints /\ named' = named /\ held' = held
      BY <1>22 DEF InstallStep, secrets, procs
    <2> DEFINE stop == ~last
               q == [call["panel"] EXCEPT !.pc = next, !.install = stop]
    <2>4. q \in Call
      <3>1. call["panel"] \in Call /\ stop \in BOOLEAN
        BY <2>2 DEF Callers
      <3> HIDE DEF next, stop
      <3> QED
        BY <2>1, <3>1
    <2>5. call' = [call EXCEPT !["panel"] = q]
      BY <2>3
    <2> HIDE DEF q
    <2>6. call' \in [Callers -> Call]
      BY <2>4, <2>5
    <2> QED
      BY <2>3, <2>6
  <1>23. ASSUME NEW i \in 1 .. Len(INSTALL_STEPS), InstallFails(i)
        PROVE  Typed'
    BY <1>23, NoCallType DEF InstallFails, Fault, End, secrets, disk, procs
  <1>24. ASSUME NEW c \in Components, Die(c)
        PROVE  Typed'
    <2>1. CASE c = "postgres"
      <3>1. call' \in [Callers -> Call]
        <4>1. call' = [j \in Callers |-> [call[j] EXCEPT !.db = FALSE]]
          BY <1>24, <2>1 DEF Die, DatabaseGone
        <4> QED
          BY <4>1
      <3>2. held' \in [Components -> {"none", "alive", "dead"}]
        BY <1>24 DEF Die
      <3> QED
        BY <1>24, <3>1, <3>2 DEF Die, secrets, disk
    <2>2. CASE c # "postgres"
      BY <1>24, <2>2 DEF Die, secrets, disk
    <2> QED
      BY <2>1, <2>2
  <1>25. CASE UNCHANGED vars
    BY <1>25 DEF vars, secrets, disk, procs
  <1> QED
    BY <1>1, <1>2, <1>3, <1>4, <1>5, <1>6, <1>7, <1>8, <1>9, <1>10, <1>11, <1>12,
       <1>13, <1>14, <1>15, <1>16, <1>17, <1>18, <1>19, <1>20, <1>21, <1>22,
       <1>23, <1>24, <1>25
       DEF Next, HostStart

(* A call leaves its reading of the secrets with a name, and keeps it. *)
LEMMA GotStep ==
  ASSUME Typed, GotInv, [Next]_vars
  PROVE  GotInv'
  <1> USE StepsAre DEF Typed, Call, Secrets, GotInv, Callers
  <1>1. ASSUME Launch
        PROVE  GotInv'
    BY <1>1 DEF Launch, Act, Goto, secrets, disk, procs
  <1>2. ASSUME OpenPanel
        PROVE  GotInv'
    BY <1>2 DEF OpenPanel, Act, Goto, secrets, disk, procs
  <1>3. ASSUME SetUp
        PROVE  GotInv'
    BY <1>3 DEF SetUp, Act, secrets, disk, procs
  <1>4. ASSUME PressStart
        PROVE  GotInv'
    BY <1>4 DEF PressStart, Act, Goto, secrets, disk, procs
  <1>5. ASSUME PressStop
        PROVE  GotInv'
    BY <1>5 DEF PressStop, Act, Fault, StopAll, DatabaseGone, secrets, disk, procs
  <1>6. ASSUME Quit
        PROVE  GotInv'
    BY <1>6 DEF Quit, Act, Fault, StopAll, DatabaseGone, secrets, disk, procs
  <1>7. ASSUME Exit
        PROVE  GotInv'
    BY <1>7 DEF Exit, Forsake, NoCall, NoRows, secrets, disk, procs
  <1>8. ASSUME Kill
        PROVE  GotInv'
    BY <1>8 DEF Kill, Fault, Forsake, NoCall, NoRows, secrets, disk, procs
  <1>9. ASSUME ShowCode
        PROVE  GotInv'
    BY <1>9 DEF ShowCode, End, NoCall, NoRows, secrets, disk, procs
  <1>10. ASSUME BeginInstall
        PROVE  GotInv'
    BY <1>10 DEF BeginInstall, Goto, secrets, disk, procs
  <1>11. ASSUME NEW k \in Callers, ReadSecrets(k)
        PROVE  GotInv'
    BY <1>11 DEF ReadSecrets, secrets, disk, procs
  <1>12. ASSUME NEW k \in Callers, StoreSecrets(k)
        PROVE  GotInv'
    BY <1>12 DEF StoreSecrets, Goto, secrets, disk, procs
  <1>13. ASSUME NEW k \in Callers, BeginStart(k)
        PROVE  GotInv'
    BY <1>13 DEF BeginStart, Goto, Refuse, End, NoCall, NoRows, secrets, disk, procs
  <1>14. ASSUME NEW k \in Callers, StartAborts(k)
        PROVE  GotInv'
    BY <1>14 DEF StartAborts, Fault, Refuse, End, NoCall, NoRows, secrets, disk, procs
  <1>15. ASSUME NEW k \in Callers, StartPostgres(k)
        PROVE  GotInv'
    BY <1>15 DEF StartPostgres, Spawn, secrets, disk, procs
  <1>16. ASSUME NEW k \in Callers, CreateDatabases(k)
        PROVE  GotInv'
    BY <1>16 DEF CreateDatabases, Refuse, End, NoCall, NoRows, secrets, disk, procs
  <1>17. ASSUME NEW k \in Callers, StartMatrix(k)
        PROVE  GotInv'
    BY <1>17 DEF StartMatrix, Spawn, secrets, disk, procs
  <1>18. ASSUME NEW k \in Callers, StartIpfs(k)
        PROVE  GotInv'
    BY <1>18 DEF StartIpfs, Spawn, secrets, disk, procs
  <1>19. ASSUME NEW k \in Callers, StartVoice(k)
        PROVE  GotInv'
    BY <1>19 DEF StartVoice, Spawn, Fault, secrets, disk, procs
  <1>20. ASSUME NEW k \in Callers, StartApp(k)
        PROVE  GotInv'
    BY <1>20 DEF StartApp, Spawn, secrets, disk, procs
  <1>21. ASSUME NEW k \in Callers, Report(k)
        PROVE  GotInv'
    BY <1>21 DEF Report, End, NoCall, NoRows, secrets, disk, procs
  <1>22. ASSUME NEW i \in 1 .. Len(INSTALL_STEPS), InstallStep(i)
        PROVE  GotInv'
    BY <1>22 DEF InstallStep, secrets, disk, procs
  <1>23. ASSUME NEW i \in 1 .. Len(INSTALL_STEPS), InstallFails(i)
        PROVE  GotInv'
    BY <1>23 DEF InstallFails, Fault, End, NoCall, NoRows, secrets, disk, procs
  <1>24. ASSUME NEW c \in Components, Die(c)
        PROVE  GotInv'
    BY <1>24 DEF Die, Fault, DatabaseGone, secrets, disk, procs
  <1>25. CASE UNCHANGED vars
    BY <1>25 DEF vars, secrets, disk, procs
  <1> QED
    BY <1>1, <1>2, <1>3, <1>4, <1>5, <1>6, <1>7, <1>8, <1>9, <1>10, <1>11, <1>12,
       <1>13, <1>14, <1>15, <1>16, <1>17, <1>18, <1>19, <1>20, <1>21, <1>22,
       <1>23, <1>24, <1>25
       DEF Next, HostStart

(* A start comes to each component in turn; a stop only takes away. *)
LEMMA TidyStep ==
  ASSUME Typed, TidyInv, [Next]_vars
  PROVE  TidyInv'
  <1> USE ComponentsAre, StepsAre DEF Typed, Call, TidyInv, NotYet, Starting, Callers
  <1>1. ASSUME Launch
        PROVE  TidyInv'
    BY <1>1 DEF Launch, Act, Goto, secrets, disk, procs
  <1>2. ASSUME OpenPanel
        PROVE  TidyInv'
    BY <1>2 DEF OpenPanel, Act, Goto, secrets, disk, procs
  <1>3. ASSUME SetUp
        PROVE  TidyInv'
    BY <1>3 DEF SetUp, Act, secrets, disk, procs
  <1>4. ASSUME PressStart
        PROVE  TidyInv'
    BY <1>4 DEF PressStart, Act, Goto, secrets, disk, procs
  <1>5. ASSUME PressStop
        PROVE  TidyInv'
    BY <1>5 DEF PressStop, Act, Fault, StopAll, DatabaseGone, secrets, disk, procs
  <1>6. ASSUME Quit
        PROVE  TidyInv'
    <2> SUFFICES ASSUME tidy'
                 PROVE  TidyInv'
      BY DEF TidyInv
    <2>1. tidy /\ \A k \in Callers : call[k].pc = "idle"
      BY <1>6 DEF Quit
    <2>2. \A k \in Callers : call'[k].pc = "idle"
      BY <1>6, <2>1 DEF Quit, DatabaseGone
    <2>3. \A c \in Components : held'[c] # "alive"
      BY <1>6 DEF Quit, StopAll
    <2>4. loose' = {}
      BY <1>6, <2>1 DEF Quit, StopAll
    <2> QED
      BY <2>2, <2>3, <2>4
  <1>7. ASSUME Exit
        PROVE  TidyInv'
    BY <1>7 DEF Exit, Forsake, NoCall, NoRows, secrets, disk, procs
  <1>8. ASSUME Kill
        PROVE  TidyInv'
    BY <1>8 DEF Kill, Fault, Forsake, NoCall, NoRows, secrets, disk, procs
  <1>9. ASSUME ShowCode
        PROVE  TidyInv'
    BY <1>9 DEF ShowCode, End, NoCall, NoRows, secrets, disk, procs
  <1>10. ASSUME BeginInstall
        PROVE  TidyInv'
    BY <1>10 DEF BeginInstall, Goto, secrets, disk, procs
  <1>11. ASSUME NEW k \in Callers, ReadSecrets(k)
        PROVE  TidyInv'
    BY <1>11 DEF ReadSecrets, secrets, disk, procs
  <1>12. ASSUME NEW k \in Callers, StoreSecrets(k)
        PROVE  TidyInv'
    BY <1>12 DEF StoreSecrets, Goto, secrets, disk, procs
  <1>13. ASSUME NEW k \in Callers, BeginStart(k)
        PROVE  TidyInv'
    <2> SUFFICES ASSUME tidy'
                 PROVE  TidyInv'
      BY DEF TidyInv
    <2>1. tidy /\ (\A c \in Components : ~Alive(c)) /\ (\A j \in Callers : ~Starting(j))
      BY <1>13 DEF BeginStart
    <2>2. \A c \in Components : held[c] # "alive"
      BY <2>1 DEF Alive
    <2>3. \A j \in Callers : j # k => call'[j] = call[j]
      BY <1>13 DEF BeginStart, Goto, Refuse, End
    <2>4. shell # "closing" /\ UNCHANGED <<held, loose, shell>>
      BY <1>13, <2>1 DEF BeginStart, procs
    <2> QED
      BY <2>1, <2>2, <2>3, <2>4
  <1>14. ASSUME NEW k \in Callers, StartAborts(k)
        PROVE  TidyInv'
    BY <1>14 DEF StartAborts, Fault, Refuse, End, NoCall, NoRows, secrets, disk, procs
  <1>15. ASSUME NEW k \in Callers, StartPostgres(k)
        PROVE  TidyInv'
    BY <1>15 DEF StartPostgres, Spawn, secrets, disk, procs
  <1>16. ASSUME NEW k \in Callers, CreateDatabases(k)
        PROVE  TidyInv'
    BY <1>16 DEF CreateDatabases, Refuse, End, NoCall, NoRows, secrets, disk, procs
  <1>17. ASSUME NEW k \in Callers, StartMatrix(k)
        PROVE  TidyInv'
    <2> SUFFICES ASSUME tidy'
                 PROVE  TidyInv'
      BY DEF TidyInv
    <2>1. tidy /\ call[k].pc = "matrix" /\ shell' = shell
      BY <1>17 DEF StartMatrix
    <2>2. \A c \in Components \ {"matrix"} : held'[c] = held[c]
      BY <1>17 DEF StartMatrix, Spawn
    <2>3. loose' = loose
      BY <1>17, <2>1 DEF StartMatrix, Spawn
    <2>4. call'[k].pc = "ipfs" /\ \A j \in Callers : j # k => call'[j] = call[j]
      BY <1>17 DEF StartMatrix
    <2> QED
      BY <2>1, <2>2, <2>3, <2>4
  <1>18. ASSUME NEW k \in Callers, StartIpfs(k)
        PROVE  TidyInv'
    BY <1>18 DEF StartIpfs, Spawn, secrets, disk, procs
  <1>19. ASSUME NEW k \in Callers, StartVoice(k)
        PROVE  TidyInv'
    BY <1>19 DEF StartVoice, Spawn, Fault, secrets, disk, procs
  <1>20. ASSUME NEW k \in Callers, StartApp(k)
        PROVE  TidyInv'
    BY <1>20 DEF StartApp, Spawn, secrets, disk, procs
  <1>21. ASSUME NEW k \in Callers, Report(k)
        PROVE  TidyInv'
    BY <1>21 DEF Report, End, NoCall, NoRows, secrets, disk, procs
  <1>22. ASSUME NEW i \in 1 .. Len(INSTALL_STEPS), InstallStep(i)
        PROVE  TidyInv'
    BY <1>22 DEF InstallStep, secrets, disk, procs
  <1>23. ASSUME NEW i \in 1 .. Len(INSTALL_STEPS), InstallFails(i)
        PROVE  TidyInv'
    BY <1>23 DEF InstallFails, Fault, End, NoCall, NoRows, secrets, disk, procs
  <1>24. ASSUME NEW c \in Components, Die(c)
        PROVE  TidyInv'
    BY <1>24 DEF Die, Fault, DatabaseGone, secrets, disk, procs
  <1>25. CASE UNCHANGED vars
    BY <1>25 DEF vars, secrets, disk, procs
  <1> QED
    BY <1>1, <1>2, <1>3, <1>4, <1>5, <1>6, <1>7, <1>8, <1>9, <1>10, <1>11, <1>12,
       <1>13, <1>14, <1>15, <1>16, <1>17, <1>18, <1>19, <1>20, <1>21, <1>22,
       <1>23, <1>24, <1>25
       DEF Next, HostStart

(* The two steps that name the server agree with whatever named it before. *)
LEMMA NameStep ==
  ASSUME Typed, GotInv, NameInv, [Next]_vars
  PROVE  NameInv'
  <1>1. ASSUME NEW k \in Callers, StartMatrix(k)
        PROVE  NameInv'
    <2>1. ServerName(k) # 0
      BY <1>1, ServerNameType DEF StartMatrix, GotInv
    <2>2. named' = ServerName(k) /\ (ids' = ids \/ ids' = ids \cup {ServerName(k)})
      BY <1>1 DEF StartMatrix
    <2>3. Counted \subseteq {ServerName(k)} /\ astray' = astray
      BY <1>1 DEF NameInv, ServerName, StartMatrix
    <2>4. Counted' \subseteq {named'} /\ named' # 0
      BY <2>1, <2>2, <2>3 DEF Counted
    <2> QED
      BY <2>4 DEF NameInv
  <1>2. ASSUME NEW k \in Callers, StartApp(k)
        PROVE  NameInv'
    <2>1. ServerName(k) # 0
      BY <1>2, ServerNameType DEF StartApp, GotInv
    <2>2. named' = ServerName(k) /\ (ids' = ids \/ ids' = ids \cup {ServerName(k)})
      BY <1>2 DEF StartApp
    <2>3. Counted \subseteq {ServerName(k)} /\ astray' = astray
      BY <1>2 DEF NameInv, ServerName, StartApp
    <2>4. Counted' \subseteq {named'} /\ named' # 0
      BY <2>1, <2>2, <2>3 DEF Counted
    <2> QED
      BY <2>4 DEF NameInv
  <1>3. CASE UNCHANGED <<named, dendrite, astray, ids>>
    BY <1>3 DEF NameInv, Counted
  <1>4. CASE UNCHANGED vars
    BY <1>3, <1>4 DEF vars, disk
  <1> QED
    BY <1>1, <1>2, <1>3, <1>4
       DEF Next, HostStart, Launch, OpenPanel, SetUp, PressStart, PressStop, Quit, Exit, Kill,
           ShowCode, BeginInstall, ReadSecrets, StoreSecrets, BeginStart, StartAborts,
           StartPostgres, CreateDatabases, StartIpfs, StartVoice, Report, InstallStep,
           InstallFails, Die, disk

IndInv == Typed /\ GotInv /\ TidyInv

LEMMA InitHolds == Init => IndInv
  <1> SUFFICES ASSUME Init
               PROVE  IndInv
    OBVIOUS
  <1>1. Typed
    BY NoCallType, LegacyNameType DEF Init, Typed, Secrets
  <1>2. \A k \in Callers : call[k].pc = "idle"
    BY DEF Init, NoCall
  <1>3. GotInv
    BY <1>2 DEF GotInv
  <1>4. \A k \in Callers : NotYet(call[k].pc) = {} /\ ~Starting(k)
    BY <1>2, ComponentsAre DEF NotYet, Starting
  <1>5. TidyInv
    BY <1>2, <1>4 DEF Init, TidyInv
  <1> QED
    BY <1>1, <1>3, <1>5 DEF IndInv

(* The inductive invariant holds for any number of secrets, clicks and faults. *)
THEOREM IndInvHolds == Spec => []IndInv
  <1>1. IndInv /\ [Next]_vars => IndInv'
    BY TypedStep, GotStep, TidyStep DEF IndInv
  <1> QED
    BY InitHolds, <1>1, PTL DEF Spec

(* Every id an install mints is under one server name, however starts overlap,     *)
(* secrets are generated twice and the app is killed, the ids an older install had   *)
(* included where its Dendrite tells of it (hosting.rs, matrix_server_name).        *)
THEOREM OneNameKeptHolds == Spec => []OneNameKept
  <1>1. NameInv => OneNameKept
    <2>1. ASSUME Counted = {}
          PROVE  Cardinality(Counted) <= 1
      BY <2>1, FS_EmptySet
    <2>2. ASSUME NEW n, Counted = {n}
          PROVE  Cardinality(Counted) <= 1
      <3>1. Cardinality({n}) = 1
        BY FS_Singleton
      <3> QED
        BY <2>2, <3>1
    <2>3. ASSUME NameInv
          PROVE  Counted = {} \/ \E n : Counted = {n}
      BY <2>3 DEF NameInv
    <2> QED
      BY <2>1, <2>2, <2>3 DEF OneNameKept, Counted
  <1>2. Init => NameInv
    BY DEF Init, NameInv, Counted
  <1>3. IndInv /\ NameInv /\ [Next]_vars => NameInv'
    BY NameStep DEF IndInv
  <1> QED
    BY IndInvHolds, <1>1, <1>2, <1>3, PTL DEF Spec

(* An orderly quit leaves no process of the server (main.rs, RunEvent::Exit). *)
THEOREM QuitLeavesNothingHolds == Spec => []QuitLeavesNothing
  <1>1. IndInv => QuitLeavesNothing
    BY DEF IndInv, TidyInv, QuitLeavesNothing
  <1> QED
    BY IndInvHolds, <1>1, PTL
================================================================================
