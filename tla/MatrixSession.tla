---------------------------- MODULE MatrixSession ----------------------------
(*****************************************************************************)
(* One browser's own Matrix session (client/src/hooks/useMatrixSession.ts):    *)
(* tabs that share a device id in localStorage and a crypto store in IndexedDB, *)
(* each running the hook's effect, which awaits the instance, the module's      *)
(* import and the client's start, and may be cancelled at any of them.          *)
(*                                                                            *)
(* Devices and tokens are numbered in the order they are made.  The instance's  *)
(* clientSession logs in under the device id it is sent, or a new one, and the   *)
(* homeserver gives that device a new token, which ends the old.                *)
(*****************************************************************************)
EXTENDS Naturals, FiniteSets

CONSTANTS
  Tabs,
  NoRun,
  Runs,      \* runs of the effect, in all tabs together
  MaxFaults  \* lost answers, modules that do not load, clients that do not start

ASSUME MatrixSessionAssumption == IsFiniteSet(Runs) /\ NoRun \notin Runs /\ MaxFaults \in Nat

MaxDevices == Cardinality(Runs)

VARIABLES
  current,  \* the run a tab's mounted hook is in, if any
  run,      \* the runs: where each is, its `cancelled`, and what it was given
  stored,   \* localStorage: the device id, 0 if absent
  token,    \* the homeserver: each device's token, 0 for a device never made
  machines, \* the runs whose crypto machine is open on the store
  faults,
  raced     \* two runs were under way while no device id was stored

vars == <<current, run, stored, token, machines, faults, raced>>

Steps == {"unborn", "info", "mint", "store", "import", "init", "start", "live", "failed", "over"}
UnderWay == {"info", "mint", "store", "import", "init", "start"}

TypeOK ==
  /\ current \in [Tabs -> Runs \cup {NoRun}]
  /\ run \in [Runs -> [pc : Steps, cancelled : BOOLEAN, sent : 0 .. MaxDevices,
                       device : 0 .. MaxDevices, token : 0 .. MaxDevices]]
  /\ stored \in 0 .. MaxDevices /\ token \in [1 .. MaxDevices -> 0 .. MaxDevices]
  /\ machines \subseteq Runs /\ faults \in 0 .. MaxFaults /\ raced \in BOOLEAN

Init ==
  /\ current = [t \in Tabs |-> NoRun]
  /\ run = [e \in Runs |-> [pc |-> "unborn", cancelled |-> FALSE, sent |-> 0, device |-> 0, token |-> 0]]
  /\ stored = 0 /\ token = [d \in 1 .. MaxDevices |-> 0]
  /\ machines = {} /\ faults = 0 /\ raced = FALSE

Fault == faults < MaxFaults /\ faults' = faults + 1
Goto(e, pc) == run' = [run EXCEPT ![e].pc = pc]

\* The catch leaves whatever was started where it is.
Fails(e) ==
  /\ run[e].pc \in UnderWay \ {"store"} /\ Fault
  /\ Goto(e, "failed")
  /\ UNCHANGED <<current, stored, token, machines, raced>>

\* `if (cancelled) return` after each await.
Unless(e, pc) == Goto(e, IF run[e].cancelled THEN "over" ELSE pc)

Mount(t, e) ==
  /\ current[t] = NoRun /\ run[e].pc = "unborn"
  /\ current' = [current EXCEPT ![t] = e]
  /\ Goto(e, "info")
  /\ raced' = (raced \/ (stored = 0 /\ \E f \in Runs : run[f].pc \in UnderWay))
  /\ UNCHANGED <<stored, token, machines, faults>>

\* The device id is read when the instance has answered.
Info(e) ==
  /\ run[e].pc = "info"
  /\ run' = [run EXCEPT ![e].pc = IF run[e].cancelled THEN "over" ELSE "mint", ![e].sent = stored]
  /\ UNCHANGED <<current, stored, token, machines, faults, raced>>

InfoUnavailable(e) ==
  /\ run[e].pc = "info" /\ Goto(e, "over")
  /\ UNCHANGED <<current, stored, token, machines, faults, raced>>

\* clientSession, served whether or not the caller still waits.
NextDevice == 1 + Cardinality({d \in DOMAIN token : token[d] # 0})
NextToken == 1 + Cardinality({e \in Runs : run[e].token # 0})

(* Mutant: the device id sent is not used. *)
MintedDeviceNew(e) == NextDevice

MintedDevice(e) == IF run[e].sent = 0 THEN NextDevice ELSE run[e].sent

Mint(e) ==
  /\ run[e].pc = "mint"
  /\ token' = [token EXCEPT ![MintedDevice(e)] = NextToken]
  /\ \E answered \in BOOLEAN :
       /\ run' = [run EXCEPT ![e].pc = IF answered THEN "store" ELSE "failed",
                             ![e].device = MintedDevice(e), ![e].token = NextToken]
       /\ IF answered THEN UNCHANGED faults ELSE Fault
  /\ UNCHANGED <<current, stored, machines, raced>>

Store(e) ==
  /\ run[e].pc = "store"
  /\ Unless(e, "import")
  /\ stored' = IF run[e].cancelled THEN stored ELSE run[e].device
  /\ UNCHANGED <<current, token, machines, faults, raced>>

Import(e) ==
  /\ run[e].pc = "import" /\ Unless(e, "init")
  /\ UNCHANGED <<current, stored, token, machines, faults, raced>>

\* startCryptoSession: initRustCrypto opens the store, and startClient follows.
InitRustCrypto(e) ==
  /\ run[e].pc = "init"
  /\ machines' = machines \cup {e}
  /\ Goto(e, "start")
  /\ UNCHANGED <<current, stored, token, faults, raced>>

(* Mutant: a run cancelled while its client started leaves it running. *)
StartedUnchecked(e) ==
  /\ run[e].pc = "start" /\ Unless(e, "live")
  /\ UNCHANGED <<current, stored, token, machines, faults, raced>>

Started(e) ==
  /\ run[e].pc = "start" /\ Unless(e, "live")
  /\ machines' = IF run[e].cancelled THEN machines \ {e} ELSE machines
  /\ UNCHANGED <<current, stored, token, faults, raced>>

\* The cleanup stops what this run started, which is nothing before it is live.
Unmount(t) ==
  /\ current[t] # NoRun
  /\ LET e == current[t] IN
       /\ run' = [run EXCEPT ![e].cancelled = TRUE,
                             ![e].pc = IF @ = "live" THEN "over" ELSE @]
       /\ machines' = IF run[e].pc = "live" THEN machines \ {e} ELSE machines
  /\ current' = [current EXCEPT ![t] = NoRun]
  /\ UNCHANGED <<stored, token, faults, raced>>

Step(e) ==
  \/ Info(e) \/ InfoUnavailable(e) \/ Mint(e) \/ Store(e) \/ Import(e)
  \/ InitRustCrypto(e) \/ Started(e) \/ Fails(e)

Next ==
  \/ \E e \in Runs : Step(e) \/ \E t \in Tabs : Mount(t, e)
  \/ \E t \in Tabs : Unmount(t)

Spec == Init /\ [][Next]_vars

-------------------------------------------------------------------------------
(* No crypto machine is left open on the store without a hook that will stop    *)
(* it: when nothing is under way, each machine belongs to a tab that shows it,   *)
(* whenever the effect was cancelled; only a client that failed to start stays   *)
(* (useMatrixSession.ts, the check after startCryptoSession and the cleanup).    *)
NoOrphanMachine ==
  \A e \in machines :
    run[e].pc \in {"start", "failed"} \/ (run[e].pc = "live" /\ \E t \in Tabs : current[t] = e)

(* The browser stays one device of the account, so the keys in its crypto store *)
(* stay its own: the stored id is never replaced once two first runs did not     *)
(* overlap, however runs are cancelled or fail (clientSession's deviceId).       *)
DeviceKept == [][stored # 0 /\ ~raced' => stored' = stored]_vars

(* "True while a sync stream is delivering events." (useMatrixSession.ts:70)     *)
(* It is violated: a second tab, or a second run of the effect, logs in under    *)
(* the same device, which ends the token the first still shows as live.          *)
LiveMeansSyncing ==
  \A e \in Runs : run[e].pc = "live" => token[run[e].device] = run[e].token
===============================================================================
