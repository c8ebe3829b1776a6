--------------------------- MODULE EncryptionSetup ---------------------------
(*****************************************************************************)
(* Setting up encryption on an account, and restoring it on another device:    *)
(* bootstrapEncryption and recoverWithKey of client/src/lib/matrixCrypto.ts,    *)
(* and the buttons of EncryptionPanel.tsx that offer them.  Each call to the    *)
(* SDK is a step; each can fail, and several devices act at a time.             *)
(*                                                                            *)
(* What the SDK's calls do is modelled from how this code uses them.  A cross-  *)
(* signing identity, a recovery key and a backup version are numbers; the       *)
(* secret storage holds what was put into it under its one default key.         *)
(*****************************************************************************)
EXTENDS Naturals, FiniteSets

CONSTANTS
  Devices,
  MaxSetups,  \* presses of "Set up encryption"
  MaxFaults   \* calls that fail

EncryptionSetupAssumption == {MaxSetups, MaxFaults} \subseteq Nat

Numbers == 0 .. MaxSetups

VARIABLES
  account,  \* the homeserver: identity and backup version in force, secret storage
  device,   \* each device: what it holds, and the call it is in
  shown,    \* the recovery keys a person was shown
  setups, faults,
  overlap,  \* two devices were in a call at a time
  cut       \* a backup was made whose key did not get into the storage

vars == <<account, device, shown, setups, faults, overlap, cut>>

Storage == [key : Numbers, identity : Numbers, backup : Numbers]
Steps == {"idle", "cross", "storage", "export", "backup", "enable",
          "query", "import", "load", "restore"}

\* identity: the private keys held; signed: the identity that signed the device;
\* keys: secretStorageKeys; made: the key this call generated.
Device == [pc : Steps, identity : Numbers, signed : Numbers, keys : SUBSET Numbers,
           active : Numbers, made : Numbers, restored : BOOLEAN]

TypeOK ==
  /\ account \in [identity : Numbers, backup : Numbers, storage : Storage]
  /\ device \in [Devices -> Device]
  /\ shown \subseteq Numbers /\ setups \in Numbers /\ faults \in 0 .. MaxFaults /\ {overlap, cut} \subseteq BOOLEAN

Init ==
  /\ account = [identity |-> 0, backup |-> 0, storage |-> [key |-> 0, identity |-> 0, backup |-> 0]]
  /\ device = [d \in Devices |-> [pc |-> "idle", identity |-> 0, signed |-> 0, keys |-> {},
                                  active |-> 0, made |-> 0, restored |-> FALSE]]
  /\ shown = {} /\ setups = 0 /\ faults = 0 /\ overlap = FALSE /\ cut = FALSE

-------------------------------------------------------------------------------
(* What a device may conclude: describeReadiness over what it asked the SDK. *)

Holds(d) == device[d].identity # 0 /\ device[d].identity = account.identity
Complete(s) == s.key # 0 /\ s.identity = account.identity /\ s.identity # 0 /\ s.backup = account.backup

crossSigningReady(d) == Holds(d)
deviceVerified(d) == account.identity # 0 /\ device[d].signed = account.identity
secretStorageReady == Complete(account.storage)
keyBackupEnabled(d) == device[d].active # 0

Verdict(d) ==
  IF ~crossSigningReady(d) THEN "unset"
  ELSE IF deviceVerified(d) /\ secretStorageReady /\ keyBackupEnabled(d) THEN "ready"
  ELSE "incomplete"

CanOpen(d) == account.storage.key \in device[d].keys \ {0}

Update(d, changes) == device' = [device EXCEPT ![d] = changes]
Goto(d, pc) == Update(d, [device[d] EXCEPT !.pc = pc])
End(d) == Update(d, [device[d] EXCEPT !.pc = "idle", !.made = 0])

Fault == faults < MaxFaults /\ faults' = faults + 1

\* Any call may fail; nothing of what was done before it is undone.
Fails(d) ==
  /\ device[d].pc # "idle" /\ Fault
  /\ End(d)
  /\ UNCHANGED <<account, shown, setups, overlap, cut>>

Begins(d) ==
  /\ device[d].pc = "idle"
  /\ overlap' = (overlap \/ \E e \in Devices : device[e].pc # "idle")

\* The panel offers a set-up where the verdict is "unset".
PressSetUp(d) ==
  /\ Begins(d) /\ Verdict(d) = "unset"
  /\ setups < MaxSetups /\ setups' = setups + 1
  /\ Goto(d, "cross")
  /\ UNCHANGED <<account, shown, faults, cut>>

\* bootstrapCrossSigning: keys that are held or stored are used; otherwise the
\* identity is reset, with the instance completing the password stage.
Cross(d, next) ==
  IF Holds(d) THEN Goto(d, next) /\ UNCHANGED account
  ELSE IF account.storage.identity # 0
  THEN /\ UNCHANGED account
       /\ IF CanOpen(d) /\ account.storage.identity = account.identity
          THEN Update(d, [device[d] EXCEPT !.pc = next, !.identity = account.identity,
                                           !.signed = account.identity])
          ELSE End(d)
  ELSE IF account.storage.key # 0 /\ ~CanOpen(d) THEN End(d) /\ UNCHANGED account
  ELSE LET new == 1 + account.identity
       IN /\ new \in Numbers
          /\ account' = [account EXCEPT !.identity = new,
                                        !.storage.identity = IF CanOpen(d) THEN new ELSE 0]
          /\ Update(d, [device[d] EXCEPT !.pc = next, !.identity = new, !.signed = new])

CrossSign(d) ==
  /\ device[d].pc = "cross"
  /\ Cross(d, "storage")
  /\ UNCHANGED <<shown, setups, faults, overlap, cut>>

\* The identity was published, and the signature of the device was not.
CrossSignCut(d) ==
  /\ device[d].pc = "cross" /\ ~Holds(d) /\ Fault
  /\ account.storage.identity = 0 /\ account.storage.key = 0
  /\ account.identity < MaxSetups
  /\ account' = [account EXCEPT !.identity = @ + 1]
  /\ Update(d, [device[d] EXCEPT !.pc = "idle", !.identity = account.identity + 1, !.made = 0])
  /\ UNCHANGED <<shown, setups, overlap, cut>>

\* bootstrapSecretStorage makes a key only when the account has none ...
MakeKey(d) ==
  /\ device[d].pc = "storage"
  /\ IF account.storage.key # 0 THEN Goto(d, "export") /\ UNCHANGED account
     ELSE /\ account' = [account EXCEPT !.storage = [key |-> setups, identity |-> 0, backup |-> 0]]
          /\ Update(d, [device[d] EXCEPT !.pc = "export", !.keys = @ \cup {setups}, !.made = setups])
  /\ UNCHANGED <<shown, setups, faults, overlap, cut>>

\* ... stores the private keys under it ...
Export(d) ==
  /\ device[d].pc = "export"
  /\ IF account.storage.identity # 0 THEN Goto(d, "backup") /\ UNCHANGED account
     ELSE IF ~CanOpen(d) THEN End(d) /\ UNCHANGED account
     ELSE Goto(d, "backup") /\ account' = [account EXCEPT !.storage.identity = device[d].identity]
  /\ UNCHANGED <<shown, setups, faults, overlap, cut>>

(* Mutant: setupNewKeyBackup is not asked for. *)
BackupSkipped(d) ==
  /\ device[d].pc = "backup" /\ Goto(d, "enable")
  /\ UNCHANGED <<account, shown, setups, faults, overlap, cut>>

\* ... and always makes a new backup, whose key it then stores.
Backup(d) ==
  /\ device[d].pc = "backup" /\ account.backup < MaxSetups
  /\ \E stored \in {CanOpen(d), FALSE} :
       /\ account' = [account EXCEPT !.backup = @ + 1,
                                     !.storage.backup = IF stored THEN account.backup + 1 ELSE @]
       /\ Update(d, [device[d] EXCEPT !.active = account.backup + 1,
                                      !.pc = IF stored THEN "enable" ELSE "idle",
                                      !.made = IF stored THEN @ ELSE 0])
       /\ cut' = (cut \/ ~stored)
       /\ IF stored = CanOpen(d) THEN UNCHANGED faults ELSE Fault
  /\ UNCHANGED <<shown, setups, overlap>>

\* bootstrapEncryption shows a key only if this call generated one.
Enable(d) ==
  /\ device[d].pc = "enable"
  /\ shown' = shown \cup ({device[d].made} \ {0})
  /\ End(d)
  /\ UNCHANGED <<account, setups, faults, overlap, cut>>

-------------------------------------------------------------------------------
(* recoverWithKey *)

\* A key that does not fit the account's storage is refused before anything else.
PressRecover(d) ==
  /\ Begins(d) /\ Verdict(d) # "ready"
  /\ \E key \in shown :
       /\ key = account.storage.key
       /\ Update(d, [device[d] EXCEPT !.pc = "query", !.keys = @ \cup {key}])
  /\ UNCHANGED <<account, shown, setups, faults, cut>>

\* getUserDeviceInfo brings the public identity the private keys must match.
Query(d) ==
  /\ device[d].pc = "query" /\ Goto(d, "import")
  /\ UNCHANGED <<account, shown, setups, faults, overlap, cut>>

Import(d) ==
  /\ device[d].pc = "import" /\ Cross(d, "load")
  /\ UNCHANGED <<shown, setups, faults, overlap, cut>>

\* loadSessionBackupPrivateKeyFromSecretStorage, checkKeyBackupAndEnable: a
\* backup is enabled when its key is the one held.
Load(d) ==
  /\ device[d].pc = "load"
  /\ IF account.storage.backup = 0 THEN End(d)
     ELSE Update(d, [device[d] EXCEPT !.pc = "restore",
                       !.active = IF account.storage.backup = account.backup THEN account.backup ELSE 0])
  /\ UNCHANGED <<account, shown, setups, faults, overlap, cut>>

Restore(d) ==
  /\ device[d].pc = "restore"
  /\ Update(d, [device[d] EXCEPT !.pc = "idle", !.restored = TRUE])
  /\ UNCHANGED <<account, shown, setups, faults, overlap, cut>>

Next ==
  \E d \in Devices :
    \/ PressSetUp(d) \/ CrossSign(d) \/ CrossSignCut(d) \/ MakeKey(d) \/ Export(d) \/ Backup(d) \/ Enable(d)
    \/ PressRecover(d) \/ Query(d) \/ Import(d) \/ Load(d) \/ Restore(d)
    \/ Fails(d)

Spec == Init /\ [][Next]_vars

-------------------------------------------------------------------------------
(* "This is your recovery key. It is shown once." (EncryptionPanel.tsx): while   *)
(* the account keeps that key, it opens a storage that holds the identity and    *)
(* the backup in force, whatever calls failed on whatever device, unless two     *)
(* devices acted at the same time or a new backup's key could not be stored.     *)
ShownKeyRecovers ==
  ~overlap /\ ~cut /\ account.storage.key \in shown /\ (\A d \in Devices : device[d].pc = "idle")
    => Complete(account.storage) /\ account.backup # 0

(* A device that restored with a recovery key needs nothing more: its verdict is *)
(* "ready", unless devices acted at the same time or the account was set up       *)
(* again since (recoverWithKey, describeReadiness).                              *)
RestoredMeansReady ==
  ~overlap /\ ~cut =>
    \A d \in Devices :
      device[d].restored /\ device[d].identity = account.identity /\ device[d].pc = "idle"
        => Verdict(d) = "ready"

(* "Your account has no recovery key. ... Create one." (shared/e2ee.ts:231): a    *)
(* device that is told so can, which the panel allows where the level is "unset". *)
(* It is violated: a set-up that failed once the identity was made leaves the     *)
(* device "incomplete" and so told, and the button is not there.                  *)
ToldToCreate(d) == crossSigningReady(d) /\ deviceVerified(d) /\ ~secretStorageReady

KeyCanBeCreated ==
  \A d \in Devices : device[d].pc = "idle" /\ ToldToCreate(d) => Verdict(d) = "unset"
===============================================================================
