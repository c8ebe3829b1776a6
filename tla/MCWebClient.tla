----------------------------- MODULE MCWebClient -----------------------------
(* What the web client's sign-in to Matrix, its encryption and its sending      *)
(* promise, and the desktop's panel about an instance, for TLC.  The parts share  *)
(* no state, so a run is about one of them: `part` says which, and the others      *)
(* stay as they begin.                                                          *)
(* Users, tabs, devices, servers and checks are the same model values, and so are  *)
(* requests and runs of the effect: within a part each set may be permuted.        *)
EXTENDS MatrixSession, TLC

CONSTANTS NoUser, Names, NoName, MaxTokens, MaxTroubles, MaxServed, MaxSetups, Texts, NoText, MaxFailures

VARIABLES
  part,
  username, rows, account, minted, req, changes, crossed, claimed,
  crossSigning, device, shown, setups, overlap, cut,
  encrypted, listed, canAuthor, box, text, posted, upload, share, announced, told,
  instance, panelShown, health, checking, check, panelCrossed

Accounts == INSTANCE MatrixAccounts WITH Users <- Tabs, Requests <- Runs
Encryption == INSTANCE EncryptionSetup
              WITH Devices <- Tabs, MaxFaults <- MaxSetups - 1, account <- crossSigning
Sending == INSTANCE Composer WITH MaxFaults <- MaxFailures
Panel == INSTANCE InstancePanel
         WITH Servers <- Tabs, Checks <- Tabs, NoServer <- NoUser, MaxTroubles <- MaxFaults,
              shown <- panelShown, crossed <- panelCrossed, troubles <- faults

ASSUME PartsAssumption ==
  /\ Accounts!MatrixAccountsAssumption
  /\ Encryption!EncryptionSetupAssumption
  /\ Sending!ComposerAssumption
  /\ Panel!InstancePanelAssumption

sessionVars == <<current, run, stored, token, machines, raced>>
accountVars == <<username, rows, account, minted, req, changes, crossed, claimed>>
encryptionVars == <<crossSigning, device, shown, setups, overlap, cut>>
sendingVars == <<encrypted, listed, canAuthor, box, text, posted, upload, share, announced, told>>
panelVars == <<instance, panelShown, health, checking, check, panelCrossed>>
webVars == <<part, faults, sessionVars, accountVars, encryptionVars, sendingVars, panelVars>>

WebInit ==
  /\ part \in {"accounts", "session", "encryption", "sending", "panel"}
  /\ Init /\ Accounts!Init /\ Encryption!Init /\ Sending!Init /\ Panel!Init
  /\ part # "sending" => ~encrypted /\ ~canAuthor
  /\ part # "panel" => \A s \in Tabs : instance[s].app = "down"

WebNext ==
  /\ UNCHANGED part
  /\ \/ part = "session" /\ Next /\ UNCHANGED <<accountVars, encryptionVars, sendingVars, panelVars>>
     \/ part = "accounts" /\ Accounts!Next /\ UNCHANGED <<sessionVars, encryptionVars, sendingVars, panelVars>>
     \/ part = "encryption" /\ Encryption!Next /\ UNCHANGED <<sessionVars, accountVars, sendingVars, panelVars>>
     \/ part = "sending" /\ Sending!Next /\ UNCHANGED <<sessionVars, accountVars, encryptionVars, panelVars>>
     \/ part = "panel" /\ Panel!Next /\ UNCHANGED <<sessionVars, accountVars, encryptionVars, sendingVars>>

WebSpec == WebInit /\ [][WebNext]_webVars

(* Every variable of the part has its type (for whoever changes a part: the run's
   properties would not be defined without it). *)
TypesOK ==
  /\ part = "session" => TypeOK
  /\ part = "accounts" => Accounts!TypeOK
  /\ part = "encryption" => Encryption!TypeOK
  /\ part = "sending" => Sending!TypeOK
  /\ part = "panel" => Panel!TypeOK

(* MatrixAccounts: no user is given another one's Matrix account, whatever ids are  *)
(* written into profiles.                                                        *)
OwnAccount == Accounts!OwnAccount

(* MatrixAccounts: the token saved for a user is one the homeserver accepts,     *)
(* unless two requests of the user provisioned at once.                         *)
StoredTokenWorks == Accounts!StoredTokenWorks

(* MatrixAccounts: a user who has a Matrix id keeps it, but for their own change. *)
IdentityKept == Accounts!IdentityKept

(* EncryptionSetup: a recovery key that was shown opens the secret storage, and a  *)
(* device that restored with a recovery key is ready.                           *)
RecoveryWorks == Encryption!ShownKeyRecovers /\ Encryption!RestoredMeansReady

(* Composer: an encrypted file that is kept has its key in the room. *)
KeyOrRemoved == Sending!KeyOrRemoved

(* InstancePanel: what the panel says is of its instance, and so. *)
PanelIsRight == Panel!PanelIsRight

Symmetry == Permutations(Tabs) \union Permutations(Names) \union Permutations(Runs)
===============================================================================
