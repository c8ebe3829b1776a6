# SOVRGNnet in TLA+

A SOVRGNnet *instance* keeps its own accounts, communities and an index of the
messages in its Matrix rooms; a separate *identity service* signs people in
across instances; a web client talks to an instance and, with its own Matrix
session, to the homeserver; a desktop app shows several instances and can host
one. This directory holds TLA+ models of the parts whose correctness depends on
what runs beside what, TLC runs over small instances of them, and TLAPS proofs
for every instance.

Paths below are relative to the repository. Quotations of the code are from its
comments or docs.

## How the code is read

The services are Node processes over PostgreSQL, the clients are React pages, the
desktop shell is a Tauri program in Rust. A handler or an effect in TypeScript runs
without interruption between two `await`s, and nothing else orders it against
another handler, another delivery of the same call, or another process; a shell
command runs on a thread of its own and is ordered by the mutexes it takes. There
is one multi-statement transaction in the modelled code,
`createUserUnderBootstrapLock`. So in every module:

* a request is a record (`req`, `poll`, `ballot`, `handler`, `call`, `run`, `job`)
  with a program counter; each awaited SQL statement, HTTP call or SDK call is one
  atomic step, and what was read before an `await` stays in the record;
* several request slots interleave freely, so a race is an ordinary behaviour;
* a request can end between any two steps, by an error, a refusal of the database
  or a restart, and leaves what it wrote; where the code catches, it goes on;
* a request refused before its first write changes nothing, so the refusal is
  the absence of the action, unless a property is about the refusal;
* texts, names, emails, hashes and signatures are abstracted to what the
  properties tell apart.

## Inventory

Each component with its state, its operations, what is hard and what makes it
correct. `PROJECT.json` lists the hazards of each at their lines.

### The server of an instance

**Message index of a channel** (`MessageIndex`, `Reactions`; `server/routers.ts`
messages and channels, `server/appservice.ts`, `server/db.ts`).
*State*: the room's timeline and the homeserver's transaction queue, the rows
of `messages` with their `reactions` column, the channel's row with its `encrypted`
flag. *Operations*: send, edit, delete, react, create channel, enable encryption; the
appservice handler with its ingest of texts, ciphertexts, edits, redactions and
encryption events. *Interaction*: every API call writes to the homeserver and to the
database, and the homeserver pushes each event back to the second writer. *Hard*:
two writers, the flag read before and used after awaits, swallowed errors, retried
and overlapping transactions, a JSON column read and written back. *Correct when*
the flag is honest and not lost, the index blind to what was encrypted, nothing
acknowledged is lost silently, the API lets nobody edit another's words, a toggle that
overlapped with no other stands, and the queue drains.

**Membership, roles, bans, invites** (`Membership`; `server/permissions.ts`,
`server/routers.ts` servers and moderation, `server/matrixBridge.ts`).
*State*: `serverMembers` (no unique key: a set of roles per user), `serverBans`,
the invite code, the Matrix Space. *Operations*: create, join, joinByInvite,
leave, createInvite, setRole, kick, ban, unban. *Hard*: rank and ban checks that
are stale by the write, creation in five separate steps. *Correct when* the owner
is untouchable, only the owner makes admins, a rank does not survive a removal,
and a ban keeps people out.

**Matrix rooms of a community** (`Rooms`; the same routers, `matrixBridge.ts`,
`matrixService.ts`). *State*: who is inside the Space and each channel's room, the
power levels of each. *Operations*: channels.create, join, leave, setRole, kick, ban,
each mirrored room by room with the actor's token. *Hard*: a level is set by reading
an event, changing one user and writing it all back; a call that fails is passed
over. *Correct when* a level follows the role wherever nothing kept it from being
written.

**File shares** (`FileShares`; `server/fileRoutes.ts`, `server/ipfsService.ts`).
*State*: the rows of `fileShares`, the pins of the IPFS node. *Operations*:
upload, abandon, download, garbage collection. *Hard*: the count of a CID's
shares and the unpin are two steps; a download walks a list while membership
changes. *Correct when* shared bytes stay, and no entitled member is refused.

**Accounts and settings of an instance** (`InstanceAccounts`; `server/routers.ts`
auth and admin, `server/db.ts`, `server/instance.ts`).
*State*: `users` (role, ssoSubject), the saved join policy. *Operations*:
register, ssoRegister, linkSso, setUserRole, updateSettings. *Hard*: who is first,
policies read before the insert and unreadable settings, stale sessions'
accounts. *Correct when* there is one bootstrap, admins are made by admins,
accounts are admitted by a policy in force.

**Matrix accounts, devices and tokens** (`MatrixAccounts`; `server/matrixBridge.ts`,
`server/matrixService.ts`, matrix and changeUsername in `server/routers.ts`).
*State*: `userProfiles` (Matrix id and token), the homeserver's accounts and logins.
*Operations*: the first request that needs credentials, renames, `profile.update` with the
Matrix id its caller sends, a device's own session, signing a device out. *Hard*: two first
requests both register or log in; a username freed and taken by another; an id in the
profile that its user never made. *Correct when* nobody is provisioned with another's
account, the saved token works, and nobody but the user moves the stored id.

**Public surface and conformance suites** (`Discovery`, `SurfaceConformance`;
`server/instanceRoutes.ts`, `server/matrixPublic.ts`, `shared/conformance*.ts`,
`scripts/conformance*.ts`). *State*: the environment's settings, a cached verdict on
whether the homeserver can be reached from outside, the probes under way. *Operations*:
the descriptor, health, readiness, delegation, the suites' walks. *Hard*: six answers
made at different times must agree; handlers are told apart by which guard comes first.
*Correct when* a settled instance conforms and a walk is refused as the suite expects.

### The identity service

**Account recovery and sessions** (`AccountRecovery`; `identity/src/routes.ts`).
*State*: recovery codes and reset links, the history of passwords, sessions.
*Operations*: login, logout, regenerate, recover, reset/request, reset/complete.
*Hard*: all of them beside each other, each in several statements. *Correct when* a
code or link is spent once, and what a reset or a regeneration says is gone is gone.

**Provider sign-in and hub handoff** (`ProviderSignIn`; the same file, OAuth and hub
routes). *State*: accounts, provider identities, one-shot states and handoff codes,
cookies. *Operations*: start, callback, link, sign up, hub start, handoff, complete,
sign-out. *Hard*: an account and its identity are inserted apart; addresses change
hands; neither a state nor a code is tied to a browser. *Correct when* every session and
every linking of an account stands on somebody who can sign in to it.

**Server tokens, grants, keys** (`ServerTokens`; `identity/src/routes.ts` authorize and
token, `server/sso.ts`, `client/src/pages/SsoCallback.tsx`). *State*: grants, signing keys, each
server's cache of them, the shared refresh. *Operations*: authorize, token, revoke,
rotate, verify. *Hard*: revocation beside a first visit; outages; rotation. *Correct
when* revocation holds and an outage of the identity service is harmless to a server
whose keys are in force.

**Desktop sign-in by device code** (`SignInGrant`, `DeviceAuthorization`;
`identity/src/routes.ts` device routes, `shared/deviceFlow.ts`,
`desktop/src/components/SignIn.tsx`). *State*: the code's row, the polls and answers
being served, the app's loop. *Hard*: repeated polls, competing answers, expiry, lost
connections, cancellation. *Correct when* one code becomes at most one session, of the
account whose approval stands, and the app stops polling, given that each poll's handler
ends.

### The clients

**Web client's Matrix session and encryption** (`MatrixSession`, `EncryptionSetup`,
`ChannelView`; `client/src/hooks/useMatrixSession.ts`, `client/src/lib/matrixCrypto.ts`,
`EncryptionPanel.tsx`, `Dashboard.tsx`). *State*: device id and crypto store of the browser, tokens
and machines; cross-signing identity, secret storage and backup of the account; the
fetched rows and the client's decryptions. *Hard*: an effect cancelled at any await,
tabs that share a device, several SDK calls that each may fail, two streams of one
event. *Correct when* no machine runs without an owner, a tab's device is kept, a
recovery key that was shown opens what it should, and the newest rows of the index are shown.

**Pages of the web client** (`Dashboard`, `Composer`, `Arrival`; `client/src/pages/`,
`client/src/components/MemberList.tsx`). *State*: the caches of communities, channels,
ranks and messages, the selection, the composing box, a pending invite code.
*Hard*: answers that arrive after the user has turned elsewhere, offers made on old
caches, fallbacks from one way of sending to another. *Correct when* the messages shown are
of the community shown, an offer on a true picture is accepted, a file that is kept has its
key in the room, an invitation survives the sign-in.

**Desktop shell and bundled server** (`Hosting`, `Frame`, `InstancePanel`;
`desktop/src-tauri/src/`, `desktop/src/`, `shared/connections.ts`, `shared/hosting.ts`,
`shared/instanceHealth.ts`). *State*: the hosted processes and the secrets and server name they were
started with; the remembered servers and their webviews; the last check of an instance.
*Hard*: a stop, a quit or a death between two steps of a start; commands on several
threads; a check that ends after the panel has turned away. *Correct when* one server
keeps the name it minted ids under, quitting leaves no process, servers are remembered once, and the panel
speaks the truth of the instance it is open for.

### Not modelled

* Presence and typing (`server/presence.ts`): in-memory timers, every operation
  synchronous with one writer; its unit tests reach what can happen.
* Voice tokens: stateless signing of a request.
* Rate limits and mail of the identity service: fixed windows in memory, I/O.
* Backup, restore and operation scripts: shell over files, one operator at a time.
* End-to-end journeys (`scripts/e2e-*.ts`): tests of a deployment, without state of
  the system's own.
* Pure helpers (protocol versions, usernames, deep links, markdown): functions over
  strings with table-driven tests; where a module needs one it is modelled by what it does.
* Cryptography: tokens verify or they do not, ciphertext opens to whom has the key.

Left out of the components that are partly modelled: `verify-email` and the
registration form of the identity service; profile edits of an instance; in the web client layout,
search, voice, settings dialogs, the ciphers of attachments and the verification of other
people's devices; in the desktop app the updater and the window's chrome. matrix-js-sdk,
the homeserver, the IPFS node and the providers are external: they are modelled from how the
code uses them, and marked so in the map.

## The modules

| Module | State and actions, in the code |
|---|---|
| `MessageIndex` | `SendCheck`/`SendPost`/`SendRecord` are the awaits of `messages.send`, likewise `Edit*`, `Delete*`, `Enable*`, `Create*`. `SendTxn`/`ResendTxn` is the homeserver, `StartHandler`/`Ingest`/`Ack` the PUT handler, `Miss` the catch of `ingestTransaction`, `Restart` loses requests and handlers. `missed`, `gone`, `removed` are histories. |
| `Reactions` | The handler's read, `toggleMessageReaction`'s own read and write of the JSON column, then the annotation. `meant` is what the last toggles intended, `doubt` who overlapped. |
| `Membership` | `Create*` are the steps of `servers.create`; `Join*` and `Invite*` of joining and of `createInvite`; `AuthorityActor`/`AuthorityTarget` the two reads of `requireAuthorityOver`, followed by the writes of setRole, kick and ban. `space` is the person's state in the Matrix Space. |
| `Rooms` | Each mirrored handler as its database write and then one call per room: invite, join, kick, ban, leave, or the read and the write of the power levels. `adrift` remembers which level something known kept from being written. |
| `FileShares` | `Upload`/`AddFile`/`CreateFileShare`; `DeleteOwnFileShare`/`CidStillShared`/`UnpinFile`; `GetFileSharesByCid`/`TryShare`/`Refuse`. `entitled` is a history. |
| `InstanceAccounts` | `CreateUserUnderBootstrapLock` is the locked transaction, one step; `Sso*`, `Link*`, `SetUserRole`/`WriteUserRole`, `SaveRead`/`SaveSettings` the other handlers. `inForce` and `boots` are histories. |
| `MatrixAccounts` | `Read`/`Register`/`Login`/`Select`/`Update`/`Insert` are `ensureMatrixCredentials`; renames, client sessions, sign-outs and `profile.update` run beside them. A token is the number of the login that made it, `of` the account it was made on. `crossed` is who provisioned twice at once, `claimed` who sent an id to `profile.update`. |
| `Discovery` | One action per answer of the suite's walk; `probe` is the timer's and the answer's refresh of the verdict, which expires. |
| `SurfaceConformance` | `Walk` is the suite's list of checks, and the answer to each the guards of its handler in their order. |
| `AccountRecovery` | `Present`/`Claim`/`SetPassword`/`DeleteSessions` serve both a code and a link; passwords are numbered by the changes; `proved` and `begun` of a session are the passwords it was checked against and begun under. |
| `ProviderSignIn` | `Start`, `Callback`, `Profile`, `Link`, `ByIdentity`, `ByEmail` and so on are the callback statement by statement; hub handoff likewise. Any browser delivers a state, with the provider's answer about anybody, or a code. The owner of an account is who made it; `as` of a session is the person it stands on. |
| `ServerTokens` | `ReadGrant`/`Issue` at the identity service, `Revoke`, `Rotate`, `DropRetired`; `Ask`/`IssuerAnswers`/`Refreshed` the shared refresh of `JwksCache`; a visit is verified twice. |
| `SignInGrant` | The promise: one decision at a time, at most one session. No code of its own. |
| `DeviceAuthorization` | The token handler statement by statement (`ReadRow` to `MintSession`), the approve handler (`ReadCode`, `WriteAnswer`), the loop (`SendPoll`, `Interpret`, `GiveUp`). The decision of `SignInGrant` is read off the row and the claimant. |
| `MatrixSession` | A run of the hook's effect: `Info`, `Mint`, `Store`, `Import`, `InitRustCrypto`, `Started`, with `Unmount` the cleanup that cancels it. |
| `EncryptionSetup` | `CrossSign`, `MakeKey`, `Export`, ... are the SDK's calls in `bootstrapEncryption` and `recoverWithKey`; the buttons are guarded by the verdict the panel shows. |
| `ChannelView` | `Poll`/`Serve`/`Show` the query for the newest `Limit` rows, `Hear`/`Attempt`/`KeyArrives` the client's own stream and its decryptions. |
| `Composer` | `handleSend` and `uploadFile` step by step, both ways of sending, the abandon of a failed upload. |
| `Dashboard` | The caches and when each is read; `Press` a change the page offers, `Serve` the server's answer, `Answer*` what the page does with it, `SettleListed` the two effects on the selection. |
| `Arrival` | The pages between an invitation link and the dashboard, with the code that waits in `sessionStorage`. |
| `Hosting` | `host_start` component by component; stop, quit, kill, a death and the supervisor's loop; secrets numbered by the batch they were generated in. `astray` is an older install whose Dendrite wrote outside the data directory. |
| `Frame` | The launch effect, refreshes, `connect`, and the shell's `show_server`/`hide_servers` as threads. |
| `InstancePanel` | A check's three answers, `AssessHealth`, opening and closing of the panel. |
| `MC*` | What TLC needs beside them: compositions and symmetry (next section). |
| `MessageIndexProofs`, `MembershipProofs`, `InstanceAccountsProofs` | The theorems about all parts of `MCMessageIndex`, `MCCommunity` and `MCInstance`. |
| `MatrixSessionProofs`, `HostingProofs` | The theorems about the module each is named after. |
| `DesktopProofs`, `LivenessProofs`, `WebClientProofs` | The theorems about the other parts of `MCDesktop`, the device sign-in of `MCLiveness` and the other parts of `MCWebClient`. |

Environment, not code of this repository: the homeserver's timeline and
transaction queue (`NextEvent`, `SendTxn`, `ResendTxn`), its accounts and rooms, the
members' own Matrix clients (`ClientPosts`), the IPFS node's garbage collector
(`CollectGarbage`), the network that repeats a request (`RepeatPoll`), the providers
(`Profiles`), matrix-js-sdk.

A comment *Mutant:* (or *Mutants:*) stands before an operator that is the definition right after it,
changed the way a plausible bug would change it. It is used by no module: `PROJECT.json`
pairs it with the property that must then fail.

## The runs

Several modules of one run share no state: a run is about one of them, chosen by
`part` in the initial state and never changed, and the variables of the others hold
`"off"` or their first value. Every behaviour of every part is a behaviour of the run, no
two are interleaved, and the run's states are the sum of the parts' and not their
product. Constant sets of model values that have no meaning across parts (slots of
requests, people, tabs) are shared, so that one symmetry set serves all.

| Run | Parts and their instances | Shows |
|---|---|---|
| `message_index` | *messages*: 2 people, 1 request, 2 deliveries, 3 events, 1 fault; *files*: 2 people, 2 channels, 2 CIDs, 2 requests, 2 uploads; *reactions*: 2 people, 2 emojis, 2 requests, 3 toggles, 1 fault | `EditsByAuthor`, `HonestLock`, `ContentBlind`, `NoSilentLoss`, `EncryptionNotLost`; `FreshBytesKept`, `RefusedWereNotEntitled`; `ReactionsStand` |
| `community` | *ranks*: owner and two users, 1 request at a time; *crowd*: the same after the community is made, 3 requests about one of them; *rooms*: three users, a Space and two channels, 2 requests, 1 fault; *dashboard*: 2 communities, 3 channels, 1 change by others, 2 presses; *arrival*: 2 links, 2 troubles | `OwnerSafe`, `AdminsByOwner`, `BanIsFinal`, `ReturnsAsMember`; `LevelsFollow`; `ShownIsOfServer`, `OfferedIsAccepted`; `InviteFollowed` |
| `instance` | *accounts*: 2 identities, 2 requests, 3 accounts, 1 failing read; *public*: 1 change, all configurations; *surface*: 1 trouble, all instances | `AdminsGranted`, `AdmittedByPolicy`; `HonestInstanceConforms`; `WalksThrough` |
| `desktop` | *hosting*: 2 batches of secrets, 4 acts, 1 fault, every older install; *frame*: 2 servers, 3 addresses, 2 commands at once; *recovery*: 2 requests, 2 batches of one code, 2 links, 2 sessions; *provider*: 2 people, 2 addresses, 2 attempts, 1 code; *tokens*: 2 visits, 2 keys | `OneNameKept`, `QuitLeavesNothing`; `RememberedOnce`; `SpentOnce`, `OldAccessEnds`; `ProvenOnly`; `RevocationHolds`, `OutageHarmless` |
| `web_client` | *accounts*: 2 users, 3 names, 2 tokens, 3 requests, 2 at a time, 2 renames, sent ids and lost answers together; *session*: 2 tabs, 3 runs; *encryption*: 2 devices, 3 set-ups, 2 faults; *sending*: 2 texts, a file, 3 failures; *panel*: 2 servers, 1 trouble | `OwnAccount`, `StoredTokenWorks`, `IdentityKept`; `NoOrphanMachine`, `DeviceKept`; `RecoveryWorks`; `KeyOrRemoved`; `PanelIsRight` |
| `liveness` | *index*: 1 person, 1 request, 2 deliveries, 2 events, 1 fault; *device*: 2 accounts, 2 polls, 2 answers; *view*: 2 messages, 1 row a query; each with its fairness | `QueueDrains`; the refinement `SingleUse`, `StopsPolling`; `FallbackShows` |

A property of a composed run is that of its part's module, under the name of the part
where it is not the module the run extends. Each module's `TypeOK` (and a composition's
`TypesOK`) is for whoever changes a bound or an action; a wrong type would also leave the run's
properties undefined. Deadlock checking is off: the bounds on events, faults, uploads and
presses stop every model, and where the code stops (an idle service) is no error.

*Why the bounds are enough.* A race needs the request and what interferes with
it: two slots, three where a check, a removal and a return meet
(*crowd*: what the three do is about one user, by that user or the owner). Three events are a message, the event that turns encryption on
or edits it, and one more; two overlapping deliveries are what a retry makes.
One fault suffices to separate each pair of statements. Two files, channels,
servers or identities are the fewest that can be mistaken for each other, and one row a query is the least that leaves another out; a third
channel, name or address is what one of them moves to. Three accounts are the first,
one that can be promoted and one that comes late; three runs of an effect are one in each
of two tabs and one that follows. Where a run's properties need a past (roles, memberships,
ranks, remembered servers), the initial states hold the pasts the operations can make
rather than the bounds being raised until they do: `Rooms` begins with members of any
role and their levels and with banned people (one of two starts that swap the two who do not
own the community), `Dashboard` with any ranks (an owner's community starts in plain text), `Frame` with an app used before. Every
property is also checked to fail when one definition is changed the way a plausible bug
would change it.

*Fairness.* `MessageIndex`: the homeserver keeps sending its oldest transaction,
an acknowledged one is followed by the next, and a handler that runs ends
(`server/appservice.ts` catches every event's error); requests get none, they may
hang. `DeviceAuthorization`: a handler of the service ends, by an answer or an
error, the app's loop and its clock go on; nobody need ever answer the code, and
polls may fail every time. That a handler ends is assumed of the service and the network:
the loop's `fetch` has no timeout (`SignIn.tsx:139`), and an answer that never comes would hold
the loop past its deadline, so `StopsPolling` says nothing of it. `ChannelView`: the homeserver brings each event to the ingest and,
while the session is live, to the stream; the query's timer fires while it is set, and a fetch is
answered and rendered; keys need never arrive, and the session may start and end at will:
`FallbackShows` is about what happens once it has ended for good.

## Disagreements between documentation and code

Six runs end in a counterexample:

* `message_index_plaintext_after`: `messages.send` reads `channel.encrypted` and then
  awaits; plaintext can follow the encryption event in the room, although "the
  API refuses to send plaintext into such a room" (`drizzle/schema.ts`).
* `membership_banned_member`: a join that has passed the ban check inserts its row
  after the ban is recorded. `BanIsFinal` is what does hold: once nothing is in
  flight, the ban keeps.
* `account_recovery_old_password`: a login that has checked the old password begins
  its session after a reset has deleted all sessions. `EarlierSessionsGone` is
  what holds.
* `instance_accounts_no_admin`: two administrators demote each other at once;
  "every instance keeps ... at least one local administrator".
* `hosting_two_names`: "if there is no name file but there *is* an existing database, the
  install predates this fix and keeps `sovrgn.host`" (`hosting.rs:190-192`), but the code looks
  for `dendrite` and `postgres` in the data directory, where an older Dendrite did not always
  write (`hosting.rs:518-527`) and the cluster is called `pg`. `OneNameKept` is what holds.
* `composer_message_lost`: a text whose encrypted attempt failed goes to the API, whose
  failure only shows an error: "the message must not be lost to an architectural
  preference" (`client/src/pages/Dashboard.tsx:631`).

The modules state more sentences of the documentation that the code does not
keep. TLC refutes each when it is put in the place of the properties of a
configuration of its module, within the bounds of the run that has it as a part
unless the text says otherwise:

* `MessageIndex!SecondWriterIsNoOp`: `createMessage` fails when the ingest came
  first (`server/db.ts:635` against its comment at 845).
* `MessageIndex!DeletedStaysDeleted`: an ingest after `messages.delete` inserts
  the row again.
* `MessageIndex!EditsFollowRoom`: the API can overwrite a later edit.
* `MessageIndex!FlagFollowsRoom`: a failing ingest loses the encryption event.
* `MessageIndex!AuthorsWords`: "Moderators can't rewrite what others said"
  (`server/routers.ts:1185`) holds of the API (`EditsByAuthor`), but the ingest applies an
  `m.replace` whoever sent it (`server/appservice.ts:116-121`, `server/db.ts:901-914`).
* `Membership!StrictlyBelow`, `Membership!GeneralExists`, and with `MaxCodes = 2`
  `Membership!OneCode`.
* `Rooms!BannedAreOut`: in a channel an admin made the owner has no power, so the ban's
  call is refused and passed over (`docs/ROADMAP.md:59`).
* `Rooms!LevelsInSync`: a channel made later knows none of the moderators
  (`docs/adr/0008-client-side-matrix.md:163`, `server/permissions.ts:11`).
* `Rooms!MembersAreInside`: nobody but its maker is put into a channel's room made
  after they joined, and the API's sends there are refused
  (`server/matrixService.ts:478`).
* `FileShares!SharedIsPinned`: an upload of the same bytes between count and unpin.
* `AccountRecovery!OneBatch`: two regenerations both delete, then both insert.
* `InstanceAccounts!ClosedMeansClosed`, `InstanceAccounts!NeverRebound`.
* `Discovery!FreshStartConforms`: the first probe is not waited for, so two endpoints asked
  in sequence can disagree (`server/_core/index.ts:61`).
* `Discovery!Recognised`: one setting that is no URL makes the whole descriptor
  unrecognisable (`shared/matrixDelegation.ts:29`).
* `SurfaceConformance!PassesItsOwnSuite`: who gives themselves a role is refused with
  another code than the suite expects (`docs/PROTOCOL.md:287`).
* `SurfaceConformance!FreshContainerPasses`: the suite cannot be given the setup token
  (`docs/PROTOCOL.md:261`).
* `ProviderSignIn!WayBackIn` (`identity/src/routes.ts:947`); `ProviderSignIn!OwnersOnly`: "only
  someone who has already proved the account is theirs may" link (`identity/src/routes.ts:735`),
  but an attempt and a handoff code are tied to no browser (`routes.ts:752-758`, `794-803`,
  `1325-1348`), so that one person's browser can end in another's session, or one person's
  third-party account be linked to another's account. `ProvenOnly` is what holds.
* `ServerTokens!RevokedForGood`: a first visit under way inserts a live grant beside
  the revoked ones (`identity/src/routes.ts:1397`); `ServerTokens!RotationUnnoticed` with
  `MaxKeys = 3` (`server/sso.ts:234`).
* `MatrixSession!LiveMeansSyncing` (`client/src/hooks/useMatrixSession.ts:70`).
* `EncryptionSetup!KeyCanBeCreated` (`shared/e2ee.ts:228`).
* `ChannelView!RowAppears` (`client/src/pages/Dashboard.tsx:629`),
  `ChannelView!LateKeyIsRead` (`client/src/lib/matrixCrypto.ts:473`).
* `Dashboard!NeverStranded`: leaving a community can select it again
  (`client/src/pages/Dashboard.tsx:548`); `Dashboard!DroppedIsSealed`: a channel whose list has
  not come is taken for unencrypted (`Dashboard.tsx:350`).
* `Arrival!InviteFollowedAnyhow`: signing in through a provider leaves the invitation
  waiting (`SsoCallback.tsx:47`); `Arrival!FirstAccountOffered`: a closed instance that is
  empty offers no account (`Home.tsx:84` against `server/instance.ts:108`).
* `Hosting!PasswordOpensCluster` (`desktop/src/lib/hosting.ts:109`),
  `Hosting!QuitStopsEverything` (`main.rs:350`), `Hosting!StartedIsComplete`
  (`hosting.rs:384`).
* `Frame!AddedStays` (`desktop/src/App.tsx:194`), `Frame!NothingStacks`, `Frame!LaunchCompletes`.
* `InstancePanel!PanelNamesItsOwn` (`InstancePanel.tsx:93`), `InstancePanel!HealthyAnswers`
  (`shared/instanceHealth.ts:28`).

Noted while reading and not modelled: the ingest of an `m.replace` looks at the id of its target
only, which may also be a message of another room or an encrypted one (`server/db.ts:901-914`);
the author of an ingested row, and the user a message is shown of, are found by
`userProfiles.matrixUserId`, which is whatever `profile.update` was sent, and since that column is
unique a user who sends another's id first keeps that user's credentials from being saved (the
model has the refusal, but no property is about it); `uploadFile` says "It's been removed." although its
abandon may have failed; the invite dialog shows the link of the community selected before until
the new one is answered (`Dashboard.tsx:935`); discovery offers communities that banned the
user. Two reactions at once can lose one; `server/db.ts:1517` says and accepts so, and
`ReactionsStand` excludes it.

## The proofs

The proofs are for any users, identities, requests, deliveries, tabs, runs and bounds that
satisfy the named assumptions: bounds are naturals, there is a local
account, moderators are local and admins moderators (`UsersAssumption`), the
owner is a user, `Unbound` is no identity and the environment's join policy is one
of the three, the runs of an effect are finitely many (`MatrixSessionAssumption`). The
parts of a composition have theirs (`PartsAssumption`, `FilesAssumption`, `EmojiAssumption`,
`DeviceAssumption`): a value that stands for none is none, what marks where a request is at is
not the name of a room, requests and visits are finitely many, every user can have a Matrix
name of their own. A composition's parts share no state, so a step of it is a step
of the part at hand (`PartStep`), and what is proved of a part is proved of its runs.

The arms of every `CASE` in the modules are disjoint: where guards overlap TLA+ leaves the
value open, while TLC takes the first.

**`MessageIndexProofs`.** `HonestLock` and its companions are not inductive: whether
the flag may be raised depends on what a handler or a request in flight knows.
`IndInv` adds

* `QueueInv`: acknowledged events, the transaction and the handlers' positions are
  in order within the timeline;
* `LockInv`: whoever is about to raise the flag has the encryption event behind
  it, and no ciphertext precedes it;
* `HeardInv`: an encryption event the queue has passed raised the flag or is in
  `missed`;
* `RowsInv`, `TargetsInv`: rows, edits and redactions are about messages of the
  room, no edit about an encrypted one;
* `RequestsInv`: what a request in flight knows of its message;
* `LossInv`: a message the queue has passed left a row, a deletion or a miss.

Each conjunct has a lemma with one step per action (`QueueStep`, `LockStep`,
`HeardStep`, `RowsStep`, `RequestsStep`, `TargetsStep`, `LossStep`) over lemmas
that the timeline only grows and `Processed` only by a handler's turn. From
`IndInvHolds` follow `TypesHold`, `HonestLockHolds`, `ContentBlindHolds`,
`NoSilentLossHolds` and `EncryptionNotLostHolds`. `EditsByAuthor` takes `WordsInv` besides: a
row, and a request to edit it, holds only what the author of the message posted, but for an
`m.replace` of a client (`RowsWritten`, `AuthorsStep`). Of the other parts of `MCMessageIndex`:

* `FilesInv` (`FileShares`): bytes uploaded once belong to one row or to one request
  (`OneHolder`), so the count before an unpin cannot miss a row; a download that is still
  looking has every channel that entitles it ahead (`TransferIsRight`). `FreshBytesKeptHolds`
  and `RefusedWereNotEntitledHolds` follow.
* `ReactionsInv` (`Reactions`): a map that a call has read is the stored one unless it is known
  to be raced (`CallIsRight`), and of every reaction in it the room was told, will be told, or
  was not told because a call failed (`Told`). `ReactionsStandHolds` follows.

**`MembershipProofs`.** `IndInv` adds to types and `OwnerSafe` what the checks of a
request establish for good (`Sound`): the owner never joins or leaves, the target
past `requireAuthorityOver` is never the owner, a rank of 4 is the owner's, and a
granted role is below the rank it was checked against. None of it is about the
*current* roles, which is why it survives every interleaving, and why
`StrictlyBelow` cannot be proved. `BeginSound` and `ContinueSound` cover the actions;
`OwnerSafeHolds`, `ReturnsAsMemberHolds`, `AdminsByOwnerHolds` and
`BanIsFinalHolds` follow. Of the other parts of `MCCommunity`:

* `RoomsInv` (`Rooms`): `LevelsFollow` speaks only of levels that nobody is setting; of one that
  somebody is, a request has the room ahead or is clean, and a clean request is the only one of
  its target and wrote the role that stands (`LevelIsRight`, `CleanIsAlone`). What a request has
  read of a room is what is there unless it was overtaken (`CallIsRight`), so writing it back
  changes one level; and nobody but the maker has a level in a room that is not listed yet
  (`UnlistedIsBlank`), which is what a member's level in a new room rests on.
  `LevelsFollowHolds` follows.
* `ScreenInv` (`Dashboard`): the cached lists name channels of the community they are cached for
  (`ListsAreRight`), so the selection does (`ShownIsListed`); a change asked for on a true
  picture that nothing has disturbed since will be accepted, and can be refused only for an edit
  of a channel encrypted by then (`JobIsRight`). `ShownIsOfServerHolds` and
  `OfferedIsAcceptedHolds` follow.
* `WayInv` (`Arrival`): until the visitor is in, or was told why not, the code is in the address
  of the link's page, or waits while the visitor is on a page other than the dashboard; a page
  with a request under way stays until the answer (`PageIsRight`). `InviteFollowedHolds` follows.

**`InstanceAccountsProofs`.** `OneBootstrap` is about accounts that exist; to keep it,
`IndInv` adds that `boots` is empty before the first. `Sound` keeps what a request
has checked: an account found stays an account (there is no deletion), an identity
is registered only when somebody exists, and the policy it goes by is among those
in force since it began. `NextId` shows from the numbering without gaps that a new
account takes a number nobody has; `UsersStep` says what any step does to the
`users` table, `BeginSound`, `ReadSound` and `SaveFacts` what it does to the
requests. `OneBootstrapHolds`, `AdminsGrantedHolds` and `AdmittedByPolicyHolds`
follow; that no two accounts share an identity is part of `TypesHold`. Of the other parts of
`MCInstance`:

* `PublicInv` (`Discovery`): in a run that nothing unsettled, every answer the suite has is the
  one the instance gives now (`AnswersAreSo`), so the answers agree and claim what is so.
  `HonestInstanceConformsHolds` follows.
* `SurfaceInv` (`SurfaceConformance`): how far the suite has walked says who is registered, who
  is a member, whether there is a code and who has written (`GoesWell`). `RefusalsOfAccounts` and
  `RefusalsOfServer` are the guards of the handlers in the order the suite expects,
  `UndisturbedAsk` the walk, step by step. `WalksThroughHolds` follows.

**`MatrixSessionProofs`.** `IndInv` is `TypeOK` with three parts. `CountInv` bounds the
devices and tokens made by the runs that asked for one, which is what keeps them within
`Runs`. `OwnedInv` is `NoOrphanMachine` with what keeps it: a run that goes on uncancelled
is the current one of some tab, so whatever replaces it cancels it first. `FirstInv` holds
while `raced` is false: as long as no id is stored only one run is under way, and whoever
mints or stores goes by the stored id and got that id back. `TypeStep`, `OwnedStep` and `FirstStep`
have one step per action; `NoOrphanMachineHolds` and `DeviceKeptHolds` follow, the second an action
property: storing is the only step that writes the id.

**`HostingProofs`.** `OneNameKept` is kept by `NameInv`: the ids carry the name in the file,
or, while there is no file, the name that Dendrite's directory tells of; those of an older install
that left no such directory are apart. `GotInv` says that
a call past the keychain has its secrets. `QuitLeavesNothing` is kept by `TidyInv`: while `tidy`,
nothing runs unheld, one start is under way at most, what its remaining steps will spawn
(`NotYet`) is not alive yet, and an app that is closing has stopped everything. `TidyStep`
has one step per action. `OneNameKeptHolds` and `QuitLeavesNothingHolds` follow.

**`DesktopProofs`.** One inductive invariant per part.

* `RecoveryInv` (`AccountRecovery`): a code, link or session that exists, was spent or is
  held by a request was issued before (`IssuedInv`), so what is issued next is new; and no
  request knows a later password than the one in force (`KnownInv`). `SpentOnceHolds` and
  `OldAccessEndsHolds` follow.
* `SignInInv` (`ProviderSignIn`): accounts are numbered without gaps (`NumberedInv`), so a new
  one is nobody's yet; what a cookie, an attempt, a code or a request stands on is a person who
  made the account or has a third-party account bound to it (`OwnInv`), which no later step takes
  away (`OwnStays`). Nothing is said of the browser that delivers a state or a code.
  `ProvenOnlyHolds` follows.
* `TokensInv` (`ServerTokens`): once a server is revoked its rows say so, unless a request
  that had found none was under way (`GrantInv`); an answer with keys on its way holds every
  key that is cached and still published (`KeyInv`); and what a visit knows of either.
  `RevocationHoldsTheorem` and `OutageHarmlessHolds` follow.
* `FrameInv` (`Frame`): the store, and the list that a refresh will write back, hold each
  server once and every one that was added, except behind the back of a refresh.
  `RememberedOnceHolds` follows.

**`LivenessProofs`.** `DeviceAuthorization` implements `SignInGrant`, which is proved step by
step: `Device!Init` gives the initial states of the grant, and under `DeviceInv` every action
is a step of the grant or leaves the decision and the sessions alone (`QuietStep`, `ClaimStep`,
`MintStep` and the others, one per action). The decision is a function of the row and of who is
about to mint (`DecisionIs`); that at most one poll is about to (`ClaimIsExclusive`) makes it one.
`SingleUseHolds` is the refinement.

**`WebClientProofs`.**

* `AccountsInv` (`MatrixAccounts`): a stored token is of an account its user made, and so is the
  id beside it unless the user sent another (`RowIsRight`); a request that is going to save a row
  found no token, and a sign-out holds the stored token and so deletes another device than its
  own (`FindsNoId`, `HasTheRow`); a `profile.update` never brings a token (`KeepsToken`); two
  requests of a user of which one provisions are known to cross (`CrossingsAreKnown`). All of it
  is said of users outside `crossed`, which only grows, as `claimed` does. `OwnAccountHolds`,
  `StoredTokenWorksHolds` and the action property `IdentityKeptHolds` follow.
* `EncryptionInv` (`EncryptionSetup`): as long as calls do not overlap and no backup lost its
  key, one device at most is in a call, a recovery key that was shown opens everything
  (`KeyIsGood`), and what a device holds fits the step its call is at (`DeviceIsRight`).
  `RecoveryWorksHolds` follows.
* `SendingInv` (`Composer`) is `KeyOrRemoved` with types.
* `PanelInv` (`InstancePanel`): a check under way that nothing has disturbed has the answers the
  instance gives now, and is of the instance on screen unless checks crossed. That three such
  answers add up to the instance is `AssessmentIsSo`. `PanelIsRightHolds` follows.

*Proved but in no run*: `OneBootstrap` and the inductive invariants, which were checked by TLC
on the instances of the runs first.

*Only model-checked*: the liveness properties (`QueueDrains`, `StopsPolling`, `FallbackShows`),
which are out of the prover's reach; `FairSpec` of each module concerned states the fairness that
the section above explains. Every invariant and every action property of a passing run is a
theorem. The statements that the code does not keep, and the counterexamples to them, are
TLC's.

## Running

    tlc -config message_index.cfg MCMessageIndex
    tlapm MessageIndexProofs.tla

The configuration of a run is `<run>.cfg`; its module, in `PROJECT.json`, is the `MC` module
named after it, `MCMembership` for `membership_banned_member`, and the component's own module
for the other counterexamples. Every run ends within five minutes.
