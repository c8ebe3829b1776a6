-------------------------------- MODULE Frame --------------------------------
(*****************************************************************************)
(* The desktop app's frame (desktop/src/App.tsx): the servers it remembers      *)
(* (shared/connections.ts), the list it renders of them, and the webviews its   *)
(* shell shows over the frame (show_server and hide_servers in                  *)
(* desktop/src-tauri/src/main.rs).                                             *)
(*                                                                            *)
(* The store is local storage: reading and writing it happens in one turn of    *)
(* the event loop, and what awaits the network in between does not.  A shell    *)
(* command runs on a pool of threads, and two can be under way at once.         *)
(*****************************************************************************)
EXTENDS Naturals, FiniteSets, Sequences, SequencesExt

CONSTANTS
  Servers, NoServer,
  Addresses,    \* where a server can be reached
  Connects,     \* calls of ConnectionManager.connect at a time
  Calls,        \* shell commands under way at a time
  MaxMoves,     \* bounds: servers that change their address,
  MaxOpens      \* and connects, clicks and dialogs

FrameAssumption == NoServer \notin Servers \cup Addresses /\ {MaxMoves, MaxOpens} \subseteq Nat

VARIABLES
  store,     \* the connections, in the order of their `order`
  list,      \* what App renders of them
  active,    \* activeId
  overlay,   \* a dialog is open
  effect,    \* React has yet to run the effect of overlay, activeId and list
  launch,    \* where the effect that runs at launch is
  refresh,   \* refreshAll: its step, and the list it read
  connect,
  call,
  made,      \* the webviews there are,
  visible,   \* and those that are shown
  address,   \* where each server is
  moves, opens,
  joined,    \* (history) the servers added,
  risky      \* (history) those added while a refresh was under way that had not read them

stage == <<call, made, visible>>
world == <<address, moves, opens>>
vars == <<store, list, active, overlay, effect, launch, refresh, connect, call, made, visible,
          address, moves, opens, joined, risky>>

Entry == [id : Servers, host : Addresses]
NoRefresh == [pc |-> "none", read |-> <<>>]
NoConnect == [pc |-> "idle", host |-> NoServer]
NoCall == [pc |-> "idle", label |-> NoServer, found |-> FALSE, launching |-> FALSE]
Remembered(s) == {e.id : e \in ToSet(s)}
Lists == UNION {[1 .. n -> Entry] : n \in 0 .. Cardinality(Servers)}

TypeOK ==
  /\ store \in Lists /\ list \in Lists /\ active \in Servers \cup {NoServer}
  /\ overlay \in BOOLEAN /\ effect \in BOOLEAN /\ launch \in {"new", "opening", "ready", "broken"}
  /\ refresh \in [pc : {"none", "probing", "done"}, read : Lists]
  /\ connect \in [Connects -> [pc : {"idle", "probing"}, host : Addresses \cup {NoServer}]]
  /\ call \in [Calls -> [pc : {"idle", "hide", "show", "raise"}, label : Servers \cup {NoServer},
                         found : BOOLEAN, launching : BOOLEAN]]
  /\ visible \subseteq made /\ made \subseteq Servers
  /\ address \in [Servers -> Addresses] /\ moves \in 0 .. MaxMoves /\ opens \in 0 .. MaxOpens
  /\ joined \subseteq Servers /\ risky \subseteq joined

\* An app that has been used before, or never.
Init ==
  /\ address \in Injection(Servers, Addresses)
  /\ store \in {s \in Lists : Len(s) <= 1 /\ \A e \in ToSet(s) : e.host = address[e.id]}
  /\ list = <<>> /\ active = NoServer /\ overlay = FALSE /\ effect = FALSE /\ launch = "new"
  /\ refresh = NoRefresh /\ connect = [c \in Connects |-> NoConnect]
  /\ call = [k \in Calls |-> NoCall] /\ made = {} /\ visible = {}
  /\ moves = 0 /\ opens = 0 /\ joined = Remembered(store) /\ risky = {}

Opens == opens < MaxOpens /\ opens' = opens + 1

\* showServer, hideServers: invoke returns a promise and the command runs by itself.
Invoke(pc, label, launching) ==
  \E k \in Calls :
    /\ call[k].pc = "idle"
    /\ call' = [call EXCEPT ![k] = [pc |-> pc, label |-> label, found |-> FALSE, launching |-> launching]]

\* `open`: the effect follows the state it sets.
Open(s, launching) == active' = s /\ effect' = TRUE /\ Invoke("show", s, launching)

-----------------------------------------------------------------------------
(* The launch effect, and the refresh that `ready` starts *)

Launch ==
  /\ launch = "new" /\ list' = store
  /\ IF store = <<>> THEN launch' = "ready" /\ effect' = TRUE /\ UNCHANGED <<active, call>>
     ELSE launch' = "opening" /\ Open(store[1].id, TRUE)
  /\ UNCHANGED <<store, overlay, refresh, connect, made, visible, world, joined, risky>>

RefreshAll ==
  /\ launch = "ready" /\ refresh.pc = "none"
  /\ refresh' = [pc |-> "probing", read |-> store]
  /\ UNCHANGED <<store, list, active, overlay, effect, launch, connect, stage, world, joined, risky>>

Write(connections) ==
  /\ refresh.pc = "probing" /\ refresh' = [refresh EXCEPT !.pc = "done"]
  /\ store' = connections /\ list' = connections /\ effect' = TRUE
  /\ UNCHANGED <<active, overlay, launch, connect, stage, world, joined, risky>>

(* Mutant: only the servers that answered are written back. *)
RefreshedReachable ==
  \E up \in SUBSET Servers : Write(SelectSeq(refresh.read, LAMBDA e : e.id \in up))

\* Every probe has answered or failed, after eight seconds at most.  The list that
\* was read is written back, names and times brought up to date.
Refreshed == Write(refresh.read)

-----------------------------------------------------------------------------
(* ConnectionManager.connect, then `reload` and `open`: the hosted server once it  *)
(* runs, an invite or a deep link, AddServer's `join`, a sign-in's grants.        *)

Connect(c, a) ==
  /\ launch = "ready" /\ connect[c].pc = "idle" /\ Opens
  /\ connect' = [connect EXCEPT ![c] = [pc |-> "probing", host |-> a]]
  /\ UNCHANGED <<store, list, active, overlay, effect, launch, refresh, stage, address, moves, joined, risky>>

\* De-duplication is by the instance's id; a known server keeps its place.
Remember(s, e) ==
  IF e.id \in Remembered(s)
  THEN [i \in DOMAIN s |-> IF s[i].id = e.id THEN e ELSE s[i]]
  ELSE Append(s, e)

Connected(c) ==
  /\ connect[c].pc = "probing" /\ connect' = [connect EXCEPT ![c] = NoConnect]
  /\ \E s \in Servers :
       /\ address[s] = connect[c].host
       /\ store' = Remember(store, [id |-> s, host |-> connect[c].host])
       /\ joined' = joined \cup {s}
       /\ risky' = IF refresh.pc = "probing" /\ s \notin Remembered(refresh.read)
                   THEN risky \cup {s} ELSE IF refresh.pc = "probing" THEN risky ELSE risky \ {s}
       /\ Open(s, FALSE)
  /\ list' = store'
  /\ UNCHANGED <<overlay, launch, refresh, made, visible, world>>

\* "Not a SOVRGNnet server": nothing was written.
NotConnected(c) ==
  /\ connect[c].pc = "probing" /\ connect' = [connect EXCEPT ![c] = NoConnect]
  /\ UNCHANGED <<store, list, active, overlay, effect, launch, refresh, stage, world, joined, risky>>

\* The rail, or a link to a server that is known.
Select(e) ==
  /\ Opens /\ Open(e.id, FALSE)
  /\ UNCHANGED <<store, list, overlay, launch, refresh, connect, made, visible, address, moves, joined, risky>>

-----------------------------------------------------------------------------
(* Dialogs and the shell *)

Dialog ==
  /\ Opens /\ overlay' = ~overlay /\ effect' = TRUE
  /\ UNCHANGED <<store, list, active, launch, refresh, connect, stage, address, moves, joined, risky>>

Effect ==
  /\ effect /\ effect' = FALSE
  /\ \/ overlay /\ Invoke("hide", NoServer, FALSE)
     \/ ~overlay /\ active \in Remembered(list) /\ Invoke("show", active, FALSE)
     \/ ~overlay /\ active \notin Remembered(list) /\ UNCHANGED call
  /\ UNCHANGED <<store, list, active, overlay, launch, refresh, connect, made, visible, world, joined, risky>>

HideServers(k) ==
  /\ call[k].pc = "hide"
  /\ visible' = {} /\ call' = [call EXCEPT ![k] = NoCall]
  /\ UNCHANGED <<store, list, active, overlay, effect, launch, refresh, connect, made, world, joined, risky>>

\* show_server hides the others and looks for its own webview,
ShowServer(k) ==
  /\ call[k].pc = "show"
  /\ visible' = visible \cap {call[k].label}
  /\ call' = [call EXCEPT ![k] = [@ EXCEPT !.pc = "raise", !.found = call[k].label \in made]]
  /\ UNCHANGED <<store, list, active, overlay, effect, launch, refresh, connect, made, world, joined, risky>>

\* which it shows or makes; a label that was taken since is an error, and whoever
\* awaits it does not go on.
RaiseServer(k) ==
  LET s == call[k].label
      taken == ~call[k].found /\ s \in made
  IN /\ call[k].pc = "raise" /\ call' = [call EXCEPT ![k] = NoCall]
     /\ made' = made \cup {s}
     /\ visible' = IF taken THEN visible ELSE visible \cup {s}
     /\ launch' = IF call[k].launching THEN (IF taken THEN "broken" ELSE "ready") ELSE launch
     /\ UNCHANGED <<store, list, active, overlay, effect, refresh, connect, world, joined, risky>>

\* A server starts again on another port, or moves.
Move(s, a) ==
  /\ moves < MaxMoves /\ moves' = moves + 1
  /\ \A t \in Servers : address[t] # a
  /\ address' = [address EXCEPT ![s] = a]
  /\ UNCHANGED <<store, list, active, overlay, effect, launch, refresh, connect, stage, opens, joined, risky>>

-----------------------------------------------------------------------------
Next ==
  \/ Launch \/ RefreshAll \/ Refreshed \/ Dialog \/ Effect
  \/ \E c \in Connects : Connected(c) \/ NotConnected(c) \/ \E a \in Addresses : Connect(c, a)
  \/ \E e \in ToSet(list) : Select(e)
  \/ \E k \in Calls : HideServers(k) \/ ShowServer(k) \/ RaiseServer(k)
  \/ \E s \in Servers, a \in Addresses : Move(s, a)

Spec == Init /\ [][Next]_vars

-----------------------------------------------------------------------------
(* "A server that's off stays in the list" (App.tsx:258), and so does one that    *)
(* was added, once each whatever addresses it is reached at: only a server added   *)
(* behind the back of a refresh is forgotten.                                    *)
RememberedOnce ==
  /\ \A i, j \in DOMAIN store : store[i].id = store[j].id => i = j
  /\ joined \ risky \subseteq Remembered(store)

(* Without the exception: "a race here resolves on the next refresh"             *)
(* (App.tsx:194).  The refresh is the race, and it never adds a server.           *)
AddedStays == joined \subseteq Remembered(store)

(* "Anything the frame draws over the stage" (App.tsx:98): once nothing is under   *)
(* way, no server covers an open dialog, and one at most is shown ("Hide whichever *)
(* server was showing, so they don't stack", main.rs:116).                       *)
Settled == ~effect /\ \A k \in Calls : call[k].pc = "idle"
NothingStacks == Settled => Cardinality(visible) <= 1 /\ (overlay => visible = {})

(* The launch goes on to `ready`, whatever the window system makes of its webview. *)
LaunchCompletes == launch # "broken"
=============================================================================
