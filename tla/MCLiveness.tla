----------------------------- MODULE MCLiveness -----------------------------
(* What has to happen in the end, for TLC: the queue of an instance's ingest     *)
(* drains, a desktop sign-in stops polling, the fallback brings a channel's       *)
(* messages on screen.  The three parts share no state, so a run is about one of   *)
(* them; the fairness of a part is that of its module, while the run is about it. *)
(* Nothing is declared symmetric.                                               *)
EXTENDS MessageIndex

CONSTANTS Accounts, NoAccount, Polls, Ballots, Messages, Limit

VARIABLES
  part,
  row, expired, sessions, poll, ballot, app, waitsFor, late, cancelled,
  room, index, live, heard, tried, keys, armed, read, fetch, shown

Device == INSTANCE DeviceAuthorization
View == INSTANCE ChannelView

ASSUME PartsAssumption == Device!NoAccountAssumption /\ View!LimitAssumption

deviceVars == <<row, expired, sessions, poll, ballot, app, waitsFor, late, cancelled>>
viewVars == <<room, index, live, heard, tried, keys, armed, read, fetch, shown>>
liveVars == <<part, vars, deviceVars, viewVars>>

LiveInit ==
  /\ part \in {"index", "device", "view"}
  /\ Init /\ Device!Init /\ View!Init

LiveNext ==
  /\ UNCHANGED part
  /\ \/ part = "index" /\ Next /\ UNCHANGED <<deviceVars, viewVars>>
     \/ part = "device" /\ Device!Next /\ UNCHANGED <<vars, viewVars>>
     \/ part = "view" /\ View!Next /\ UNCHANGED <<vars, deviceVars>>

IndexFairness ==
  /\ WF_vars(part = "index" /\ \E d \in Deliveries : SendTxn(d))
  /\ WF_vars(part = "index" /\ \E d \in Deliveries : ResendTxn(d))
  /\ \A d \in Deliveries :
       WF_vars(part = "index" /\ Ingest(d)) /\ WF_vars(part = "index" /\ Ack(d))

DeviceFairness ==
  /\ \A p \in Polls : WF_deviceVars(part = "device" /\ Device!HandlePoll(p))
  /\ WF_deviceVars(part = "device" /\ Device!BecomeLate)
  /\ WF_deviceVars(part = "device" /\ Device!GiveUp)

ViewFairness ==
  /\ \A m \in Messages : /\ WF_viewVars(part = "view" /\ View!Ingest(m))
                         /\ WF_viewVars(part = "view" /\ View!Hear(m))
                         /\ WF_viewVars(part = "view" /\ View!Attempt(m))
  /\ WF_viewVars(part = "view" /\ View!Poll)
  /\ WF_viewVars(part = "view" /\ View!Serve)
  /\ WF_viewVars(part = "view" /\ View!Show)

LiveSpec ==
  LiveInit /\ [][LiveNext]_liveVars /\ IndexFairness /\ DeviceFairness /\ ViewFairness

(* DeviceAuthorization implements SignInGrant: one session at most per approval. *)
SingleUse == Device!SingleUse

(* DeviceAuthorization: the app stops polling, whatever the service's handlers answer,  *)
(* once they do end.                                                             *)
StopsPolling == part = "device" => Device!StopsPolling

(* ChannelView: once the session is over, the newest rows of the index come on screen. *)
FallbackShows == View!FallbackShows
===============================================================================
