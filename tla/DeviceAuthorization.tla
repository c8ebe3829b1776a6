-------------------------- MODULE DeviceAuthorization --------------------------
(*****************************************************************************)
(* One desktop sign-in by device code: the service's handlers                 *)
(* (identity/src/routes.ts) and the app's loop (desktop SignIn.tsx with        *)
(* shared/deviceFlow.ts).  The app polls with the code while people signed in  *)
(* in a browser approve or refuse it.                                         *)
(*                                                                            *)
(* A handler takes one step per SQL statement.  Codes are unique, so one stands *)
(* for all.  Times are flags: the code has expired by the service's clock or   *)
(* by the app's; it was polled less than an interval ago.                     *)
(*****************************************************************************)
EXTENDS Naturals, FiniteSets, Sequences

CONSTANTS
  Accounts,
  NoAccount,
  Polls,      \* polls the service handles at a time
  Ballots     \* answers to the code it handles at a time

(* No account is what a decision is called that is not an account's. *)
NoAccountAssumption == {NoAccount, "open", "refused", "gone"} \intersect Accounts = {}

VARIABLES
  row,       \* the row of deviceAuthorizations
  expired,   \* its expiresAt has passed
  sessions,  \* the owners of the sessions minted for it, in order
  poll,      \* the polls being handled
  ballot,    \* the answers being handled
  app,       \* how far the app's sign-in has come
  waitsFor,  \* the poll whose answer the app waits for, if any
  late,      \* expiresAt has passed by the app's clock
  cancelled  \* the person has left the sign-in screen

appVars == <<app, waitsFor, late, cancelled>>
vars == <<row, expired, sessions, poll, ballot, appVars>>

Row == [status: {"pending", "approved", "denied", "deleted"},
        account: Accounts \union {NoAccount}, recent: BOOLEAN]
Deleted == [status |-> "deleted", account |-> NoAccount, recent |-> FALSE]

Answers == {"session_token", "authorization_pending", "slow_down", "access_denied", "expired_token", "error"}
PollState == [pc: {"idle", "read", "sweep", "stamp", "deny", "claim", "mint", "reply"},
              saw: {"none", "pending", "approved", "denied"},
              account: Accounts \union {NoAccount}, answer: Answers]
BallotState == [pc: {"idle", "write"}, account: Accounts \union {NoAccount}, approve: BOOLEAN]

IdlePoll == [pc |-> "idle", saw |-> "none", account |-> NoAccount, answer |-> "error"]
IdleBallot == [pc |-> "idle", account |-> NoAccount, approve |-> FALSE]

Init ==
  /\ row = [status |-> "pending", account |-> NoAccount, recent |-> FALSE]
  /\ expired = FALSE
  /\ sessions = <<>>
  /\ poll = [p \in Polls |-> IdlePoll]
  /\ ballot = [b \in Ballots |-> IdleBallot]
  /\ app = "waiting"
  /\ waitsFor = {}
  /\ late = FALSE
  /\ cancelled = FALSE

Goto(p, step) == poll' = [poll EXCEPT ![p].pc = step]
AnswerPoll(p, answer) == poll' = [poll EXCEPT ![p].pc = "reply", ![p].answer = answer]

-----------------------------------------------------------------------------
(* The app *)

SendPoll(p) ==
  /\ app = "waiting" /\ waitsFor = {} /\ ~late /\ ~cancelled
  /\ poll[p].pc = "idle"
  /\ poll' = [poll EXCEPT ![p] = [IdlePoll EXCEPT !.pc = "read"]]
  /\ waitsFor' = {p}
  /\ UNCHANGED <<row, expired, sessions, ballot, app, late, cancelled>>

(* The network delivers the poll a second time; nobody reads the answer to that *)
(* copy.                                                                       *)
RepeatPoll(p) ==
  /\ waitsFor # {}
  /\ poll[p].pc = "idle" /\ p \notin waitsFor
  /\ poll' = [poll EXCEPT ![p] = [IdlePoll EXCEPT !.pc = "read"]]
  /\ UNCHANGED <<row, expired, sessions, ballot, appVars>>

(* interpretPollResponse, as what the loop does with it: an unknown error is    *)
(* taken for "still pending".                                                  *)
Interpret(answer) ==
  CASE answer = "session_token" -> "signed_in"
    [] answer = "access_denied" -> "refused"
    [] answer = "expired_token" -> "expired"
    [] OTHER -> "waiting"

(* The answer reaches the app, which does not look at "cancelled" before it     *)
(* uses it.                                                                    *)
Reply(p) ==
  /\ poll[p].pc = "reply"
  /\ poll' = [poll EXCEPT ![p] = IdlePoll]
  /\ IF p \in waitsFor
       THEN waitsFor' = {} /\ app' = Interpret(poll[p].answer)
       ELSE UNCHANGED <<waitsFor, app>>
  /\ UNCHANGED <<row, expired, sessions, ballot, late, cancelled>>

(* The connection breaks before the answer; the handler runs on. *)
LoseConnection ==
  /\ waitsFor # {}
  /\ waitsFor' = {}
  /\ app' = "failed"
  /\ UNCHANGED <<row, expired, sessions, poll, ballot, late, cancelled>>

Cancel ==
  /\ app = "waiting" /\ ~cancelled
  /\ cancelled' = TRUE
  /\ UNCHANGED <<row, expired, sessions, poll, ballot, app, waitsFor, late>>

(* Mutant: the loop ends only when the person leaves. *)
PollOn ==
  /\ app = "waiting" /\ waitsFor = {} /\ cancelled
  /\ app' = "left"
  /\ UNCHANGED <<row, expired, sessions, poll, ballot, waitsFor, late, cancelled>>

GiveUp ==
  /\ app = "waiting" /\ waitsFor = {} /\ (late \/ cancelled)
  /\ app' = IF cancelled THEN "left" ELSE "expired"
  /\ UNCHANGED <<row, expired, sessions, poll, ballot, waitsFor, late, cancelled>>

-----------------------------------------------------------------------------
(* POST /api/device/token *)

ReadRow(p) ==
  /\ poll[p].pc = "read"
  /\ \/ row.status = "deleted" /\ AnswerPoll(p, "expired_token")
     \/ row.status # "deleted" /\ expired /\ Goto(p, "sweep")
     \/ row.status # "deleted" /\ ~expired /\ row.recent /\ AnswerPoll(p, "slow_down")
     \/ /\ row.status # "deleted" /\ ~expired /\ ~row.recent
        /\ poll' = [poll EXCEPT ![p].pc = "stamp", ![p].saw = row.status, ![p].account = row.account]
  /\ UNCHANGED <<row, expired, sessions, ballot, appVars>>

SweepExpired(p) ==
  /\ poll[p].pc = "sweep"
  /\ row' = Deleted
  /\ AnswerPoll(p, "expired_token")
  /\ UNCHANGED <<expired, sessions, ballot, appVars>>

(* lastPolledAt is set, and the status that was read decides what comes next. *)
StampPoll(p) ==
  /\ poll[p].pc = "stamp"
  /\ row' = IF row.status = "deleted" THEN row ELSE [row EXCEPT !.recent = TRUE]
  /\ \/ poll[p].saw = "denied" /\ Goto(p, "deny")
     \/ poll[p].saw = "approved" /\ Goto(p, "claim")
     \/ poll[p].saw = "pending" /\ AnswerPoll(p, "authorization_pending")
  /\ UNCHANGED <<expired, sessions, ballot, appVars>>

DeleteDenied(p) ==
  /\ poll[p].pc = "deny"
  /\ row' = Deleted
  /\ AnswerPoll(p, "access_denied")
  /\ UNCHANGED <<expired, sessions, ballot, appVars>>

(* Mutant: the row is deleted, but it is the row read before that is believed. *)
ClaimBySnapshot(p) ==
  /\ poll[p].pc = "claim"
  /\ row' = Deleted
  /\ Goto(p, "mint")
  /\ UNCHANGED <<expired, sessions, ballot, appVars>>

(* DELETE ... WHERE status = 'approved' RETURNING accountId *)
Claim(p) ==
  /\ poll[p].pc = "claim"
  /\ IF row.status = "approved"
       THEN /\ row' = Deleted
            /\ poll' = [poll EXCEPT ![p].pc = "mint", ![p].account = row.account]
       ELSE AnswerPoll(p, "expired_token") /\ UNCHANGED row
  /\ UNCHANGED <<expired, sessions, ballot, appVars>>

MintSession(p) ==
  /\ poll[p].pc = "mint"
  /\ sessions' = Append(sessions, poll[p].account)
  /\ AnswerPoll(p, "session_token")
  /\ UNCHANGED <<row, expired, ballot, appVars>>

(* A statement fails. *)
FailPoll(p) ==
  /\ poll[p].pc \notin {"idle", "reply"}
  /\ AnswerPoll(p, "error")
  /\ UNCHANGED <<row, expired, sessions, ballot, appVars>>

-----------------------------------------------------------------------------
(* POST /api/device/approve, from a browser signed in to account a *)

ReadCode(b, a, approve) ==
  /\ ballot[b].pc = "idle"
  /\ row.status = "pending" /\ ~expired
  /\ ballot' = [ballot EXCEPT ![b] = [pc |-> "write", account |-> a, approve |-> approve]]
  /\ UNCHANGED <<row, expired, sessions, poll, appVars>>

(* By id: whatever has become of the status since. *)
WriteAnswer(b) ==
  /\ ballot[b].pc = "write"
  /\ row' = CASE row.status = "deleted" -> row
              [] row.status # "deleted" /\ ballot[b].approve ->
                   [row EXCEPT !.status = "approved", !.account = ballot[b].account]
              [] OTHER -> [row EXCEPT !.status = "denied", !.account = NoAccount]
  /\ ballot' = [ballot EXCEPT ![b] = IdleBallot]
  /\ UNCHANGED <<expired, sessions, poll, appVars>>

FailAnswer(b) ==
  /\ ballot[b].pc = "write"
  /\ ballot' = [ballot EXCEPT ![b] = IdleBallot]
  /\ UNCHANGED <<row, expired, sessions, poll, appVars>>

-----------------------------------------------------------------------------
(* Time *)

Expire ==
  /\ ~expired
  /\ expired' = TRUE
  /\ UNCHANGED <<row, sessions, poll, ballot, appVars>>

BecomeLate ==
  /\ ~late
  /\ late' = TRUE
  /\ UNCHANGED <<row, expired, sessions, poll, ballot, app, waitsFor, cancelled>>

IntervalPasses ==
  /\ row.recent
  /\ row' = [row EXCEPT !.recent = FALSE]
  /\ UNCHANGED <<expired, sessions, poll, ballot, appVars>>

-----------------------------------------------------------------------------
HandlePoll(p) ==
  \/ ReadRow(p) \/ SweepExpired(p) \/ StampPoll(p) \/ DeleteDenied(p)
  \/ Claim(p) \/ MintSession(p) \/ FailPoll(p) \/ Reply(p)

Next ==
  \/ \E p \in Polls : SendPoll(p) \/ RepeatPoll(p) \/ HandlePoll(p)
  \/ \E b \in Ballots :
       \/ \E a \in Accounts, approve \in BOOLEAN : ReadCode(b, a, approve)
       \/ WriteAnswer(b) \/ FailAnswer(b)
  \/ LoseConnection \/ Cancel \/ GiveUp
  \/ Expire \/ BecomeLate \/ IntervalPasses

Spec == Init /\ [][Next]_vars

(* A handler that started ends, by an answer or an error; the app's clock runs, *)
(* and its loop comes round.  Nothing has to succeed.                          *)
FairSpec ==
  /\ Spec
  /\ \A p \in Polls : WF_vars(HandlePoll(p))
  /\ WF_vars(BecomeLate) /\ WF_vars(GiveUp)

-----------------------------------------------------------------------------
(* Properties *)

(* Types; an account is recorded exactly for an approval. *)
TypeOK ==
  /\ row \in Row
  /\ row.status = "approved" <=> row.account \in Accounts
  /\ expired \in BOOLEAN
  /\ sessions \in Seq(Accounts)
  /\ poll \in [Polls -> PollState]
  /\ ballot \in [Ballots -> BallotState]
  /\ app \in {"waiting", "signed_in", "refused", "expired", "failed", "left"}
  /\ waitsFor \subseteq Polls /\ Cardinality(waitsFor) <= 1
  /\ late \in BOOLEAN /\ cancelled \in BOOLEAN

Claimants == {p \in Polls : poll[p].pc = "mint"}

(* "The delete is the claim. Exactly one caller gets a row back": a code that    *)
(* was claimed has no row any more, one poll at most is about to mint, and none *)
(* is once a session exists.                                                   *)
ClaimIsExclusive ==
  /\ Claimants # {} \/ sessions # <<>> => row.status = "deleted"
  /\ \A p, q \in Claimants : p = q
  /\ Claimants = {} \/ sessions = <<>>

(* The code keeps the promise of module SignInGrant.  The decision that stands  *)
(* is the row's, or, between the claim and the session, the claimant's.        *)
Decision ==
  IF Claimants # {} THEN poll[CHOOSE p \in Claimants : TRUE].account
  ELSE CASE row.status = "pending" -> "open"
         [] row.status = "approved" -> row.account
         [] row.status = "denied" -> "refused"
         [] row.status = "deleted" -> "gone"

Grant == INSTANCE SignInGrant WITH Refused <- "refused", decision <- Decision

SingleUse == Grant!Spec

(* Whatever the service answers, or if the connection is lost, and whether or not  *)
(* anybody answers the code, the app stops polling: its own deadline bounds the loop. *)
(* The fetch has no timeout, so that this takes every poll's handler to end.      *)
StopsPolling == <>(app # "waiting")
===============================================================================
