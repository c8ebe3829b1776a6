---------------------------- MODULE LivenessProofs ----------------------------
(* The desktop sign-in by device code keeps the promise of module SignInGrant:      *)
(* every step of DeviceAuthorization is a step of SignInGrant, or leaves the decision *)
(* and the sessions alone.                                                        *)
EXTENDS MCLiveness, FiniteSetTheorems, TLAPS

(* Whoever is about to be given a session, or has approved the code, is an account. *)
DeviceInv ==
  /\ Device!TypeOK
  /\ Device!ClaimIsExclusive
  /\ \A p \in Polls : poll[p].pc = "mint" => poll[p].account \in Accounts
  /\ \A b \in Ballots : ballot[b].pc = "write" => ballot[b].account \in Accounts

LEMMA DeviceNames ==
  /\ NoAccount \notin Accounts
  /\ "open" \notin Accounts /\ "refused" \notin Accounts /\ "gone" \notin Accounts
  BY PartsAssumption DEF Device!NoAccountAssumption

(* The module FiniteSets as DeviceAuthorization has it. *)
LEMMA SameCardinality == ASSUME NEW S PROVE Device!Cardinality(S) = Cardinality(S)
  BY DEF Device!Cardinality, Cardinality, Device!IsFiniteSet, IsFiniteSet

(* The decision that stands, by who is about to mint. *)
DecisionSays ==
  /\ \A p \in Polls : poll[p].pc = "mint" =>
       Device!Decision = poll[p].account /\ row.status = "deleted" /\ sessions = <<>>
  /\ (\A p \in Polls : poll[p].pc # "mint") =>
       /\ row.status = "pending" => Device!Decision = "open"
       /\ row.status = "approved" => Device!Decision = row.account
       /\ row.status = "denied" => Device!Decision = "refused"
       /\ row.status = "deleted" => Device!Decision = "gone"

LEMMA DecisionIs == DeviceInv => DecisionSays
  <1> SUFFICES ASSUME DeviceInv
               PROVE  DecisionSays
    OBVIOUS
  <1>1. ASSUME NEW p \in Polls, poll[p].pc = "mint"
        PROVE  Device!Decision = poll[p].account /\ row.status = "deleted" /\ sessions = <<>>
    <2>1. Device!Claimants = {p}
      BY <1>1 DEF Device!Claimants, DeviceInv, Device!ClaimIsExclusive
    <2>2. (CHOOSE q \in Device!Claimants : TRUE) = p
      BY <2>1
    <2> QED
      BY <2>1, <2>2 DEF Device!Decision, DeviceInv, Device!ClaimIsExclusive
  <1>2. ASSUME \A p \in Polls : poll[p].pc # "mint"
        PROVE  /\ row.status = "pending" => Device!Decision = "open"
               /\ row.status = "approved" => Device!Decision = row.account
               /\ row.status = "denied" => Device!Decision = "refused"
               /\ row.status = "deleted" => Device!Decision = "gone"
    <2>1. Device!Claimants = {}
      BY <1>2 DEF Device!Claimants
    <2> QED
      BY <2>1 DEF Device!Decision
  <1> QED
    BY <1>1, <1>2 DEF DecisionSays

LEMMA DecisionIsNext == DeviceInv' => DecisionSays'
  BY DecisionIs, PTL

LEMMA IdleTypes ==
  Device!IdlePoll \in Device!PollState /\ Device!IdleBallot \in Device!BallotState
  /\ Device!IdlePoll.pc = "idle" /\ Device!IdleBallot.pc = "idle"
  BY DEF Device!IdlePoll, Device!PollState, Device!Answers, Device!IdleBallot, Device!BallotState

LEMMA DeviceInit == Device!Init => DeviceInv /\ Device!Grant!Init
  <1> SUFFICES ASSUME Device!Init
               PROVE  DeviceInv /\ Device!Grant!Init
    OBVIOUS
  <1>1. \A p \in Polls : poll[p].pc = "idle"
    BY IdleTypes DEF Device!Init
  <1>2. Device!TypeOK
    <2>1. poll \in [Polls -> Device!PollState] /\ ballot \in [Ballots -> Device!BallotState]
      BY IdleTypes DEF Device!Init
    <2>2. Cardinality(waitsFor) <= 1
      BY FS_EmptySet DEF Device!Init
    <2>3. row \in Device!Row
      BY DEF Device!Init, Device!Row
    <2>4. row.status = "pending" /\ row.account = NoAccount
      BY DEF Device!Init
    <2>5. row.status = "approved" <=> row.account \in Accounts
      BY <2>4, DeviceNames
    <2>6. sessions \in Seq(Accounts) /\ waitsFor \subseteq Polls
      BY DEF Device!Init
    <2> QED
      BY <2>1, <2>2, <2>3, <2>5, <2>6, SameCardinality DEF Device!Init, Device!TypeOK
  <1>3. DeviceInv
    BY <1>1, <1>2, IdleTypes DEF Device!Init, DeviceInv, Device!ClaimIsExclusive, Device!Claimants
  <1> QED
    BY <1>1, <1>3, DecisionIs DEF DecisionSays, Device!Init, Device!Grant!Init

(* The state of one poll changes, and that of no claimant.  What comes of the row is   *)
(* for each step to say.                                                          *)
LEMMA QuietPoll ==
  ASSUME DeviceInv, NEW p \in Polls, NEW q \in Device!PollState, poll' = [poll EXCEPT ![p] = q],
         poll[p].pc # "mint", q.pc # "mint"
  PROVE  /\ poll' \in [Polls -> Device!PollState]
         /\ \A o \in Polls : poll'[o].pc = "mint" <=> poll[o].pc = "mint"
         /\ \A o \in Polls : poll[o].pc = "mint" => poll'[o].account = poll[o].account
  BY DEF DeviceInv, Device!TypeOK

(* Steps that neither decide nor redeem. *)
LEMMA QuietStep ==
  ASSUME DeviceInv, UNCHANGED sessions,
         row' \in Device!Row, row'.status = row.status, row'.account = row.account,
         poll' \in [Polls -> Device!PollState],
         \A o \in Polls : poll'[o].pc = "mint" <=> poll[o].pc = "mint",
         \A o \in Polls : poll[o].pc = "mint" => poll'[o].account = poll[o].account,
         ballot' \in [Ballots -> Device!BallotState],
         \A b \in Ballots : ballot'[b].pc = "write" => ballot'[b].account \in Accounts,
         expired' \in BOOLEAN, late' \in BOOLEAN, cancelled' \in BOOLEAN,
         app' \in {"waiting", "signed_in", "refused", "expired", "failed", "left"},
         waitsFor' \subseteq Polls, Cardinality(waitsFor') <= 1
  PROVE  DeviceInv' /\ UNCHANGED <<Device!Decision, sessions>>
  <1>1. Device!TypeOK'
    BY SameCardinality DEF DeviceInv, Device!TypeOK
  <1>2. Device!Claimants' = Device!Claimants
    <2>1. \A o \in Polls : poll'[o].pc = "mint" <=> poll[o].pc = "mint"
      OBVIOUS
    <2> QED
      BY <2>1, Zenon DEF Device!Claimants
  <1>3. Device!ClaimIsExclusive'
    BY <1>2 DEF DeviceInv, Device!ClaimIsExclusive
  <1>4. DeviceInv'
    <2>1. \A o \in Polls : poll'[o].pc = "mint" => poll'[o].account \in Accounts
      BY DEF DeviceInv
    <2> QED
      BY <1>1, <1>3, <2>1, Zenon DEF DeviceInv
  <1>5. DecisionSays /\ DecisionSays'
    BY <1>4, DecisionIs, DecisionIsNext
  <1>6. Device!Decision' = Device!Decision
    <2>1. ASSUME NEW o \in Polls, poll[o].pc = "mint"
          PROVE  Device!Decision' = Device!Decision
      <3>1. Device!Decision = poll[o].account
        BY <1>5, <2>1, Zenon DEF DecisionSays
      <3>2. poll'[o].pc = "mint" /\ poll'[o].account = poll[o].account
        BY <2>1
      <3>3. Device!Decision' = poll'[o].account
        BY <1>5, <2>1, <3>2, Zenon DEF DecisionSays
      <3> QED
        BY <3>1, <3>2, <3>3
    <2>2. ASSUME \A o \in Polls : poll[o].pc # "mint"
          PROVE  Device!Decision' = Device!Decision
      <3>1. row.status \in {"pending", "approved", "denied", "deleted"}
        BY DEF DeviceInv, Device!TypeOK, Device!Row
      <3>2. \A o \in Polls : poll'[o].pc # "mint"
        BY <2>2
      <3>3. /\ row.status = "pending" => Device!Decision = "open"
            /\ row.status = "approved" => Device!Decision = row.account
            /\ row.status = "denied" => Device!Decision = "refused"
            /\ row.status = "deleted" => Device!Decision = "gone"
        BY <1>5, <2>2, Zenon DEF DecisionSays
      <3>4. /\ row'.status = "pending" => Device!Decision' = "open"
            /\ row'.status = "approved" => Device!Decision' = row'.account
            /\ row'.status = "denied" => Device!Decision' = "refused"
            /\ row'.status = "deleted" => Device!Decision' = "gone"
        BY <1>5, <3>2, Zenon DEF DecisionSays
      <3> QED
        BY <3>1, <3>3, <3>4
    <2> QED
      BY <2>1, <2>2
  <1> QED
    BY <1>4, <1>6

(* The row goes, under whatever was decided by it. *)
LEMMA LapseStep ==
  ASSUME DeviceInv, NEW p \in Polls, NEW q \in Device!PollState, poll' = [poll EXCEPT ![p] = q],
         q.pc # "mint", row' = Device!Deleted,
         poll[p].pc = "mint" \/ \A o \in Polls : poll[o].pc # "mint",
         UNCHANGED <<sessions, expired, ballot, app, waitsFor, late, cancelled>>
  PROVE  DeviceInv' /\ (Device!Grant!Lapse \/ UNCHANGED <<Device!Decision, sessions>>)
  <1>1. \A o \in Polls : poll'[o].pc # "mint"
    BY DEF DeviceInv, Device!TypeOK, Device!ClaimIsExclusive, Device!Claimants
  <1>2. row' \in Device!Row /\ row'.status = "deleted" /\ row'.account = NoAccount
    BY DEF Device!Row, Device!Deleted
  <1>3. poll' \in [Polls -> Device!PollState]
    BY DEF DeviceInv, Device!TypeOK
  <1>4. Device!TypeOK'
    BY <1>2, <1>3, DeviceNames DEF DeviceInv, Device!TypeOK
  <1>5. DeviceInv'
    BY <1>1, <1>2, <1>4 DEF DeviceInv, Device!ClaimIsExclusive, Device!Claimants
  <1>6. Device!Decision' = "gone"
    BY <1>1, <1>2, <1>5, DecisionIsNext DEF DecisionSays
  <1> QED
    BY <1>5, <1>6 DEF Device!Grant!Lapse

(* A poll is handled a step further, without claiming the approval. *)
LEMMA PollStep ==
  ASSUME DeviceInv, NEW p \in Polls, NEW q \in Device!PollState, poll' = [poll EXCEPT ![p] = q],
         poll[p].pc # "mint", q.pc # "mint",
         row' \in Device!Row, row'.status = row.status, row'.account = row.account,
         app' \in {"waiting", "signed_in", "refused", "expired", "failed", "left"},
         waitsFor' = waitsFor \/ waitsFor' = {} \/ waitsFor' = {p},
         UNCHANGED <<sessions, expired, ballot, late, cancelled>>
  PROVE  DeviceInv' /\ UNCHANGED <<Device!Decision, sessions>>
  <1>1. /\ poll' \in [Polls -> Device!PollState]
        /\ \A o \in Polls : poll'[o].pc = "mint" <=> poll[o].pc = "mint"
        /\ \A o \in Polls : poll[o].pc = "mint" => poll'[o].account = poll[o].account
    BY QuietPoll
  <1>2. waitsFor' \subseteq Polls /\ Cardinality(waitsFor') <= 1
    <2>1. waitsFor \subseteq Polls /\ Cardinality(waitsFor) <= 1
      BY SameCardinality DEF DeviceInv, Device!TypeOK
    <2>2. Cardinality({}) = 0
      BY FS_EmptySet
    <2>3. Cardinality({p}) = 1
      BY FS_Singleton
    <2> QED
      BY <2>1, <2>2, <2>3
  <1>3. /\ ballot' \in [Ballots -> Device!BallotState]
        /\ \A b \in Ballots : ballot'[b].pc = "write" => ballot'[b].account \in Accounts
        /\ expired' \in BOOLEAN /\ late' \in BOOLEAN /\ cancelled' \in BOOLEAN
    BY DEF DeviceInv, Device!TypeOK
  <1> QED
    BY <1>1, <1>2, <1>3, QuietStep

(* A step of the app or of a clock. *)
LEMMA ClockStep ==
  ASSUME DeviceInv, UNCHANGED <<sessions, poll, ballot>>,
         row' \in Device!Row, row'.status = row.status, row'.account = row.account,
         app' \in {"waiting", "signed_in", "refused", "expired", "failed", "left"},
         waitsFor' = waitsFor \/ waitsFor' = {},
         expired' \in BOOLEAN, late' \in BOOLEAN, cancelled' \in BOOLEAN
  PROVE  DeviceInv' /\ UNCHANGED <<Device!Decision, sessions>>
  <1>1. /\ poll' \in [Polls -> Device!PollState]
        /\ \A o \in Polls : poll'[o].pc = "mint" <=> poll[o].pc = "mint"
        /\ \A o \in Polls : poll[o].pc = "mint" => poll'[o].account = poll[o].account
        /\ ballot' \in [Ballots -> Device!BallotState]
        /\ \A b \in Ballots : ballot'[b].pc = "write" => ballot'[b].account \in Accounts
    BY DEF DeviceInv, Device!TypeOK
  <1>2. waitsFor' \subseteq Polls /\ Cardinality(waitsFor') <= 1
    <2>1. waitsFor \subseteq Polls /\ Cardinality(waitsFor) <= 1
      BY SameCardinality DEF DeviceInv, Device!TypeOK
    <2> QED
      BY <2>1, FS_EmptySet
  <1> QED
    BY <1>1, <1>2, QuietStep

(* The row is deleted by a poll that has not claimed it. *)
LEMMA DropStep ==
  ASSUME DeviceInv, NEW p \in Polls, NEW q \in Device!PollState, poll' = [poll EXCEPT ![p] = q],
         poll[p].pc # "mint", q.pc # "mint", row' = Device!Deleted,
         UNCHANGED <<sessions, expired, ballot, app, waitsFor, late, cancelled>>
  PROVE  DeviceInv' /\ (Device!Grant!Lapse \/ UNCHANGED <<Device!Decision, sessions>>)
  <1>1. CASE \A o \in Polls : poll[o].pc # "mint"
    BY <1>1, LapseStep
  <1>2. CASE \E o \in Polls : poll[o].pc = "mint"
    <2>1. row.status = "deleted"
      BY <1>2, DecisionIs, Zenon DEF DecisionSays
    <2>2. row.account = NoAccount
      BY <2>1 DEF DeviceInv, Device!TypeOK, Device!Row
    <2>3. row' \in Device!Row /\ row'.status = row.status /\ row'.account = row.account
      BY <2>1, <2>2 DEF Device!Deleted, Device!Row
    <2>4. app' \in {"waiting", "signed_in", "refused", "expired", "failed", "left"}
      BY DEF DeviceInv, Device!TypeOK
    <2> QED
      BY <2>3, <2>4, PollStep
  <1> QED
    BY <1>1, <1>2

LEMMA SendPollStep ==
  ASSUME DeviceInv, NEW p \in Polls, Device!SendPoll(p) \/ Device!RepeatPoll(p)
  PROVE  DeviceInv' /\ UNCHANGED <<Device!Decision, sessions>>
  <1> DEFINE q == [Device!IdlePoll EXCEPT !.pc = "read"]
  <1>1. q \in Device!PollState /\ q.pc # "mint"
    BY DEF Device!IdlePoll, Device!PollState, Device!Answers
  <1>2. /\ poll' = [poll EXCEPT ![p] = q] /\ poll[p].pc # "mint"
        /\ row' = row /\ app' = app /\ (waitsFor' = waitsFor \/ waitsFor' = {p})
        /\ UNCHANGED <<sessions, expired, ballot, late, cancelled>>
    BY DEF Device!SendPoll, Device!RepeatPoll, Device!appVars
  <1>3. row' \in Device!Row /\ app' \in {"waiting", "signed_in", "refused", "expired", "failed", "left"}
    BY <1>2 DEF DeviceInv, Device!TypeOK
  <1> QED
    BY <1>1, <1>2, <1>3, PollStep

LEMMA ReplyStep ==
  ASSUME DeviceInv, NEW p \in Polls, Device!Reply(p)
  PROVE  DeviceInv' /\ UNCHANGED <<Device!Decision, sessions>>
  <1>1. /\ poll' = [poll EXCEPT ![p] = Device!IdlePoll] /\ poll[p].pc # "mint"
        /\ row' = row /\ (waitsFor' = waitsFor \/ waitsFor' = {})
        /\ UNCHANGED <<sessions, expired, ballot, late, cancelled>>
    BY DEF Device!Reply
  <1>2. row' \in Device!Row
    BY <1>1 DEF DeviceInv, Device!TypeOK
  <1>3. app' \in {"waiting", "signed_in", "refused", "expired", "failed", "left"}
    BY DEF DeviceInv, Device!TypeOK, Device!Reply, Device!Interpret
  <1> QED
    BY <1>1, <1>2, <1>3, IdleTypes, PollStep

LEMMA ReadRowStep ==
  ASSUME DeviceInv, NEW p \in Polls, Device!ReadRow(p)
  PROVE  DeviceInv' /\ UNCHANGED <<Device!Decision, sessions>>
  <1>1. /\ poll \in [Polls -> Device!PollState] /\ row \in Device!Row
        /\ app \in {"waiting", "signed_in", "refused", "expired", "failed", "left"}
    BY DEF DeviceInv, Device!TypeOK
  <1>2. poll[p].pc = "read" /\ UNCHANGED <<row, sessions, expired, ballot, app, waitsFor, late, cancelled>>
    BY DEF Device!ReadRow, Device!appVars
  <1>3. \E q \in Device!PollState : poll' = [poll EXCEPT ![p] = q] /\ q.pc # "mint"
    <2>1. CASE Device!AnswerPoll(p, "expired_token") \/ Device!AnswerPoll(p, "slow_down")
      <3>1. PICK ans \in {"expired_token", "slow_down"} : Device!AnswerPoll(p, ans)
        BY <2>1
      <3> DEFINE q == [poll[p] EXCEPT !.pc = "reply", !.answer = ans]
      <3>9. q \in Device!PollState /\ q.pc # "mint"
        BY <3>1, <1>1 DEF Device!PollState, Device!Answers
      <3> QED
        BY <3>9, <3>1, <1>1 DEF Device!AnswerPoll, Device!PollState
    <2>2. CASE Device!Goto(p, "sweep")
      <3> DEFINE q == [poll[p] EXCEPT !.pc = "sweep"]
      <3>9. q \in Device!PollState /\ q.pc # "mint"
        BY <2>2, <1>1 DEF Device!PollState
      <3> QED
        BY <3>9, <2>2, <1>1 DEF Device!Goto, Device!PollState
    <2>3. CASE /\ row.status # "deleted"
               /\ poll' = [poll EXCEPT ![p].pc = "stamp", ![p].saw = row.status, ![p].account = row.account]
      <3>1. row.status \in {"pending", "approved", "denied"} /\ row.account \in Accounts \union {NoAccount}
        BY <1>1, <2>3 DEF Device!Row
      <3> DEFINE q == [poll[p] EXCEPT !.pc = "stamp", !.saw = row.status, !.account = row.account]
      <3>9. q \in Device!PollState /\ q.pc # "mint"
        BY <2>3, <3>1, <1>1 DEF Device!PollState
      <3> QED
        BY <3>9, <2>3, <3>1, <1>1 DEF Device!PollState
    <2> QED
      BY <2>1, <2>2, <2>3 DEF Device!ReadRow
  <1> QED
    BY <1>1, <1>2, <1>3, PollStep

LEMMA StampPollStep ==
  ASSUME DeviceInv, NEW p \in Polls, Device!StampPoll(p)
  PROVE  DeviceInv' /\ UNCHANGED <<Device!Decision, sessions>>
  <1>1. /\ poll \in [Polls -> Device!PollState] /\ row \in Device!Row
        /\ app \in {"waiting", "signed_in", "refused", "expired", "failed", "left"}
    BY DEF DeviceInv, Device!TypeOK
  <1>2. poll[p].pc = "stamp" /\ UNCHANGED <<sessions, expired, ballot, app, waitsFor, late, cancelled>>
    BY DEF Device!StampPoll, Device!appVars
  <1>3. row' \in Device!Row /\ row'.status = row.status /\ row'.account = row.account
    BY <1>1 DEF Device!StampPoll, Device!Row
  <1>4. \E q \in Device!PollState : poll' = [poll EXCEPT ![p] = q] /\ q.pc # "mint"
    <2>1. CASE Device!AnswerPoll(p, "authorization_pending")
      <3> DEFINE q == [poll[p] EXCEPT !.pc = "reply", !.answer = "authorization_pending"]
      <3>1. q \in Device!PollState /\ q.pc # "mint"
        BY <1>1 DEF Device!PollState, Device!Answers
      <3> QED
        BY <2>1, <3>1 DEF Device!AnswerPoll
    <2>2. CASE Device!Goto(p, "deny") \/ Device!Goto(p, "claim")
      <3>1. PICK step \in {"deny", "claim"} : Device!Goto(p, step)
        BY <2>2
      <3> DEFINE q == [poll[p] EXCEPT !.pc = step]
      <3>2. q \in Device!PollState /\ q.pc # "mint"
        BY <1>1 DEF Device!PollState
      <3> QED
        BY <3>1, <3>2 DEF Device!Goto
    <2> QED
      BY <2>1, <2>2 DEF Device!StampPoll
  <1> QED
    BY <1>1, <1>2, <1>3, <1>4, PollStep

(* The row is swept, or the refusal delivered. *)
LEMMA DeleteStep ==
  ASSUME DeviceInv, NEW p \in Polls, Device!SweepExpired(p) \/ Device!DeleteDenied(p)
  PROVE  DeviceInv' /\ (Device!Grant!Lapse \/ UNCHANGED <<Device!Decision, sessions>>)
  <1>1. poll \in [Polls -> Device!PollState]
    BY DEF DeviceInv, Device!TypeOK
  <1>2. PICK ans \in {"expired_token", "access_denied"} : Device!AnswerPoll(p, ans)
    BY DEF Device!SweepExpired, Device!DeleteDenied
  <1>3. /\ poll[p].pc # "mint" /\ row' = Device!Deleted
        /\ UNCHANGED <<sessions, expired, ballot, app, waitsFor, late, cancelled>>
    BY DEF Device!SweepExpired, Device!DeleteDenied, Device!appVars
  <1> DEFINE q == [poll[p] EXCEPT !.pc = "reply", !.answer = ans]
  <1>4. q \in Device!PollState /\ q.pc # "mint" /\ poll' = [poll EXCEPT ![p] = q]
    BY <1>1, <1>2 DEF Device!PollState, Device!Answers, Device!AnswerPoll
  <1> QED
    BY <1>3, <1>4, DropStep

(* A claimant fails before it has minted: the approval is lost. *)
LEMMA ClaimantFails ==
  ASSUME DeviceInv, NEW p \in Polls, NEW q \in Device!PollState, poll' = [poll EXCEPT ![p] = q],
         poll[p].pc = "mint", q.pc # "mint",
         UNCHANGED <<row, sessions, expired, ballot, app, waitsFor, late, cancelled>>
  PROVE  DeviceInv' /\ Device!Grant!Lapse
  <1>1. Device!Decision = poll[p].account /\ row.status = "deleted" /\ poll[p].account \in Accounts
    BY DecisionIs DEF DecisionSays, DeviceInv
  <1>2. poll' \in [Polls -> Device!PollState] /\ \A o \in Polls : poll'[o].pc # "mint"
    BY DEF DeviceInv, Device!TypeOK, Device!ClaimIsExclusive, Device!Claimants
  <1>3. Device!TypeOK'
    BY <1>2 DEF DeviceInv, Device!TypeOK
  <1>4. DeviceInv'
    BY <1>1, <1>2, <1>3 DEF DeviceInv, Device!ClaimIsExclusive, Device!Claimants
  <1>5. Device!Decision' = "gone"
    BY <1>1, <1>2, <1>4, DecisionIsNext DEF DecisionSays
  <1> QED
    BY <1>1, <1>4, <1>5, DeviceNames DEF Device!Grant!Lapse

LEMMA FailPollStep ==
  ASSUME DeviceInv, NEW p \in Polls, Device!FailPoll(p)
  PROVE  DeviceInv' /\ (Device!Grant!Lapse \/ UNCHANGED <<Device!Decision, sessions>>)
  <1>1. /\ poll \in [Polls -> Device!PollState] /\ row \in Device!Row
        /\ app \in {"waiting", "signed_in", "refused", "expired", "failed", "left"}
    BY DEF DeviceInv, Device!TypeOK
  <1>2. UNCHANGED <<row, sessions, expired, ballot, app, waitsFor, late, cancelled>>
    BY DEF Device!FailPoll, Device!appVars
  <1> DEFINE q == [poll[p] EXCEPT !.pc = "reply", !.answer = "error"]
  <1>3. q \in Device!PollState /\ q.pc # "mint" /\ poll' = [poll EXCEPT ![p] = q]
    BY <1>1 DEF Device!PollState, Device!Answers, Device!FailPoll, Device!AnswerPoll
  <1>4. CASE poll[p].pc = "mint"
    BY <1>2, <1>3, <1>4, ClaimantFails
  <1>5. CASE poll[p].pc # "mint"
    <2>1. row' \in Device!Row /\ row'.status = row.status /\ row'.account = row.account
      BY <1>1, <1>2
    <2>2. app' \in {"waiting", "signed_in", "refused", "expired", "failed", "left"}
      BY <1>1, <1>2
    <2> QED
      BY <1>2, <1>3, <1>5, <2>1, <2>2, PollStep
  <1> QED
    BY <1>4, <1>5

LEMMA ClaimStep ==
  ASSUME DeviceInv, NEW p \in Polls, Device!Claim(p)
  PROVE  DeviceInv' /\ UNCHANGED <<Device!Decision, sessions>>
  <1>1. /\ poll \in [Polls -> Device!PollState] /\ row \in Device!Row
        /\ app \in {"waiting", "signed_in", "refused", "expired", "failed", "left"}
    BY DEF DeviceInv, Device!TypeOK
  <1>2. poll[p].pc = "claim" /\ UNCHANGED <<sessions, expired, ballot, app, waitsFor, late, cancelled>>
    BY DEF Device!Claim, Device!appVars
  <1>3. CASE row.status # "approved"
    <2> DEFINE q == [poll[p] EXCEPT !.pc = "reply", !.answer = "expired_token"]
    <2>1. q \in Device!PollState /\ q.pc # "mint" /\ poll' = [poll EXCEPT ![p] = q]
      BY <1>1, <1>3 DEF Device!PollState, Device!Answers, Device!Claim, Device!AnswerPoll
    <2>2. row' = row /\ row' \in Device!Row /\ app' \in {"waiting", "signed_in", "refused", "expired", "failed", "left"}
      BY <1>1, <1>2, <1>3 DEF Device!Claim
    <2> QED
      BY <1>2, <2>1, <2>2, PollStep
  <1>4. CASE row.status = "approved"
    <2> DEFINE q == [poll[p] EXCEPT !.pc = "mint", !.account = row.account]
    <2>1. row' = Device!Deleted /\ poll' = [poll EXCEPT ![p] = q]
      BY <1>1, <1>4 DEF Device!Claim
    <2>2. row.account \in Accounts
      BY <1>4 DEF DeviceInv, Device!TypeOK
    <2>3. q \in Device!PollState
      BY <1>1, <2>2 DEF Device!PollState
    <2>4. sessions = <<>> /\ \A o \in Polls : poll[o].pc # "mint"
      BY <1>4 DEF DeviceInv, Device!ClaimIsExclusive, Device!Claimants
    <2>5. /\ poll' \in [Polls -> Device!PollState]
          /\ poll'[p].pc = "mint" /\ poll'[p].account = row.account
          /\ \A o \in Polls : poll'[o].pc = "mint" => o = p
      BY <1>1, <2>1, <2>3, <2>4
    <2>6. row' \in Device!Row /\ row'.status = "deleted" /\ row'.account = NoAccount
      BY <2>1 DEF Device!Row, Device!Deleted
    <2>7. Device!TypeOK'
      BY <1>2, <2>5, <2>6, DeviceNames DEF DeviceInv, Device!TypeOK
    <2>8. Device!ClaimIsExclusive'
      BY <1>2, <2>4, <2>5, <2>6 DEF Device!ClaimIsExclusive, Device!Claimants
    <2>9. DeviceInv'
      BY <1>2, <2>2, <2>5, <2>7, <2>8 DEF DeviceInv
    <2>10. Device!Decision = row.account
      BY <1>4, <2>4, DecisionIs, Zenon DEF DecisionSays
    <2>11. Device!Decision' = poll'[p].account
      BY <2>5, <2>9, DecisionIsNext, Zenon DEF DecisionSays
    <2> QED
      BY <1>2, <2>5, <2>9, <2>10, <2>11
  <1> QED
    BY <1>3, <1>4

LEMMA MintStep ==
  ASSUME DeviceInv, NEW p \in Polls, Device!MintSession(p)
  PROVE  DeviceInv' /\ Device!Grant!Redeem
  <1>1. /\ poll \in [Polls -> Device!PollState] /\ row \in Device!Row
        /\ poll[p].pc = "mint" /\ poll[p].account \in Accounts
    BY DEF DeviceInv, Device!TypeOK, Device!MintSession
  <1>2. /\ UNCHANGED <<row, expired, ballot, app, waitsFor, late, cancelled>>
        /\ sessions' = Append(sessions, poll[p].account)
    BY DEF Device!MintSession, Device!appVars
  <1>3. Device!Decision = poll[p].account /\ row.status = "deleted" /\ sessions = <<>>
    BY <1>1, DecisionIs, Zenon DEF DecisionSays
  <1>4. sessions' = <<poll[p].account>> /\ sessions' \in Seq(Accounts)
    BY <1>1, <1>2, <1>3
  <1> DEFINE q == [poll[p] EXCEPT !.pc = "reply", !.answer = "session_token"]
  <1>5. q \in Device!PollState /\ q.pc # "mint" /\ poll' = [poll EXCEPT ![p] = q]
    BY <1>1 DEF Device!PollState, Device!Answers, Device!MintSession, Device!AnswerPoll
  <1>6. poll' \in [Polls -> Device!PollState] /\ \A o \in Polls : poll'[o].pc # "mint"
    <2>1. \A o \in Polls : poll[o].pc = "mint" => o = p
      BY <1>1 DEF DeviceInv, Device!ClaimIsExclusive, Device!Claimants
    <2> QED
      BY <1>1, <1>5, <2>1
  <1>7. Device!TypeOK'
    BY <1>2, <1>4, <1>6 DEF DeviceInv, Device!TypeOK
  <1>8. DeviceInv'
    BY <1>2, <1>3, <1>6, <1>7 DEF DeviceInv, Device!ClaimIsExclusive, Device!Claimants
  <1>9. Device!Decision' = "gone"
    BY <1>2, <1>3, <1>6, <1>8, DecisionIsNext DEF DecisionSays
  <1> QED
    BY <1>1, <1>3, <1>4, <1>8, <1>9 DEF Device!Grant!Redeem

LEMMA ReadCodeStep ==
  ASSUME DeviceInv, NEW b \in Ballots, NEW a \in Accounts, NEW approve \in BOOLEAN,
         Device!ReadCode(b, a, approve)
  PROVE  DeviceInv' /\ UNCHANGED <<Device!Decision, sessions>>
  <1>1. /\ ballot \in [Ballots -> Device!BallotState] /\ poll \in [Polls -> Device!PollState]
        /\ row \in Device!Row /\ waitsFor \subseteq Polls /\ Cardinality(waitsFor) <= 1
        /\ app \in {"waiting", "signed_in", "refused", "expired", "failed", "left"}
        /\ expired \in BOOLEAN /\ late \in BOOLEAN /\ cancelled \in BOOLEAN
    BY SameCardinality DEF DeviceInv, Device!TypeOK
  <1> DEFINE c == [pc |-> "write", account |-> a, approve |-> approve]
  <1>2. /\ UNCHANGED <<row, expired, sessions, poll, app, waitsFor, late, cancelled>>
        /\ ballot' = [ballot EXCEPT ![b] = c]
    BY DEF Device!ReadCode, Device!appVars
  <1>3. c \in Device!BallotState /\ c.account \in Accounts
    BY DEF Device!BallotState
  <1>4. /\ ballot' \in [Ballots -> Device!BallotState]
        /\ \A d \in Ballots : ballot'[d].pc = "write" => ballot'[d].account \in Accounts
    BY <1>1, <1>2, <1>3 DEF DeviceInv
  <1> QED
    BY <1>1, <1>2, <1>4, QuietStep

(* An answer is written to the row, if it is still there. *)
LEMMA WriteAnswerStep ==
  ASSUME DeviceInv, NEW b \in Ballots, Device!WriteAnswer(b)
  PROVE  /\ DeviceInv'
         /\ \/ \E d \in Accounts \union {"refused"} : Device!Grant!Decide(d)
            \/ UNCHANGED <<Device!Decision, sessions>>
  <1>1. /\ ballot \in [Ballots -> Device!BallotState] /\ poll \in [Polls -> Device!PollState]
        /\ row \in Device!Row /\ waitsFor \subseteq Polls /\ Cardinality(waitsFor) <= 1
        /\ app \in {"waiting", "signed_in", "refused", "expired", "failed", "left"}
        /\ expired \in BOOLEAN /\ late \in BOOLEAN /\ cancelled \in BOOLEAN
        /\ sessions \in Seq(Accounts)
    BY SameCardinality DEF DeviceInv, Device!TypeOK
  <1>2. /\ UNCHANGED <<expired, sessions, poll, app, waitsFor, late, cancelled>>
        /\ ballot[b].pc = "write" /\ ballot' = [ballot EXCEPT ![b] = Device!IdleBallot]
    BY DEF Device!WriteAnswer, Device!appVars
  <1>3. /\ ballot' \in [Ballots -> Device!BallotState]
        /\ \A d \in Ballots : ballot'[d].pc = "write" => ballot'[d].account \in Accounts
    BY <1>1, <1>2, IdleTypes DEF DeviceInv
  <1>4. CASE row.status = "deleted"
    <2>1. row' = row
      BY <1>4 DEF Device!WriteAnswer
    <2> QED
      BY <1>1, <1>2, <1>3, <2>1, QuietStep
  <1>5. CASE row.status # "deleted"
    <2>1. /\ \A o \in Polls : poll'[o].pc # "mint" /\ poll[o].pc # "mint"
          /\ sessions = <<>> /\ sessions' = <<>>
      BY <1>2, <1>5 DEF DeviceInv, Device!ClaimIsExclusive, Device!Claimants
    <2>2. Device!Decision # "gone"
      <3>1. row.status \in {"pending", "approved", "denied"}
        BY <1>1, <1>5 DEF Device!Row
      <3>2. row.status = "approved" => row.account \in Accounts
        BY DEF DeviceInv, Device!TypeOK
      <3>3. /\ row.status = "pending" => Device!Decision = "open"
            /\ row.status = "approved" => Device!Decision = row.account
            /\ row.status = "denied" => Device!Decision = "refused"
        BY <2>1, DecisionIs, Zenon DEF DecisionSays
      <3> QED
        BY <3>1, <3>2, <3>3, DeviceNames
    <2>3. ballot[b].account \in Accounts
      BY <1>2 DEF DeviceInv
    <2>4. PICK d \in Accounts \union {"refused"} :
            /\ row' \in Device!Row /\ row'.status \in {"approved", "denied"}
            /\ row'.status = "approved" => d = row'.account /\ row'.account \in Accounts
            /\ row'.status = "denied" => d = "refused" /\ row'.account = NoAccount
      <3>1. CASE ballot[b].approve
        <4>1. row' = [row EXCEPT !.status = "approved", !.account = ballot[b].account]
          BY <1>5, <3>1 DEF Device!WriteAnswer
        <4> QED
          BY <1>1, <2>3, <4>1 DEF Device!Row
      <3>2. CASE ~ballot[b].approve
        <4>1. row' = [row EXCEPT !.status = "denied", !.account = NoAccount]
          BY <1>5, <3>2 DEF Device!WriteAnswer
        <4> QED
          BY <1>1, <4>1 DEF Device!Row
      <3> QED
        BY <3>1, <3>2
    <2>5. Device!TypeOK'
      BY <1>1, <1>2, <1>3, <2>4, DeviceNames, SameCardinality DEF Device!TypeOK
    <2>6. DeviceInv'
      BY <1>3, <2>1, <2>5 DEF DeviceInv, Device!ClaimIsExclusive, Device!Claimants
    <2>7. Device!Decision' = d
      <3>1. /\ row'.status = "approved" => Device!Decision' = row'.account
            /\ row'.status = "denied" => Device!Decision' = "refused"
        BY <2>1, <2>6, DecisionIsNext, Zenon DEF DecisionSays
      <3> QED
        BY <2>4, <3>1
    <2> QED
      BY <1>2, <2>2, <2>6, <2>7 DEF Device!Grant!Decide
  <1> QED
    BY <1>4, <1>5

LEMMA FailAnswerStep ==
  ASSUME DeviceInv, NEW b \in Ballots, Device!FailAnswer(b)
  PROVE  DeviceInv' /\ UNCHANGED <<Device!Decision, sessions>>
  <1>1. /\ ballot \in [Ballots -> Device!BallotState] /\ poll \in [Polls -> Device!PollState]
        /\ row \in Device!Row /\ waitsFor \subseteq Polls /\ Cardinality(waitsFor) <= 1
        /\ app \in {"waiting", "signed_in", "refused", "expired", "failed", "left"}
        /\ expired \in BOOLEAN /\ late \in BOOLEAN /\ cancelled \in BOOLEAN
    BY SameCardinality DEF DeviceInv, Device!TypeOK
  <1>2. /\ UNCHANGED <<row, expired, sessions, poll, app, waitsFor, late, cancelled>>
        /\ ballot' = [ballot EXCEPT ![b] = Device!IdleBallot]
    BY DEF Device!FailAnswer, Device!appVars
  <1>3. /\ ballot' \in [Ballots -> Device!BallotState]
        /\ \A d \in Ballots : ballot'[d].pc = "write" => ballot'[d].account \in Accounts
    BY <1>1, <1>2, IdleTypes DEF DeviceInv
  <1> QED
    BY <1>1, <1>2, <1>3, QuietStep

LEMMA TimeStep ==
  ASSUME DeviceInv,
         \/ Device!LoseConnection \/ Device!Cancel \/ Device!GiveUp
         \/ Device!Expire \/ Device!BecomeLate \/ Device!IntervalPasses
  PROVE  DeviceInv' /\ UNCHANGED <<Device!Decision, sessions>>
  <1>1. /\ row \in Device!Row /\ app \in {"waiting", "signed_in", "refused", "expired", "failed", "left"}
        /\ expired \in BOOLEAN /\ late \in BOOLEAN /\ cancelled \in BOOLEAN
    BY DEF DeviceInv, Device!TypeOK
  <1>2. /\ UNCHANGED <<sessions, poll, ballot>>
        /\ waitsFor' = waitsFor \/ waitsFor' = {}
        /\ expired' \in BOOLEAN /\ late' \in BOOLEAN /\ cancelled' \in BOOLEAN
        /\ app' \in {"waiting", "signed_in", "refused", "expired", "failed", "left"}
    BY <1>1 DEF Device!LoseConnection, Device!Cancel, Device!GiveUp, Device!Expire, Device!BecomeLate,
                Device!IntervalPasses, Device!appVars
  <1>3. row' \in Device!Row /\ row'.status = row.status /\ row'.account = row.account
    BY <1>1 DEF Device!LoseConnection, Device!Cancel, Device!GiveUp, Device!Expire, Device!BecomeLate,
                Device!IntervalPasses, Device!appVars, Device!Row
  <1> QED
    BY <1>2, <1>3, ClockStep

(* A step of another part. *)
LEMMA IdleStep ==
  ASSUME DeviceInv, UNCHANGED deviceVars
  PROVE  DeviceInv' /\ UNCHANGED <<Device!Decision, sessions>>
  <1>1. /\ row \in Device!Row /\ app \in {"waiting", "signed_in", "refused", "expired", "failed", "left"}
        /\ expired \in BOOLEAN /\ late \in BOOLEAN /\ cancelled \in BOOLEAN
    BY DEF DeviceInv, Device!TypeOK
  <1> QED
    BY <1>1, ClockStep DEF deviceVars

(* Every step of DeviceAuthorization is one of SignInGrant, or none. *)
LEMMA DeviceStep ==
  ASSUME DeviceInv, Device!Next
  PROVE  DeviceInv' /\ (Device!Grant!Next \/ UNCHANGED <<Device!Decision, sessions>>)
  <1>1. ASSUME NEW p \in Polls, Device!SendPoll(p) \/ Device!RepeatPoll(p) \/ Device!HandlePoll(p)
        PROVE  DeviceInv' /\ (Device!Grant!Next \/ UNCHANGED <<Device!Decision, sessions>>)
    <2>1. CASE \/ Device!SendPoll(p) \/ Device!RepeatPoll(p) \/ Device!Reply(p)
               \/ Device!ReadRow(p) \/ Device!StampPoll(p) \/ Device!Claim(p)
      BY <2>1, SendPollStep, ReplyStep, ReadRowStep, StampPollStep, ClaimStep, Zenon
    <2>2. CASE Device!SweepExpired(p) \/ Device!DeleteDenied(p) \/ Device!FailPoll(p)
      BY <2>2, DeleteStep, FailPollStep, Zenon DEF Device!Grant!Next
    <2>3. CASE Device!MintSession(p)
      BY <2>3, MintStep, Zenon DEF Device!Grant!Next
    <2> QED
      BY <1>1, <2>1, <2>2, <2>3, Zenon DEF Device!HandlePoll
  <1>2. ASSUME NEW b \in Ballots,
               \/ \E a \in Accounts, approve \in BOOLEAN : Device!ReadCode(b, a, approve)
               \/ Device!WriteAnswer(b) \/ Device!FailAnswer(b)
        PROVE  DeviceInv' /\ (Device!Grant!Next \/ UNCHANGED <<Device!Decision, sessions>>)
    BY <1>2, ReadCodeStep, WriteAnswerStep, FailAnswerStep, Zenon DEF Device!Grant!Next
  <1>3. ASSUME \/ Device!LoseConnection \/ Device!Cancel \/ Device!GiveUp
               \/ Device!Expire \/ Device!BecomeLate \/ Device!IntervalPasses
        PROVE  DeviceInv' /\ (Device!Grant!Next \/ UNCHANGED <<Device!Decision, sessions>>)
    BY <1>3, TimeStep
  <1> QED
    BY <1>1, <1>2, <1>3, Zenon DEF Device!Next

(* What DeviceAuthorization is built on, with a claim made by one poll alone: it holds  *)
(* of the device part of every run.                                              *)
THEOREM DeviceInvHolds == LiveSpec => []DeviceInv
  <1>1. LiveInit => DeviceInv
    BY DeviceInit DEF LiveInit
  <1>2. DeviceInv /\ [LiveNext]_liveVars => DeviceInv'
    <2> SUFFICES ASSUME DeviceInv, [LiveNext]_liveVars
                 PROVE  DeviceInv'
      OBVIOUS
    <2>1. CASE part = "device" /\ Device!Next
      BY <2>1, DeviceStep
    <2>2. CASE UNCHANGED deviceVars
      BY <2>2, IdleStep
    <2> QED
      BY <2>1, <2>2, Zenon DEF LiveNext, liveVars
  <1> QED
    BY <1>1, <1>2, PTL DEF LiveSpec

(* "Device codes are single-use and deleted on redemption" (docs/THREAT_MODEL.md): the  *)
(* sign-in implements SignInGrant, whatever the number of polls, answers and accounts. *)
THEOREM SingleUseHolds == LiveSpec => SingleUse
  <1>1. LiveInit => Device!Grant!Init
    BY DeviceInit DEF LiveInit
  <1>2. DeviceInv /\ [LiveNext]_liveVars => [Device!Grant!Next]_(Device!Grant!vars)
    <2> SUFFICES ASSUME DeviceInv, [LiveNext]_liveVars
                 PROVE  Device!Grant!Next \/ UNCHANGED <<Device!Decision, sessions>>
      BY Zenon DEF Device!Grant!vars
    <2>1. CASE part = "device" /\ Device!Next
      BY <2>1, DeviceStep
    <2>2. CASE UNCHANGED deviceVars
      BY <2>2, IdleStep
    <2> QED
      BY <2>1, <2>2, Zenon DEF LiveNext, liveVars
  <1> QED
    BY <1>1, <1>2, DeviceInvHolds, PTL DEF LiveSpec, SingleUse, Device!SingleUse, Device!Grant!Spec
===============================================================================
