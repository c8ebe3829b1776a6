------------------------------ MODULE SignInGrant ------------------------------
(* What a desktop sign-in code promises: it carries one decision at a time, and *)
(* at most once is an approval turned into a session, of the account that made  *)
(* it.  "Device codes are single-use and deleted on redemption."               *)
EXTENDS Sequences

CONSTANTS
  Accounts,
  Refused    \* the decision not to sign the app in

VARIABLES
  decision,  \* the account whose approval stands, Refused, "open" or "gone"
  sessions   \* the owners of the sessions the code was turned into, in order

vars == <<decision, sessions>>

Init == decision = "open" /\ sessions = <<>>

Decide(d) ==
  /\ decision # "gone"
  /\ decision' = d
  /\ UNCHANGED sessions

Lapse ==
  /\ decision # "gone"
  /\ decision' = "gone"
  /\ UNCHANGED sessions

Redeem ==
  /\ decision \in Accounts
  /\ sessions = <<>>
  /\ sessions' = <<decision>>
  /\ decision' = "gone"

Next == Lapse \/ Redeem \/ \E d \in Accounts \union {Refused} : Decide(d)

Spec == Init /\ [][Next]_vars
===============================================================================
