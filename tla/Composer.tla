------------------------------- MODULE Composer -------------------------------
(*****************************************************************************)
(* What a person sends from the dashboard (client/src/pages/Dashboard.tsx,      *)
(* handleSend and uploadFile): texts and files, over the client's own session    *)
(* or the instance's API, into one channel that may turn encrypted meanwhile.    *)
(* The client decides by the channel as its cached list has it.                  *)
(*                                                                            *)
(* The box holds one text at a time, and what is put into it replaces what was   *)
(* there.  A text that is sent or a file that is announced can arrive although    *)
(* the sender is told it did not.                                               *)
(*****************************************************************************)
EXTENDS Naturals, FiniteSets

CONSTANTS
  Texts, NoText,
  MaxFaults  \* failed calls and lost answers

ComposerAssumption == NoText \notin Texts /\ MaxFaults \in Nat

VARIABLES
  encrypted,  \* the channel's flag at the instance
  listed,     \* the same in the client's list
  canAuthor,  \* whether the client has a session that may send
  box,        \* the message input
  text,       \* each text: where it is
  posted,     \* texts in the room
  upload,     \* the upload: its step, whether its bytes were encrypted
  share,      \* whether its row and bytes are kept by the instance
  announced,  \* whether its key is in the room
  told,       \* the error shown after it
  faults

vars == <<encrypted, listed, canAuthor, box, text, posted, upload, share, announced, told, faults>>

TextSteps == {"unwritten", "typed", "sealed", "matrix", "api", "sent", "returned", "dropped"}
UploadSteps == {"unbegun", "post", "announce", "again", "abandon", "over", "stuck"}

TypeOK ==
  /\ {encrypted, listed, canAuthor, share, announced} \subseteq BOOLEAN
  /\ box \in Texts \cup {NoText} /\ text \in [Texts -> TextSteps]
  /\ posted \subseteq Texts
  /\ upload \in [pc : UploadSteps, sealed : BOOLEAN]
  /\ told \in {"nothing", "failed", "removed"} /\ faults \in 0 .. MaxFaults

Init ==
  /\ encrypted \in BOOLEAN /\ listed = encrypted /\ canAuthor \in BOOLEAN
  /\ box = NoText /\ text = [t \in Texts |-> "unwritten"] /\ posted = {}
  /\ upload = [pc |-> "unbegun", sealed |-> FALSE] /\ share = FALSE /\ announced = FALSE
  /\ told = "nothing" /\ faults = 0

channel == <<encrypted, listed, canAuthor>>
file == <<upload, share, announced, told>>
writing == <<box, text, posted>>

Fault == faults < MaxFaults /\ faults' = faults + 1

\* Somebody encrypts the channel, and later the client's list is fetched again.
Encrypt ==
  /\ ~encrypted /\ encrypted' = TRUE
  /\ UNCHANGED <<listed, canAuthor, writing, file, faults>>

Relist ==
  /\ listed # encrypted /\ listed' = encrypted
  /\ UNCHANGED <<encrypted, canAuthor, writing, file, faults>>

SessionTurns ==
  /\ Fault /\ canAuthor' = ~canAuthor
  /\ UNCHANGED <<encrypted, listed, writing, file>>

-------------------------------------------------------------------------------
(* handleSend *)

Type(t) ==
  /\ box = NoText /\ text[t] = "unwritten"
  /\ box' = t /\ text' = [text EXCEPT ![t] = "typed"]
  /\ UNCHANGED <<channel, posted, file, faults>>

\* setMessageInput: what was in the box is gone.
Replace(t, step, put) ==
  /\ box' = put
  /\ text' = [u \in Texts |-> IF u = t THEN step
                              ELSE IF u = box /\ put # u THEN "dropped" ELSE text[u]]

Press(t) ==
  /\ box = t /\ \A u \in Texts : text[u] # "api"
  /\ IF listed
     THEN /\ canAuthor
          /\ Replace(t, "sealed", NoText)
     ELSE IF canAuthor THEN Replace(t, "matrix", NoText)
     ELSE text' = [text EXCEPT ![t] = "api"] /\ UNCHANGED box
  /\ UNCHANGED <<channel, posted, file, faults>>

\* The room has it; the promise resolves, or is rejected all the same.
Deliver(t) ==
  /\ text[t] \in {"sealed", "matrix"} /\ t \notin posted
  /\ posted' = posted \cup {t}
  /\ UNCHANGED <<channel, box, text, file, faults>>

Resolve(t) ==
  /\ text[t] \in {"sealed", "matrix"} /\ t \in posted
  /\ text' = [text EXCEPT ![t] = "sent"]
  /\ UNCHANGED <<channel, box, posted, file, faults>>

\* An encrypted channel's text goes back to the box; another's goes to the API.
Reject(t) ==
  /\ text[t] \in {"sealed", "matrix"} /\ Fault
  /\ IF text[t] = "sealed" THEN Replace(t, "returned", t)
     ELSE text' = [text EXCEPT ![t] = "api"] /\ UNCHANGED box
  /\ UNCHANGED <<channel, posted, file>>

\* messages.send refuses an encrypted channel.  Success empties the box, an
\* error leaves it as it is.
Api(t) ==
  /\ text[t] = "api"
  /\ \/ ~encrypted /\ Replace(t, "sent", NoText) /\ posted' = posted \cup {t} /\ UNCHANGED faults
     \/ /\ IF encrypted THEN UNCHANGED faults ELSE Fault
        /\ text' = [text EXCEPT ![t] = IF box = t THEN "returned" ELSE "dropped"]
        /\ UNCHANGED <<box, posted>>
  /\ UNCHANGED <<channel, file>>

-------------------------------------------------------------------------------
(* uploadFile *)

Step(pc) == upload' = [upload EXCEPT !.pc = pc]

Choose ==
  /\ upload.pc = "unbegun"
  /\ upload' = [pc |-> IF listed /\ ~canAuthor THEN "over" ELSE "post", sealed |-> listed]
  /\ told' = IF listed /\ ~canAuthor THEN "failed" ELSE told
  /\ UNCHANGED <<channel, writing, share, announced, faults>>

\* POST /api/upload; without an answer the client does not know the share.
PostFile ==
  /\ upload.pc = "post"
  /\ \/ /\ share' = TRUE /\ Step(IF upload.sealed THEN "announce" ELSE "over")
        /\ UNCHANGED <<told, faults>>
     \/ /\ Fault /\ share' \in BOOLEAN /\ Step("over") /\ told' = "failed"
  /\ UNCHANGED <<channel, writing, announced>>

(* Mutant: the share is not taken back when the key could not be shared. *)
AnnounceUnguarded(pc, next) ==
  /\ upload.pc = pc
  /\ \/ announced' = TRUE /\ Step("over") /\ UNCHANGED <<told, faults>>
     \/ /\ Fault /\ announced' \in {announced, TRUE}
        /\ Step(IF next = "abandon" THEN "over" ELSE next)
        /\ told' = IF next = "abandon" THEN "removed" ELSE told
  /\ UNCHANGED <<channel, writing, share>>

Announce(pc, next) ==
  /\ upload.pc = pc
  /\ \/ announced' = TRUE /\ Step("over") /\ UNCHANGED <<told, faults>>
     \/ Fault /\ announced' \in {announced, TRUE} /\ Step(next) /\ UNCHANGED told
  /\ UNCHANGED <<channel, writing, share>>

\* DELETE /api/uploads/:id; a failure is logged, and the person told the same.
Abandon ==
  /\ upload.pc = "abandon" /\ told' = "removed"
  /\ \/ share' = FALSE /\ Step("over") /\ UNCHANGED faults
     \/ Fault /\ Step("stuck") /\ UNCHANGED share
  /\ UNCHANGED <<channel, writing, announced>>

Next ==
  \/ Encrypt \/ Relist \/ SessionTurns
  \/ \E t \in Texts : Type(t) \/ Press(t) \/ Deliver(t) \/ Resolve(t) \/ Reject(t) \/ Api(t)
  \/ Choose \/ PostFile \/ Announce("announce", "again") \/ Announce("again", "abandon") \/ Abandon

Spec == Init /\ [][Next]_vars

-------------------------------------------------------------------------------
(* "a file that sits in the list looking fine and is permanently unreadable"     *)
(* (uploadFile): an encrypted file that the instance keeps has its key in the     *)
(* room, unless the upload or its removal was not answered.                      *)
KeyOrRemoved ==
  upload.sealed /\ upload.pc = "over" /\ share => announced \/ told = "failed"

(* "the message must not be lost to an architectural preference"                  *)
(* (Dashboard.tsx:631): a text that was written is in a room, in the box or         *)
(* under way.  It is violated: the box was emptied for the first attempt, and the   *)
(* second one's error does not fill it again.                                     *)
MessageNotLost ==
  \A t \in Texts : text[t] = "dropped" => t \in posted
===============================================================================
