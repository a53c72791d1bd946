------------------------------- MODULE Inbound -------------------------------
(***************************************************************************)
(* The inbound path (server.rs): one consumer takes the messages of all    *)
(* channels from a bounded queue, runs the turn and brings the answer back *)
(* to the sender. On channels that can edit, a task posts a placeholder    *)
(* and edits it; on the others the answer is delivered in chunks, which is *)
(* the abstract DeliveryPromise here (missing, result: the current one).   *)
(***************************************************************************)
EXTENDS DeliveryPromise

CONSTANTS
  NMsg,        \* bound: messages 1..NMsg, in the order they arrive
  Cap,         \* capacity of the inbound channel (256)
  Edits        \* the messages that come from a channel that can edit

ASSUME InboundConstants == NMsg \in Nat /\ Cap \in Nat \ {0} /\ Edits \subseteq 1..NMsg

Msgs == 1..NMsg

VARIABLES
  arrived, handled, \* messages queued so far, messages the consumer is done with
  stage,       \* the consumer: "idle", "turn", "await" the draft task, "edit", "deliver", "persist", "notice"
  draft,       \* message: its placeholder: "none", "sending", "shown", "failed", "final"
  told,        \* message: an error reply was tried
  rec,         \* message: its reply is recorded in the session
  outcome      \* message: "waiting", "ignored", "failed", "edited" (delivery skipped), "sent", "partial"

inVars == <<arrived, handled, stage, draft, told, rec, outcome>>
ibVars == <<promiseVars, inVars>>

InInit ==
  /\ PromiseInit
  /\ arrived = 0 /\ handled = 0 /\ stage = "idle"
  /\ draft = [m \in Msgs |-> "none"]
  /\ told = [m \in Msgs |-> FALSE] /\ rec = [m \in Msgs |-> FALSE]
  /\ outcome = [m \in Msgs |-> "waiting"]

\* The message the consumer is at.
Cur == handled + 1

\* A channel sends a message into the queue; it waits while the queue is full. The
\* message being handled has left the queue.
Arrive ==
  /\ arrived < NMsg
  /\ arrived - handled < Cap + (IF stage = "idle" THEN 0 ELSE 1)
  /\ arrived' = arrived + 1
  /\ UNCHANGED <<promiseVars, handled, stage, draft, told, rec, outcome>>

\* The consumer is done with the message.
Finish(o) ==
  /\ handled' = handled + 1 /\ stage' = "idle"
  /\ outcome' = [outcome EXCEPT ![Cur] = o]
  /\ UNCHANGED arrived

Goto(s) == stage' = s /\ UNCHANGED <<arrived, handled, outcome>>

\* The consumer takes a message: it is ignored (the gates of groups and senders),
\* refused (no text, too long), or a turn starts, with a draft task if it can edit.
Take ==
  /\ stage = "idle" /\ handled < arrived
  /\ \/ Finish("ignored") /\ UNCHANGED draft
     \/ Goto("notice") /\ UNCHANGED draft
     \/ /\ Goto("turn")
        /\ draft' = IF Cur \in Edits THEN [draft EXCEPT ![Cur] = "sending"] ELSE draft
  /\ missing' \in 1..MaxPieces /\ result' = "none"
  /\ UNCHANGED <<told, rec>>

\* The draft task posts the placeholder, or fails to; it is not waited for when the
\* turn fails, and may be late.
Placeholder(m) ==
  /\ draft[m] = "sending"
  /\ \E d \in {"shown", "failed"} : draft' = [draft EXCEPT ![m] = d]
  /\ UNCHANGED <<promiseVars, arrived, handled, stage, told, rec, outcome>>

\* The edits of the draft while the turn runs carry no account and no chat, so no
\* platform applies them: the placeholder stays as it is until the turn is over.
TurnEnds ==
  /\ stage = "turn"
  /\ \/ Goto("notice")
     \/ Goto(IF Cur \in Edits THEN "await" ELSE "deliver")
  /\ UNCHANGED <<promiseVars, draft, told, rec>>

\* Seeded bug: the consumer waits for a placeholder to edit.
AwaitShown ==
  /\ stage = "await" /\ draft[Cur] = "shown" /\ Goto("edit")
  /\ UNCHANGED <<promiseVars, draft, told, rec>>

\* handle.await: without a placeholder there is nothing to edit, and no delivery.
Await ==
  /\ stage = "await" /\ draft[Cur] # "sending"
  /\ \/ draft[Cur] = "shown" /\ Goto("edit")
     \/ draft[Cur] = "failed" /\ Finish("edited")
  /\ UNCHANGED <<promiseVars, draft, told, rec>>

\* The placeholder becomes the answer; the error of the edit is dropped.
FinalEdit ==
  /\ stage = "edit"
  /\ \/ draft' = [draft EXCEPT ![Cur] = "final"]
     \/ UNCHANGED draft
  /\ Finish("edited")
  /\ UNCHANGED <<promiseVars, told, rec>>

\* deliver_outbound_message; its error is returned.
DeliverStep ==
  /\ stage = "deliver"
  /\ Deliver
  /\ CASE result' = "none" -> Goto("deliver")
       [] result' = "error" -> Goto("notice")
       [] OTHER -> Goto("persist")
  /\ UNCHANGED <<draft, told, rec>>

\* persist_delivery_metadata: recorded, or the session is gone, or the store fails.
Persist ==
  /\ stage = "persist"
  /\ \/ rec' = [rec EXCEPT ![Cur] = TRUE] /\ Finish(result)
     \/ Finish("gone") /\ UNCHANGED rec
     \/ Goto("notice") /\ UNCHANGED rec
  /\ UNCHANGED <<promiseVars, draft, told>>

\* Seeded bug: an error is only logged.
NoticeNot ==
  /\ stage = "notice"
  /\ Finish("failed") /\ UNCHANGED <<promiseVars, draft, told, rec>>

\* send_error_reply, once, its own failure logged.
Notice ==
  /\ stage = "notice"
  /\ told' = [told EXCEPT ![Cur] = TRUE]
  /\ Finish("failed")
  /\ UNCHANGED <<promiseVars, draft, rec>>

Consumer == Take \/ TurnEnds \/ Await \/ FinalEdit \/ DeliverStep \/ Persist \/ Notice

InNext == Arrive \/ Consumer \/ \E m \in Msgs : Placeholder(m)

InSpec == InInit /\ [][InNext]_ibVars

\* Turns, sends and edits end (HTTP timeouts); a delivery in turn ends by its own
\* bounds (Delivery): DeliverStep may not go on for ever without a result.
InFairness ==
  /\ WF_ibVars(Consumer) /\ WF_ibVars(stage = "deliver" /\ DeliverStep /\ result' # "none")
  /\ \A m \in Msgs : WF_ibVars(Placeholder(m))
FairInSpec == InSpec /\ InFairness

-----------------------------------------------------------------------------
(* Properties.                                                             *)

\* On a channel without edits no admitted message ends in silence: the sender has the
\* whole answer, or what was sent is on record, or an error reply was tried. (Only a
\* session that is deleted meanwhile loses the record.)
NothingSilent ==
  \A m \in Msgs \ Edits : outcome[m] \notin {"waiting", "ignored", "gone"} =>
    outcome[m] = "sent" \/ rec[m] \/ told[m]

\* Every message that arrives is dealt with: no message, and no draft that fails,
\* stops the one consumer.
EveryMessageHandled == \A m \in Msgs : (arrived >= m) ~> (handled >= m)
=============================================================================
