---------------------------- MODULE TelegramIntake ----------------------------
(***************************************************************************)
(* How messages come in from Telegram (telegram.rs): a task polls for      *)
(* updates from an offset kept in memory, moves the offset past each one   *)
(* and puts the messages into the inbound queue, which one consumer        *)
(* empties (server.rs). The health monitor (health_monitor.rs) restarts a  *)
(* channel that looks disconnected: stop() does nothing and start() runs a *)
(* second poller, in the monitor's own task, with a queue nobody reads.    *)
(*                                                                         *)
(* Updates are numbered as the platform numbers them. The platform forgets *)
(* the updates below the offset of a poll and hands out at most Limit of   *)
(* the others.                                                             *)
(***************************************************************************)
EXTENDS Naturals, Sequences, SequencesExt

CONSTANTS
  N,           \* bound: updates 1..N
  Messages,    \* the updates that parse_message turns into a message
  Limit,       \* most updates in one answer of the platform (100)
  Cap,         \* capacity of the inbound queue (256)
  TgMaxCrashes,  \* bound: crashes of the gateway
  MaxOutages   \* bound: times the channel looks disconnected

ASSUME IntakeConstants ==
  /\ N \in Nat /\ Messages \subseteq 1..N /\ Limit \in Nat \ {0} /\ Cap \in Nat \ {0}
  /\ TgMaxCrashes \in Nat /\ MaxOutages \in Nat

\* The task of start_channel_runtime, and what the monitor's restart becomes.
Pollers == {"main", "restarted"}

VARIABLES
  arrived,   \* updates 1..arrived have reached the platform
  next,      \* the platform forgets the updates below this number
  offset,    \* update_offset
  at,        \* "off", "idle", "polling", "batch", "sending"
  asked,     \* the offset a poller has sent
  batch,     \* the updates of its answer it has yet to go through
  queue,     \* the inbound queue
  handled,   \* messages the consumer has taken, in order
  monitor,   \* "watching", or "starting": inside channel.start
  tgCrashes, outages,
  lost       \* messages in memory when the gateway crashed, or sent to nobody

platform == <<arrived, next>>
pollers == <<offset, at, asked, batch>>
inbound == <<queue, handled>>
faults == <<monitor, tgCrashes, outages, lost>>
tgVars == <<platform, pollers, inbound, faults>>

Started == [p \in Pollers |-> IF p = "main" THEN "idle" ELSE "off"]

TgInit ==
  /\ arrived = 0 /\ next = 1
  /\ offset = 0
  /\ at = Started
  /\ asked = [p \in Pollers |-> 0]
  /\ batch = [p \in Pollers |-> <<>>]
  /\ queue = <<>> /\ handled = <<>>
  /\ monitor = "watching" /\ tgCrashes = 0 /\ outages = 0 /\ lost = {}

Larger(a, b) == IF a > b THEN a ELSE b

\* What the platform hands out: at most Limit updates from n on.
Updates(n) == SelectSeq([i \in 1..Limit |-> n + i - 1], LAMBDA u : u <= arrived)

Arrive ==
  /\ arrived < N
  /\ arrived' = arrived + 1
  /\ UNCHANGED <<next, pollers, inbound, faults>>

\* poll_updates: the offset is loaded and the request sent.
Poll(p) ==
  /\ at[p] = "idle"
  /\ at' = [at EXCEPT ![p] = "polling"]
  /\ asked' = [asked EXCEPT ![p] = offset]
  /\ UNCHANGED <<platform, offset, batch, inbound, faults>>

\* The platform serves the request, and the answer arrives ...
Answer(p) ==
  /\ at[p] = "polling"
  /\ next' = Larger(next, asked[p])
  /\ batch' = [batch EXCEPT ![p] = Updates(next')]
  /\ at' = [at EXCEPT ![p] = "batch"]
  /\ UNCHANGED <<arrived, offset, asked, inbound, faults>>

\* ... or the poll fails, before or after the platform has seen it; start polls again.
PollFails(p) ==
  /\ at[p] = "polling"
  /\ next' \in {next, Larger(next, asked[p])}
  /\ at' = [at EXCEPT ![p] = "idle"]
  /\ UNCHANGED <<arrived, offset, asked, batch, inbound, faults>>

\* Seeded bug: only messages move the offset.
moved_message(u) == IF u \in Messages THEN u + 1 ELSE offset

\* update_offset after update u.
moved(u) == u + 1

\* One update: the offset moves past it, then it is parsed and sent. Nobody
\* receives what the restarted poller sends: poll_updates returns, dropping the
\* rest of the answer, and start polls again.
Take(p) ==
  LET u == Head(batch[p]) IN
  /\ at[p] = "batch" /\ batch[p] # <<>>
  /\ offset' = moved(u)
  /\ \/ /\ u \notin Messages
        /\ batch' = [batch EXCEPT ![p] = Tail(@)]
        /\ UNCHANGED <<at, lost>>
     \/ /\ u \in Messages /\ p = "main"
        /\ at' = [at EXCEPT ![p] = "sending"]
        /\ UNCHANGED <<batch, lost>>
     \/ /\ u \in Messages /\ p = "restarted"
        /\ batch' = [batch EXCEPT ![p] = <<>>]
        /\ at' = [at EXCEPT ![p] = "idle"]
        /\ lost' = lost \cup {u}
  /\ UNCHANGED <<platform, asked, inbound, monitor, tgCrashes, outages>>

\* inbound_tx.send: waits for room.
Send ==
  /\ at["main"] = "sending" /\ Len(queue) < Cap
  /\ queue' = Append(queue, Head(batch["main"]))
  /\ batch' = [batch EXCEPT !["main"] = Tail(@)]
  /\ at' = [at EXCEPT !["main"] = "batch"]
  /\ UNCHANGED <<platform, offset, asked, handled, faults>>

BatchDone(p) ==
  /\ at[p] = "batch" /\ batch[p] = <<>>
  /\ at' = [at EXCEPT ![p] = "idle"]
  /\ UNCHANGED <<platform, offset, asked, batch, inbound, faults>>

\* The consumer of start_channel_runtime takes a message (Inbound says what it does).
Consume ==
  /\ queue # <<>>
  /\ handled' = Append(handled, Head(queue))
  /\ queue' = Tail(queue)
  /\ UNCHANGED <<platform, pollers, faults>>

\* check_all_channels finds the channel disconnected (getMe fails) and try_restart
\* allows it: stop() does nothing, and start() is awaited. Telegram's never returns.
TgRestart ==
  /\ monitor = "watching" /\ outages < MaxOutages
  /\ outages' = outages + 1
  /\ monitor' = "starting"
  /\ at' = [at EXCEPT !["restarted"] = "idle"]
  /\ UNCHANGED <<platform, offset, asked, batch, inbound, tgCrashes, lost>>

InMemory == ToSet(queue) \cup (IF at["main"] = "sending" THEN {Head(batch["main"])} ELSE {})

\* The gateway crashes and is started again: the offset and the queue are gone.
TgCrash ==
  /\ tgCrashes < TgMaxCrashes
  /\ tgCrashes' = tgCrashes + 1
  /\ lost' = lost \cup InMemory
  /\ offset' = 0
  /\ at' = Started
  /\ asked' = [p \in Pollers |-> 0]
  /\ batch' = [p \in Pollers |-> <<>>]
  /\ queue' = <<>>
  /\ monitor' = "watching"
  /\ UNCHANGED <<platform, handled, outages>>

TgNext ==
  \/ Arrive \/ Send \/ Consume \/ TgRestart \/ TgCrash
  \/ \E p \in Pollers : Poll(p) \/ Answer(p) \/ PollFails(p) \/ Take(p) \/ BatchDone(p)

TgSpec == TgInit /\ [][TgNext]_tgVars

\* Tasks that can go on do. Polls time out (60 s), so each is answered or fails,
\* and not all fail.
Fairness ==
  /\ WF_tgVars(Send) /\ WF_tgVars(Consume)
  /\ WF_tgVars(Poll("main")) /\ SF_tgVars(Answer("main"))
  /\ WF_tgVars(Take("main")) /\ WF_tgVars(BatchDone("main"))

TgFairSpec == TgSpec /\ Fairness

----------------------------------------------------------------------------

\* Every message that arrives comes to be handled, or was lost to a crash or to the
\* restarted poller: polls that fail, the second poller and the offset they share
\* leave no message behind.
EveryMessageHandled ==
  \A m \in Messages : (arrived >= m) ~> (m \in ToSet(handled) \cup lost)
=============================================================================
