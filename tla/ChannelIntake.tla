---------------------------- MODULE ChannelIntake ----------------------------
(***************************************************************************)
(* How messages come in from the platforms other than Telegram. Slack,     *)
(* Discord and Signal push events over a connection their adapter keeps    *)
(* open (slack.rs, discord.rs, signal.rs): each event is parsed and, when  *)
(* it is a person's message, put into the bounded inbound queue. Slack     *)
(* keeps an event until it is acknowledged, which the adapter does before  *)
(* it queues it; Discord and Signal keep nothing, and no session is        *)
(* resumed. WhatsApp posts several messages in one webhook (whatsapp.rs,   *)
(* server.rs), which the gateway works through before it answers; a post   *)
(* that gets no 202 is posted again as a whole. A connection may break     *)
(* without a sign of it (half-open): Discord's heartbeat finds out in the  *)
(* end, Slack's and Signal's adapters wait for the next event for ever.    *)
(*                                                                         *)
(* A behaviour has one adapter. Events are numbered in the order in which  *)
(* they happen; what an event holds is one of CiEventKinds.                *)
(***************************************************************************)
EXTENDS Naturals, Sequences, SequencesExt, FiniteSets

CONSTANTS
  CiEvents,   \* the events, a sequence of CiEventKinds
  CiCap,      \* capacity of the inbound queue (256)
  CiBatch,    \* most messages in one webhook post
  CiMaxFaults \* bound: failed connections, lost answers, failed turns, crashes, restarts

\* Text of a person; text longer than max_message_bytes; text with a file, which Slack
\* sends with a subtype; a person's event without either; what the bot itself wrote;
\* joins, reactions, receipts and the like.
CiEventKinds == {"talk", "long", "filed", "bare", "own", "note"}

ASSUME CiConstants ==
  /\ CiEvents \in Seq(CiEventKinds) /\ CiCap \in Nat \ {0} /\ CiBatch \in Nat \ {0}
  /\ CiMaxFaults \in Nat

VARIABLES
  ciKind,    \* the platform, "none" before the choice
  ciLink,    \* "connecting", "open", "silent" (half-open), "pause" (5 s), "dead" (fatal
             \* error), "hook" (webhooks)
  ciStep,    \* requests of the connection set-up that have succeeded
  ciSent,    \* events 1..ciSent have happened
  ciHeld,    \* events the platform keeps until they are acknowledged
  ciWire,    \* events on the connection, or still to do of the post being handled
  ciPosts,   \* webhook posts that have had no 202, each a set of events
  ciPost,    \* the one being handled, {} if none
  ciHand,    \* the event the adapter waits to queue, 0 if none
  ciQueue, ciDone,  \* the inbound queue; messages whose handling has begun
  ciSecond,  \* the health monitor has started a second Slack connection
  ciLost,    \* events that were in memory, or on their way, at a fault
  ciFaults

ciVars == <<ciKind, ciLink, ciStep, ciSent, ciHeld, ciPosts, ciWire, ciPost, ciHand, ciQueue, ciDone,
            ciSecond, ciLost, ciFaults>>

CiInit ==
  /\ ciKind = "none" /\ ciLink = "connecting" /\ ciStep = 0 /\ ciSent = 0
  /\ ciHeld = {} /\ ciPosts = {} /\ ciWire = <<>> /\ ciPost = {} /\ ciHand = 0 /\ ciQueue = <<>>
  /\ ciDone = {} /\ ciSecond = FALSE /\ ciLost = {} /\ ciFaults = 0

----------------------------------------------------------------------------
(* What each platform's parser lets through.                                *)

\* parse_event_message: no subtype, so no files as Slack sends them, and no bot. An
\* event without text is passed on.
SlackForwards(k) == k \in {"talk", "long", "bare"}

\* parse_message_create: everything whose author is no bot.
DiscordForwards(k) == k # "own"

\* parse_receive_event: no sync message, not from the account itself, no bare
\* reaction, and nothing without text, file or quote.
SignalForwards(k) == k \in {"talk", "long", "filed"}

\* parse_webhook_payload: content types with text or a file.
WhatsAppForwards(k) == k \in {"talk", "long", "filed"}

Forwards(e) ==
  LET k == CiEvents[e] IN
  CASE ciKind = "slack" -> SlackForwards(k)
    [] ciKind = "discord" -> DiscordForwards(k)
    [] ciKind = "signal" -> SignalForwards(k)
    [] OTHER -> WhatsAppForwards(k)

Keeps == ciKind \in {"slack", "whatsapp"}

Fault == ciFaults < CiMaxFaults /\ ciFaults' = ciFaults + 1

CiPick(p) ==
  /\ ciKind = "none"
  /\ ciKind' = p
  /\ ciLink' = IF p = "whatsapp" THEN "hook" ELSE "connecting"
  /\ UNCHANGED <<ciStep, ciSent, ciHeld, ciPosts, ciWire, ciPost, ciHand, ciQueue, ciDone, ciSecond,
                 ciLost, ciFaults>>

\* An event happens. Discord and Signal push it, or it is gone.
Happen ==
  /\ ciKind # "none" /\ ciSent < Len(CiEvents)
  /\ ciSent' = ciSent + 1
  /\ ciHeld' = IF Keeps THEN ciHeld \cup {ciSent'} ELSE ciHeld
  /\ ciWire' = IF ~Keeps /\ ciLink = "open" THEN Append(ciWire, ciSent') ELSE ciWire
  /\ ciLost' = IF ~Keeps /\ ciLink # "open" THEN ciLost \cup {ciSent'} ELSE ciLost
  /\ UNCHANGED <<ciKind, ciLink, ciStep, ciPosts, ciPost, ciHand, ciQueue, ciDone, ciSecond, ciFaults>>

----------------------------------------------------------------------------
(* The adapters that keep a connection.                                     *)

link == <<ciLink, ciStep>>
intake == <<ciHand, ciQueue, ciDone>>
platformSide == <<ciKind, ciSent, ciPosts, ciPost>>

\* A request of the set-up of p succeeds; after n of them events flow.
SetUp(p, n) ==
  /\ ciKind = p /\ ciLink = "connecting"
  /\ ciStep' = ciStep + 1
  /\ ciLink' = IF ciStep' = n THEN "open" ELSE "connecting"
  /\ UNCHANGED <<platformSide, ciHeld, ciWire, intake, ciSecond, ciLost, ciFaults>>

\* auth.test for the bot's own id, apps.connections.open, the socket.
SlackConnect == SetUp("slack", 3)

\* gateway/bot, the socket, HELLO (within 30 s) and IDENTIFY.
DiscordConnect == SetUp("discord", 3)

\* The event stream.
SignalConnect == SetUp("signal", 1)

\* Seeded bug: an error of the set-up ends the adapter's task.
ConnectFailsForGood ==
  /\ ciLink = "connecting" /\ ciKind # "none" /\ Fault
  /\ ciLink' = "ended" /\ ciStep' = 0
  /\ UNCHANGED <<platformSide, ciHeld, ciWire, intake, ciSecond, ciLost>>

\* One fails: start waits five seconds and begins again.
ConnectFails ==
  /\ ciLink = "connecting" /\ ciKind # "none" /\ Fault
  /\ ciLink' = "pause" /\ ciStep' = 0
  /\ UNCHANGED <<platformSide, ciHeld, ciWire, intake, ciSecond, ciLost>>

\* The run over the connection ends: what is on it goes, and what becomes of the
\* link is for start to say.
Leave(p, l) ==
  /\ ciKind = p /\ ciHand = 0 /\ Fault
  /\ ciLink' = l /\ ciStep' = 0
  /\ ciWire' = <<>>
  /\ ciLost' = IF Keeps THEN ciLost ELSE ciLost \cup ToSet(ciWire)
  /\ UNCHANGED <<platformSide, ciHeld, intake, ciSecond>>

\* is_fatal_slack_error: the API refuses the tokens.
SlackFatal == ciLink = "connecting" /\ ciStep < 2 /\ Leave("slack", "dead")

\* is_fatal_gateway_error: a close with a fatal code, at HELLO or later.
DiscordFatal ==
  /\ ciLink = "open" \/ (ciLink = "connecting" /\ ciStep = 2)
  /\ Leave("discord", "dead")

\* The socket closes or breaks, an acknowledgement cannot be sent, or a frame is
\* neither text nor binary (a ping, too), no UTF-8 or no JSON.
SlackBreak == ciLink = "open" /\ Leave("slack", "pause")

\* The same, a heartbeat cannot be sent, or Discord asks to reconnect (op 7) or calls
\* the session invalid (op 9).
DiscordBreak == ciLink = "open" /\ Leave("discord", "pause")

\* The stream ends or breaks, or a chunk of it is no UTF-8.
SignalBreak == ciLink = "open" /\ Leave("signal", "pause")

\* The connection of p breaks and the adapter is not told: no event comes over it any more.
FallSilent(p) ==
  /\ ciKind = p /\ ciLink = "open" /\ Fault
  /\ ciLink' = "silent" /\ ciWire' = <<>>
  /\ ciLost' = IF Keeps THEN ciLost ELSE ciLost \cup ToSet(ciWire)
  /\ UNCHANGED <<platformSide, ciStep, ciHeld, intake, ciSecond>>

\* It is told at last: the read fails. The adapter of p asks for nothing and sets no
\* time limit, so that may never be.
LateBreak(p) ==
  /\ ciKind = p /\ ciLink = "silent" /\ ciHand = 0
  /\ ciLink' = "pause" /\ ciStep' = 0
  /\ UNCHANGED <<platformSide, ciHeld, ciWire, intake, ciSecond, ciLost, ciFaults>>

\* Discord's adapter sends heartbeats, and in the end one fails.
HeartbeatFails == LateBreak("discord")

\* Slack sends what it holds, the oldest first.
Push ==
  LET waiting == ciHeld \ ToSet(ciWire) IN
  /\ ciKind = "slack" /\ ciLink = "open" /\ waiting # {}
  /\ ciWire' = Append(ciWire, CHOOSE e \in waiting : \A f \in waiting : e <= f)
  /\ UNCHANGED <<platformSide, link, ciHeld, intake, ciSecond, ciLost, ciFaults>>

\* The adapter of p reads an event and parses it.
Receive(p) ==
  /\ ciKind = p /\ ciLink = "open" /\ ciHand = 0 /\ ciWire # <<>>
  /\ ciWire' = Tail(ciWire)
  /\ ciHand' = IF Forwards(Head(ciWire)) THEN Head(ciWire) ELSE 0
  /\ UNCHANGED <<platformSide, link, ciQueue, ciDone, ciSecond, ciLost>>

\* run_socket_mode: every envelope is acknowledged before it is looked at. When Slack
\* does not get the acknowledgement it keeps the event.
SlackRead ==
  /\ Receive("slack")
  /\ \/ ciHeld' = ciHeld \ {Head(ciWire)} /\ UNCHANGED ciFaults
     \/ Fault /\ UNCHANGED ciHeld

\* run_gateway, between heartbeats.
DiscordRead == Receive("discord") /\ UNCHANGED <<ciHeld, ciFaults>>

\* run_event_stream.
SignalRead == Receive("signal") /\ UNCHANGED <<ciHeld, ciFaults>>

\* start begins again after its five seconds.
Wake ==
  /\ ciLink = "pause"
  /\ ciLink' = "connecting"
  /\ UNCHANGED <<platformSide, ciStep, ciHeld, ciWire, intake, ciSecond, ciLost, ciFaults>>

\* Seeded bug: a full queue drops the message instead of making the adapter wait.
QueueOrDrop ==
  /\ ciHand # 0
  /\ ciQueue' = IF Len(ciQueue) < CiCap THEN Append(ciQueue, ciHand) ELSE ciQueue
  /\ ciHand' = 0
  /\ UNCHANGED <<platformSide, link, ciHeld, ciWire, ciDone, ciSecond, ciLost, ciFaults>>

\* inbound_tx.send: waits for room; meanwhile the adapter reads nothing.
Enqueue ==
  /\ ciHand # 0 /\ Len(ciQueue) < CiCap
  /\ ciQueue' = Append(ciQueue, ciHand) /\ ciHand' = 0
  /\ UNCHANGED <<platformSide, link, ciHeld, ciWire, ciDone, ciSecond, ciLost, ciFaults>>

\* The consumer of start_channel_runtime takes a message (Inbound says what it does).
Dequeue ==
  /\ ciQueue # <<>>
  /\ ciDone' = ciDone \cup {Head(ciQueue)} /\ ciQueue' = Tail(ciQueue)
  /\ UNCHANGED <<platformSide, link, ciHeld, ciWire, ciHand, ciSecond, ciLost, ciFaults>>

\* The health monitor finds Slack disconnected: stop() does nothing, and start()
\* opens a second connection whose queue nobody reads. (On Discord and Signal, which
\* push every event to every connection, it ends at its first message.)
SecondConnection ==
  /\ ciKind = "slack" /\ ~ciSecond /\ Fault
  /\ ciSecond' = TRUE
  /\ UNCHANGED <<platformSide, link, ciHeld, ciWire, intake, ciLost>>

\* Slack gives an event to the second connection: it is acknowledged; the send of a
\* message fails, and start returns.
SecondReads ==
  /\ ciSecond
  /\ \E e \in ciHeld \ ToSet(ciWire) :
       /\ ciHeld' = ciHeld \ {e}
       /\ ciLost' = IF Forwards(e) THEN ciLost \cup {e} ELSE ciLost
       /\ ciSecond' = ~Forwards(e)
  /\ UNCHANGED <<platformSide, link, ciWire, intake, ciFaults>>

\* The gateway crashes and is started again.
GatewayCrash ==
  /\ ciKind # "none" /\ Fault
  /\ ciLost' = ciLost \cup ToSet(ciQueue) \cup ({ciHand} \ {0}) \cup (IF Keeps THEN {} ELSE ToSet(ciWire))
  /\ ciLink' = (IF ciKind = "whatsapp" THEN "hook" ELSE "connecting") /\ ciStep' = 0
  /\ ciWire' = <<>> /\ ciPost' = {} /\ ciHand' = 0 /\ ciQueue' = <<>> /\ ciSecond' = FALSE
  /\ UNCHANGED <<ciKind, ciSent, ciHeld, ciPosts, ciDone>>

----------------------------------------------------------------------------
(* WhatsApp's webhook.                                                      *)

\* Events in the order in which they happened.
InOrder(events) ==
  {s \in [1..Cardinality(events) -> events] : ToSet(s) = events /\ \A i, j \in DOMAIN s : i < j => s[i] < s[j]}

\* The platform puts the next messages into a post.
MakePost ==
  LET unposted == ciHeld \ UNION ciPosts IN
  /\ ciLink = "hook"
  /\ \E S \in SUBSET unposted \ {{}} :
       /\ Cardinality(S) <= CiBatch /\ \A e \in S, f \in unposted \ S : e < f
       /\ ciPosts' = ciPosts \cup {S}
  /\ UNCHANGED <<ciKind, ciSent, link, ciHeld, ciWire, ciPost, intake, ciSecond, ciLost, ciFaults>>

\* It posts S, for the first time or again, and S is accepted for handling: the body is
\* not too long, the signature fits, the JSON parses. One that is refused stays with the
\* platform. (Posts are handled one at a time here.)
HookPost(S) ==
  /\ ciLink = "hook" /\ ciPost = {} /\ S \in ciPosts
  /\ \/ /\ ciPost' = S /\ ciWire' \in InOrder({e \in S : Forwards(e)})
        /\ UNCHANGED ciFaults
     \/ Fault /\ UNCHANGED <<ciPost, ciWire>>
  /\ UNCHANGED <<ciKind, ciSent, ciPosts, link, ciHeld, intake, ciSecond, ciLost>>

\* An error ends the handling of the post with an error status: all of it will come again.
HookError ==
  /\ ciWire' = <<>> /\ ciPost' = {}
  /\ UNCHANGED ciDone

\* process_inbound_message for the next message of the post. A text that is too long is
\* an error each time it comes; another message may fail now and succeed later.
HookMessage ==
  /\ ciPost # {} /\ ciWire # <<>>
  /\ LET long == CiEvents[Head(ciWire)] = "long" IN
     \/ /\ ~long
        /\ ciWire' = Tail(ciWire) /\ ciDone' = ciDone \cup {Head(ciWire)}
        /\ UNCHANGED <<ciPost, ciFaults>>
     \/ ~long /\ HookError /\ Fault
     \/ long /\ HookError /\ UNCHANGED ciFaults
  /\ UNCHANGED <<ciKind, ciSent, ciPosts, link, ciHeld, ciHand, ciQueue, ciSecond, ciLost>>

\* 202 is answered, or the platform does not get the answer.
HookAnswer ==
  /\ ciPost # {} /\ ciWire = <<>>
  /\ ciPost' = {}
  /\ \/ ciHeld' = ciHeld \ ciPost /\ ciPosts' = ciPosts \ {ciPost} /\ UNCHANGED ciFaults
     \/ Fault /\ UNCHANGED <<ciHeld, ciPosts>>
  /\ UNCHANGED <<ciKind, ciSent, link, ciWire, intake, ciSecond, ciLost>>

\* The platform posts the post of event e, again and again until it gets a 202.
PostOf(e) == \E S \in ciPosts : e \in S /\ HookPost(S)

----------------------------------------------------------------------------

CiWork ==
  \/ SlackConnect \/ DiscordConnect \/ SignalConnect \/ Wake
  \/ Push \/ SlackRead \/ DiscordRead \/ SignalRead
  \/ HeartbeatFails \/ Enqueue \/ Dequeue
  \/ MakePost \/ HookMessage \/ HookAnswer

CiNext ==
  \/ \E p \in {"slack", "discord", "signal", "whatsapp"} : CiPick(p)
  \/ Happen \/ CiWork \/ \E e \in DOMAIN CiEvents : PostOf(e)
  \/ \E p \in {"slack", "discord", "signal"} : FallSilent(p)
  \/ LateBreak("slack") \/ LateBreak("signal")
  \/ ConnectFails \/ SlackFatal \/ DiscordFatal \/ SlackBreak \/ DiscordBreak \/ SignalBreak
  \/ SecondConnection \/ SecondReads \/ GatewayCrash

CiSpec == CiInit /\ [][CiNext]_ciVars

\* What people said, as far as the adapter is meant to pass it on.
Talks ==
  {e \in 1..ciSent : CiEvents[e] \in {"talk", "long"} \/ (CiEvents[e] = "filed" /\ ciKind # "slack")}

\* Everyone's message is somewhere: with the platform, on its way, in memory, handled,
\* or it was in memory or on its way at a fault. In particular no event that Slack or
\* WhatsApp has given up is dropped by a full queue, by a connection that breaks or by
\* a failing neighbour in its post.
MessagesAccounted ==
  Talks \subseteq ciHeld \cup ToSet(ciWire) \cup {ciHand} \cup ToSet(ciQueue) \cup ciDone \cup ciLost

\* A text that is too long fails each time its post comes, and keeps from being handled
\* what is behind it there.
BehindLong(e) == \E S \in ciPosts : e \in S /\ \E f \in S : f <= e /\ CiEvents[f] = "long"

\* Whatever connections fail and posts are repeated, every message is handled at last,
\* unless it was lost at a fault, the platform refuses the bot for good, or a text that
\* is too long comes first in its post - as long as no connection stays half-open for
\* ever. (There are finitely many events: each time, all that were said are dealt with.)
EveryoneIsHeard ==
  []<>(ciLink # "silent") =>
    []<>(\A e \in Talks : e \in ciDone \cup ciLost \/ ciLink = "dead" \/ BehindLong(e))
=============================================================================
