# A TLA+ verification project for FrankClaw

FrankClaw is a personal AI gateway written in Rust. Messages come in from chat
platforms, WebSocket consoles, HTTP clients, webhooks and cron jobs; each starts
a *turn* of an agent, which calls language models and tools, stores a transcript
in SQLite and sends an answer back. Almost everything is a Tokio task, almost
nothing is locked across an await, and most of what can go wrong needs two
tasks, a dropped future, a failed call or a restart at the wrong moment. Those
are the behaviours modelled here.

* `PROJECT.json` lists components, runs, seeded bugs (mutants), the map from
  definitions to source lines, findings, hazards and theorems.
* `X.tla` models a component, `MC_X.tla` gives its constants values for TLC,
  `X_<run>.cfg` is one set of questions asked of it, `X_proofs.tla` holds TLAPS proofs.
* In a module, definitions commented *Seeded bug* are wrong variants of the
  definition that follows. They are not part of the specification; they show
  that a property would notice such a bug.

To repeat a check: `tlc -config X_run.cfg MC_X`. To repeat a proof: `tlapm X_proofs.tla`.

## 1. The system and its parts

| Part (source) | State it keeps | Operations | What is hard | What makes it correct |
|---|---|---|---|---|
| Agent turn (`runtime/src/lib.rs`) | local `next_seq`, call budget, repeat tracker | `chat`, `compact_session`, usage update | several turns on one session, no lock; cancel and approval between awaits; SQLite errors after a tool has run | turns that answer are serialised, nothing is written below a history already read, effects and records agree |
| Context engine (`runtime/src/context.rs`) | none (functions) | repair, merge, prune, insert marker | each step can undo what an earlier one established; budget edges | no orphaned tool result, oldest goes first, the question is sent |
| Subagents (`runtime/src/subagent.rs`) | run records | register, mark running, complete | nested futures are dropped together; the code after the await never runs | nothing executes unattended |
| Session store and keys (`sessions/src/store.rs`, `core/src/session.rs`) | `sessions`, `transcript` tables, rows plain or encrypted | scope, upsert, append, clear, delete, maintenance | every statement commits by itself; whole rows are read and written back; keys are joined names; the master key may be missing at a restart | a conversation finds what was said in it, and nothing else |
| WebSocket gateway (`gateway/src/ws.rs`, `methods.rs`, `state.rs`) | connections, bounded client queues, `active_runs`, `pending_approvals` | frames, `chat.send`, `chat.cancel`, `tool.approval`, `sessions.*` | a read loop that awaits the handler of each frame; human decisions; slow clients | a registered run can be cancelled, only allowed calls run, cancelled runs end |
| HTTP API, authentication, webhooks (`gateway/src/server.rs`, `auth.rs`, `rate_limit.rs`, `webhooks.rs`, `openai_api.rs`) | attempts and lock per address | every route; check, record | check and record are apart, and a password check lies between | a lock-out lasts |
| Streaming front ends (`gateway/src/openai_api.rs`, `acp.rs`, `cli/src/repl.rs`, `tui.rs`) | a bounded channel of deltas, ACP's sessions | read, show, end | one *Done* per model call, several calls per turn; readers that leave, clients that stop reading | a turn ends whoever stops reading, unless a client stays with its channel full |
| Web console (`gateway/src/ui.rs`) | pending requests, timers, one socket, the feed | request, answer, time out, reconnect | answers and timers of an earlier socket | a request is settled by its own answer or timer |
| Canvas (`gateway/src/canvas.rs`) | documents with revisions | set, patch, clear | notices after the lock is released, revisions that start again | a patch is applied to what its author saw |
| Cron (`cron/src/service.rs`) | job table with `last_run`, job file | tick, spawned runs, add/remove/sync, manual run | late ticks, crash between mark and run, unlocked file writes, edits during a run | a due time fires once, runs do not overlap, ends are recorded |
| Model failover (`models/src/failover.rs`, `circuit_breaker.rs`, `retry.rs`) | one breaker per provider | `complete`, retries | results of concurrent calls arrive in another breaker state; failure after part of an answer was shown | one attempt is shown, calls end |
| Provider adapters (`models/src/anthropic.rs`, `openai_compat.rs`, `sse.rs`, `copilot.rs`) | partial lines, gathered calls; a token and its file | request, decode, gather; exchange, cache | chunks cut anywhere; an answer of one kind is history for the other; calls that share a file | the answer is what was written, tokens are alive |
| Cost guard (`models/src/cost_guard.rs`) | day's cost, window of calls | check, record | check before, record after, a lock for each counter | overrun is bounded by the calls under way |
| Channel adapters (`channels/src`) and the health monitor | offset, connection, acknowledgements | poll, receive, queue; send, edit, upload | moved or acknowledged before queued; second poller after a restart; lost answers, parts that fail | messages are accounted for; what is reported is shown |
| Inbound path (`gateway/src/server.rs`) | bounded queue, draft task | admit, run the turn, deliver, record | one consumer for all channels; a draft task beside the turn | nobody is left without an answer, every message is handled |
| Pairing (`gateway/src/pairing.rs`, CLI) | pending and approved peers, in memory and in a file | request, approve, save, load | two processes rewrite one file | only approved peers start turns |
| Delivery (`gateway/src/delivery.rs`) | attempt counters, draft handle | split, send, retry, edit a draft | lost answers, rate limits, edits that fail | text is complete and in order, words are kept |
| Tools (`tools/src`) | approval level, workspace, browser sessions | every built-in tool | turns call tools at once; requests that fail half way | the approval level binds; no tab is forgotten |
| MCP client (`tools/src/mcp`) | a pipe, two locks | start, request | late answers in the pipe; ids are not compared | answers belong to requests |
| Memory index (`memory/src`) | chunk, embedding and cache tables | sync, search | statements that fail between each other | after a sync the index is whole |
| Media store (`media/src/store.rs`, `virustotal.rs`) | a directory of files, each with its metadata beside it | upload, scan, write, read, clean up | file and metadata are written and removed one after the other; scans that time out | an id names a whole file that passed its scan |
| Configuration (`core/src/config.rs`, `gateway/src/server.rs`, `channels/src/lib.rs`) | running configuration, stamp of the file | validate, start, watch, merge | files edited at any time; the running one is mixed from several | it always passes validation, and edits come to take effect |
| Not modelled: job state machine, triggers, response cache, routing, catalog, media understanding, hooks, API keys, plugins, cryptography, tunnel, slash commands, text filters | | | section 6 | |

How they interact: a channel puts messages into the inbound queue; the consumer
asks *Pairing*, calls the *agent turn* and hands the answer to *Delivery*, which
calls the channel's *send*. A WebSocket `chat.send` calls the same turn from its
connection's read loop and streams deltas into the connection's queue; approvals
travel back through `pending_approvals`. The chat completions API, ACP, the REPL
and the terminal UI read the same stream. The turn asks the *context engine* what
to send, calls the *failover chain* of *providers*, runs *tools*, may start
*subagents* (turns inside turns) and appends to the *session store*, under a key
that the scoping makes of the message. *Cron* starts turns on a job's session.

## 2. Modules and runs

Small components share a run: an MC module extends several modules, and a
variable `part` says which of them a behaviour is about; the variables of the
others keep their initial values. Parts multiply neither each other's states nor
each other's bounds, and each property looks at the variables of one part.
Where components interact, the interaction is in the module itself: Inbound uses
DeliveryPromise, TelegramIntake has the consumer's queue and the monitor,
GatewayChat the turn's waiting points, StreamFronts the turn's stream.

| Run | Modules | Parts |
|---|---|---|
| `turn_loop` | ChatTurns | plans *loop*, *operators* |
| `context_sound` | ContextWindow, Inbound, MemoryIndex, ConfigReload | *context*, *inbound*, *memory*, *config* |
| `gateway_runs` | GatewayChat | three plans |
| `cron_schedule` | CronService | |
| `failover_calls` | Failover, ProviderStreams, CopilotToken, CostGuard, ToolCalls | *chain*, *provider*, *copilot*, *cost*, *tools* |
| `access_limits` | Pairing, HttpApi, Subagents, BrowserSessions, McpClient, SessionStore | *pairing*, *http*, *runs*, *browser*, *mcp*, *sessions* |
| `telegram_intake` | TelegramIntake, ChannelIntake | *telegram*, *others* |
| `delivery_replies` | Delivery (DeliveryPromise, OutboundSplit), ChannelSend, StreamFronts, Canvas, WebConsole, MediaFiles | *reply*, *call*, *front*, *canvas*, *console*, *media* |
| `approval_same_socket`, `streamed_answers`, `tool_images`, `last_reply_edits` | GatewayChat, StreamFronts, ProviderStreams, SessionStore | expected violations |

### ChatTurns — concurrent turns on one session

Every store, model and tool call of `Runtime::chat` is one step of its turn, and
any number of turns work on the same session. State: the transcript (rows by
sequence number), the session row with its usage metadata, and per turn its
program point, `next_seq`, budget, repeat tracker and what it has read. The
operators `sessions.reset`, `delete`, `patch` and `compact` act between the
steps. A turn with a cancel token may be cancelled, one with an approval channel
may wait for a decision, SQLite may fail at any call.

`turn_loop`: two turns on one session, in one of two plans. *loop*: two tool
rounds, approval, cancellation and SQLite failures. *operators*: the operators
beside the turns. At any time the rows of a turn are consecutive and no other's
(`TurnRowsContiguous`), so that turns that answer occupy disjoint intervals of
the transcript; at most one executed call is unrecorded; nothing is stored below
a history already read; turns end. A plan restricts the model, the operators and
SQLite, never the turns. A conflict needs two turns; the proofs lift the safety
part to any number.

### ContextWindow — what the model is sent

The functions of `context.rs` over messages reduced to role, form of their tool
calls, size and the rows they stand for, used over a turn: first call, up to two
tool rounds with pruning in between, optionally after a compaction.
Part *context* of `context_sound` starts from *every* transcript of up to four
rows, damaged ones included, with sizes that make pruning cascade: `ContextSound`
says that results are anchored to a request, that what is dropped is a prefix,
that the question is sent, and that nothing is sent that a summary stands for.

### SessionStore — whose rows, and for how long

Messages are handled one after the other (overlapping turns are ChatTurns): the
adapter's thread id, the scoping's key, `ensure_session`, the two statements of
`append_transcript`, the whole-row writes of the usage and of the delivery
record; between any two of them an operator resets or deletes a session,
maintenance prunes, time passes, or the gateway restarts with or without its
master key. A name with ":" in it is a sequence of parts, so that keys made of
different names could meet.

Part *sessions* of `access_limits` (`HistoryIsKept`): under every scoping a
conversation finds in its session what was said in it, and nothing said to another
agent; under `per_peer` and `per_channel_peer`, which are to separate peers, exactly
what its own peer said. Of `main` and `global` no more is claimed, for what the code
joins under them is not what their comments say (section 7). Two messages over six conversations (direct, group, topic, two
platforms, a second agent's console), two moments, one session kept per agent and
one restart: enough for a stale write of a pruned session, a tie at the limit and
rows written under another key.

`last_reply_edits` (expected violation): a reply that is shown as one message on a
channel that can edit is never recorded, because such a channel takes the draft
path; the channels whose replies are recorded refuse edits. So
`message-edit-last` and `message-delete-last` have nothing they could edit.

### GatewayChat — connections, cancellation, approval

Connections with a read loop that awaits the handler of each frame, a writer,
and a bounded queue; runs that stream deltas, call tools and wait for
approvals; `active_runs` keyed by request id, `pending_approvals`. The turn is
reduced to its waiting points (ChatTurns has the rest).

`gateway_runs`: the registry holds exactly the runs that can still be cancelled
(request ids are distinct there), an announced approval can be answered and lets
only its own call through, a cancelled run executes at most the call it is in
and ends even when its client has stopped reading. Each behaviour follows one of
three plans of `MC_GatewayChat`: one run with deltas that is cancelled, one run
that asks for approvals, a run on each of two connections. A plan restricts the
clients and the model, never the gateway, and keeps the three questions from
multiplying each other's states. Queues hold one entry: capacity only has to be
reachable.

`approval_same_socket` (expected violation): a decision sent on the connection
whose chat waits for it is never read, since the read loop is inside that chat.
The console sends it exactly there.

### CronService — schedules, the job file, crashes

The tick loop with late ticks, the tasks it spawns, `cron.add`, `cron.remove`
and `cron.run`, the snapshot file written without a lock, and a crash and
restart between any two steps, a truncated file included. `cron_schedule`: a due
time starts its job at most once although windows overlap, scheduled runs of a
job never overlap, whatever the crash left in the file; without a crash every
run's end is recorded, so that the job can run again. A tick comes every
two moments (`Period`), or up to one late, until moment five (`MaxTime`): enough
for two windows that overlap or leave a gap. One job is due at three of them; the one
edit adds a second job, replaces or removes the first, or runs it by hand; one crash
happens anywhere. The two safety properties leave out a job that was replaced while it ran: the
run of the old incarnation writes to the `last_run` of the new one (section 7).

### Failover, ProviderStreams, CopilotToken, CostGuard — calls of models

`Failover` has concurrent calls over a chain of providers with circuit breakers,
transient and permanent errors, streamed deltas and callers that drop a call at
any await. Deltas reach the caller through a task of the attempt, which sends them
into the caller's bounded channel and for which the call waits before it looks at the
result (`held`, `Joined`). Part *chain* of `failover_calls`: a caller sees one attempt, and a
call ends unless its caller stays and for ever leaves the deltas unread (`CallsEnd`). Two calls and two providers show every mix of results that arrive in
another breaker state; a threshold of two makes opening, half-opening and closing
all happen. The bounds of the breakers' counters are proved.

`ProviderStreams` is one call to either kind of provider: the server writes
events, the chunks that arrive cut them anywhere, `sse.rs` puts lines together,
the adapters gather texts, calls and their arguments; then the answer becomes
part of the next request, which may go to the other kind. A chunk is decoded by itself,
so a character it ends within is damaged: the events with such a character are counted
(`psTorn`). Part *provider*, with three events, one of them damaged: what was gathered is
what was written, damaged events in their places, the watcher was shown the same, and in the next request every call has its result. `tool_images` (expected
violation): the images a tool returns are in no request.

`CopilotToken`: calls look at the token, exchange it, write the file, read the
expiry back and install it, in steps that interleave, with restarts. Calls queue
for the read-write lock in order, and a request holds it for reading until it is
answered. Part *copilot* covers more than one lifetime of a token, with a margin
of two exchanges (in the code 60 s against two of 15 s) and requests that last
longer than the margin (120 s). No request is *sent* with a dead token, unless the
file could not be written or the token expired while its call waited for the lock
(`TokensAreAlive`; section 7). `CostGuard`: part *cost*, two callers
of two calls each around the end of a day; a limit is exceeded by no more than
the calls under way.

### Subagents — turns inside turns

The registry's records, and the tree of awaited turns. A timeout or a dropped
caller ends the whole subtree at once, without running the code that would have
recorded the end. Part *runs* of
`access_limits`: nothing executes that nobody waits for. Two outside turns and
four runs reach both limits (depth two, one child).

### ToolCalls, BrowserSessions, McpClient — what a turn's calls do

`ToolCalls`: allow list, registry, approval level and, for every built-in tool,
what it needs, refuses and changes; two turns at a time, of which one may call
anything. Part *tools* of `failover_calls`: with the default level no sequence of calls writes,
sends, acts on a page, runs or schedules anything, unless a tool that does so is approved by name. What
does change under it is the canvas and which tabs are open and where: `canvas_*`, `browser_open` and
`browser_close` are declared to read. `BrowserSessions`: the session table whose lock
is released before every request to the browser, and tabs that open or close
although the answer is lost. Part *browser* of `access_limits`: a tab without an owner takes a
failed request, a turn dropped in the middle of an open or a close (each leaves one tab
at most), or overlapping calls for one session. `McpClient`: two pipes, a lock
for writing and one for reading, time-outs, turns dropped anywhere, a server that answers in
order, writes lines that answer nothing and may die. Part *mcp* of the same run: each request
given up, timed out or dropped, and each line that answers nothing shifts every later answer by
one place, for ever; without one each request gets its own. A turn dropped while it writes may
leave half a line, after which nothing is promised.

### TelegramIntake, ChannelIntake — how messages come in

The platform (external: it forgets updates below the offset of a poll and hands
out the rest), the poller, the bounded queue, its consumer, crashes, and the
second poller a restart by the health monitor creates. Part *telegram* of
`telegram_intake`: every message is handled at last, however polls fail, but for
those that were in memory at a crash or that the second poller sent to nobody.
Four updates, two of which fill an answer without being messages, and a queue of
one.

`ChannelIntake` is the same for Slack (acknowledges before it queues), Discord and
Signal (which keep nothing) and WhatsApp (whose posts are repeated as a whole). A
connection may also fall silent: Discord's heartbeat notices, the other adapters wait.
Part *others*: every message is somewhere at any time, and is handled at last unless
it was lost at a fault, the bot is refused for good, or it is in a WhatsApp post behind
a text that is too long, which ends each repetition of its post (`BehindLong`). That
the connection does not stay half-open for ever is a premise; TLC refutes the property
without it, and without `BehindLong`. Four events (one the bot's own, one too long, one
with a file, which Slack's adapter drops), posts of up to two, two faults.

### Inbound, Delivery, DeliveryPromise, OutboundSplit, ChannelSend — the answer's way back

`OutboundSplit` has the pure functions of `delivery.rs`: cutting a text into
pieces, batching attachments, the growing texts of a draft. `Delivery` is
`deliver_outbound_message`: it sends the pieces with attempts, rate limits, lost
answers and drafts. `DeliveryPromise` is the abstract specification of
delivering one reply: its pieces come to be shown in order without a hole, and
the result *sent* means none is missing. What an adapter shows of a piece that it
reports as sent (`Carried`) may be less than the piece: Telegram's albums may lose
their text, WhatsApp's voice messages do, Slack may give up later files, an e-mail has
none. A piece is therefore known by its full text, in batches of files by its files;
what else each platform owes is `ReportedIsShown` of ChannelSend.

Part *reply* of `delivery_replies` starts from every text of up to five characters
(letters, white space, punctuation) against three limits and every list of up to
three attachments with each channel's way of batching. `SplitSound`: the pieces are
parts of the text, one behind the other, and nothing but white space lies between
them; no piece is blank or too long, and where no word is too long there is white
space between any two pieces, so that no word is cut; batches are homogeneous,
ordered and maximal. Delivery ends and implements the promise (`KeepsPromise`: the number of
pieces not yet shown, by text or by files, and the result are the abstract variables; retries and edits
are stuttering). Five characters cover a cut at the first character, at the limit
and without white space.

`ChannelSend` is what is below: the requests that one `send`, `edit_message` or
`delete_message` of an adapter makes, in order, with answers that get lost and
parts that fail. Part *call*: for every platform and up to two files of every
kind, what the caller is told is what the recipient sees.

`Inbound` uses the promise in place of the detail: queue, consumer, turn, draft
task, delivery and recording. Part *inbound* of `context_sound`: no admitted
message of a channel without edits ends in silence, and every message is reached.
Three messages through a queue of one, the second from a channel that can edit.

### StreamFronts, WebConsole, Canvas, MediaFiles — what users look at

`StreamFronts`: a turn sends text, calls and *Done* in every round through a bounded
channel; five front ends read it, each in its way, and may stop. What the completions
API and ACP put out goes through a second bounded channel to a client that reads, leaves,
or does neither (`sfBody`). Part *front*: the turn ends, unless a client stays for ever
with that channel full (`FrontsReturn`). `streamed_answers` (expected violation): the completions stream,
the REPL and the terminal UI stop at, or lose, what comes after the first round.
`WebConsole`: requests with ids and timers over sockets that break; part *console*
has three requests and two sockets. `Canvas`: writers that overlap with the
notices of earlier writers, and a client that patches what it sees; part
*canvas*, three changes. `MediaFiles`: uploads that are scanned, written and
described in steps, reads and clean-up on the same directory, ends of the process
anywhere. Part *media*, two uploads, one reader, one end of the process: what is
served is whole, has its own type and passed its scan.

### Pairing — who may start a turn

The gate, the store in the gateway's memory, the file, and the CLI's copy; saves
truncate before they write and may fail; the gateway may crash in between.
Part *pairing* of `access_limits`: whoever starts a turn was approved for that account
or is on the allow list. A code is not checked against those in use, and an approval
takes the first request that has it; the model lets it be any pending request.

### HttpApi — who is let in

Every route of the gateway, the modes of authentication, and the lock of an
address that fails too often. Looking at the lock and recording the result are two
steps of requests that are served at the same time. Part *http*: two requests at a
time, one of them for any route; a lock-out ends early only through requests that
had passed the look before it was set.

### MemoryIndex, ConfigReload

`MemoryIndex` cuts files into chunks, asks for embeddings, a batch of texts to a
request, and stores both, statement by statement; every statement may fail and the
next sync starts again. Any request may be answered short. The providers put the
answers of the batches one behind the other, so that a short one moves every later
embedding of the file to an earlier text, under which it is cached too: from then on
(`mxShort`) nothing is claimed of embeddings, while lines and chunks are claimed
always. Part *memory*: two files, three changes, a batch of one text in place of 100
(files have up to two chunks). `ConfigReload` has validation and the
construction of channels as functions of the parts of a configuration they look
at, the start of the gateway, and the watcher that stamps, reads, validates and
merges an edited file. Part *config*: any of twelve files edited twice, and
accounts with up to three keys given directly, by environment or not at all; what
passes validation is what runs, and the last good edit takes effect.

## 3. Fairness

Liveness properties are stated under weak fairness of the steps the runtime
takes by itself: Tokio polls every task that can proceed. Calls of models and
platforms end because the code gives them timeouts (120 s for models, 60 s for
channel clients, 30 s for waits between delivery attempts, a time limit for cron
jobs). Strong fairness is used of two platforms: not *every* Telegram poll fails
(`Answer`), and WhatsApp repeats each post until it is accepted (`PostOf`). In an MC
module with parts, the fairness is the one of the part's
module: the watcher of the configuration ticks, readers and turns of a stream are
polled, connections that broke are opened again (`CiWork`). A connection that falls
silent is not claimed to be left, since only Discord's adapter would notice: that none
stays so for ever is a premise of the property. Nothing is assumed of
people and clients: approvals may never come, clients may stop reading, and the
properties that hold say so (a turn with an approval channel is not claimed to
end; `CallsEnd` and `FrontsReturn` have as their premise that what is put out is
taken again and again, or the taker leaves). ChatTurns takes the deltas of a turn as
sent: a reader that holds one up is the subject of Failover, StreamFronts and, with the
gateway's cancellation, GatewayChat.

## 4. What is proved

TLAPS checks the following for every value of the constants, under the `ASSUME`s
of the modules, which TLC evaluates in every run. Most give the constants their
types and say that limits the code uses as divisors or capacities are not zero.
The others say something of the code's values:

* CopilotToken: the margin covers two exchanges, and a token outlives margin and
  exchange (60 s, 15 s, and half an hour at GitHub).
* HttpApi: a lock-out is longer than the window of attempts. That holds of
  `RateLimitConfig::default` (`core/auth.rs:112-121`) and is checked of no other setting.
* CostGuard: the callers are finitely many and there is a most expensive call.
* Delivery: replies have their fields, their limit is not zero, and `MaxPieces` bounds
  what they are split into (`DeliveryPromise` counts pieces up to it). That the pieces
  are a nonempty sequence, and what they are, is proved.
* ContextWindow: a stored transcript is a sequence of messages each for a row of its own,
  and at least one message is kept (`MIN_KEEP_MESSAGES`).
* SessionStore: the names of a platform are told apart (`SrNames`): a place is no person
  of its channel, groups and topics are where the adapters make them, and nobody on the
  web channel is called as the console's key ends. Platforms' ids are so; a web client
  names its sender and thread itself, see section 7.
* ConfigReload: what a readable file holds has the fields of a configuration.
  ChannelSend: what is sent has the fields of a message.

Of the theorems, `TypeCorrect`, `TurnsSerialised` and `BreakersBounded`
state what no run checks; every other one states a property of a run.
Every invariant and every action property that the runs check is stated by one of them,
and so is the refinement; what is only model-checked is liveness (section 5).

| Module | Theorem | Property |
|---|---|---|
| ChatTurns_proofs | `RowsContiguous`, `HistoryIsStable`, `OneLostResult`; `TypeCorrect`, `TurnsSerialised` | `TurnRowsContiguous`, `HistoryStable`, `AtMostOneLostResult`; `TypeOK`, `OkTurnsSerialised` |
| GatewayChat_proofs | `RunsAreFound`, `AnnouncedCanBeAnswered`, `RiskyCallsWereAllowed` | `RegistryExact`, `AnnouncedIsResolvable`, `OnlyAllowedCallsRun` |
| CronService_proofs | `RunsAlternate`, `StartedOnce` | `ScheduledRunsAlternate`, `FiresOnce` |
| Failover_proofs | `NoMixedAnswer`, `StreamsAreAnswered`, `CallsAreCarriedOver`, `OverrunIsBounded`, `DefaultLevelBinds`, `TokensLive`; `BreakersBounded` | `OneAttemptShown`, `StreamedIsAnswered`, `CallsCarriedOver`, `OverrunBounded`, `ApprovalIsBinding`, `TokensAreAlive`; `TypeOK` |
| Access_proofs | `LockoutsHold`, `NoOrphans`, `TabsOwned`, `AnswersLag`, `HistoriesAreKept`, `NoTurnUnapproved` | `OnlyEarlierRequestsUnlock`, `NoOrphanWork`, `TabsAreOwned`, `AnswersLagByTimeouts`, `HistoryIsKept`, `OnlyGranted` |
| Inbound_proofs | `NoneEndsInSilence`, `NoMessageDisappears`, `ReloadKeepsValid`, `ContextIsSound`, `IndexIsSound` | `NothingSilent`, `MessagesAccounted`, `RunningIsValid`, `ContextSound`, `IndexSound` |
| Delivery_proofs | `DeliveryKeepsPromise`, `SplitsAreSound`, `ReportsAreTrue`, `RevisionsNameDocuments`, `SettledOnce`, `ServesWhatWasStored` | `KeepsPromise`, `SplitSound`, `ReportedIsShown`, `RevisionNamesDocument`, `SettledByItsOwn`, `ServedAsStored` |

Few of these are inductive as they stand. What each proof adds, and why:

**FoldLemmas.** Four of the properties say what a recursive function or a fold makes of
a whole transcript, text, file or stream, for data of any length. The induction
theorems of the library take a predicate as a parameter, which the provers cannot
instantiate; the lemmas here say the same of sets. That a nonempty set of numbers has
a least one (`LeastNatural`, from the minimum of a well-founded relation) gives
`InductionUpTo`: a set that holds 0, and with every number below N the next one, holds
N. A proof by induction is then one about the set of positions up to which its
statement is true. `FoldSteps` turns the `FoldLeft` of a sequence, which the community
modules define by recursion over sets of positions, into the states it goes through
(`Stepwise`: f[0] is the base, f[n] is made of f[n - 1] and the n-th element);
`JumpsStop` does so for a loop that goes from a place to a later one until it stops.

**ChatTurns_proofs.** That two finished turns are disjoint depends on where each
began. The invariant adds: a turn's rows lie in its own range from its first
sequence number to `next_seq` (`InRange`, `OwnRows`), nobody else's row lies in
there (`Unmixed`), below a turn's first number there is no gap (`NoGap`), counters
stay in step with the program point (`Counters`, `Budget`, which is also why the
call budget, charged after the batch it was checked for, never goes below zero),
and a compaction leaves nothing of the old numbering (`CompactionClears`). The
action that matters is the append: the primary key refuses a number that is taken,
so a turn that writes its first row fixes the interval, and another turn that read
the same history fails there. For `AtMostOneLostResult` a second invariant counts:
a turn has recorded every call it executed but the one whose result it holds
(`Missing`), and only a turn that failed may have lost that one.

**GatewayChat_proofs.** One invariant for the three theorems, in parts. Frames on
their way: a `chat.send` is in the inbox of its own connection, once, and its run
has not begun; a decision is about an approval that was announced (`GwInboxOK`).
The registry: sessions are no keys of it, a cancelled run has begun, two live runs
under one key have clashed (`GwRegistry`). Approvals: what is asked for or pending
is what its run waits for, a waiting run without a decision has one, and a decision
other than a denial was made for this very call (`GwApprovals`). Calls are numbered
upwards, which is why an announced approval stays announced.

**CronService_proofs.** Incarnations of a job are numbered by the table's version
(`CrVersions`); what `last_run` says of starts is tied to what is due and under way:
it is marked while there is such a start, there is one start of an incarnation at a
time, and the mark is no older than any of them (`CrStarts`). A crash puts any older
table in place, so the same is said of the loop when it is idle and of a gateway
that is down (`CrLoop`).

**Failover_proofs.** `OneAttemptShown` is inductive with the types: once a delta was
shown the call has no step that starts another attempt; deltas that wait for room are
those of a call in flight that has shown some. For the breakers: a closed one
has fewer failures than its threshold, a half-open one fewer successes than it needs,
in any order of results. *Cost*: what is spent leaves room for every caller past
the check of the day, the window room for those past its check, so the sums over
callers are counted with cardinalities. *Tools*: under the default level every call
under way is of a tool that reads or is approved by name. *Copilot*: exchanges that overlap write tokens
that are at most two exchanges apart (`NotFarFrom`), so the expiry kept with a token
exceeds its own by no more than that (`Kept`), which the margin covers; a token in
use either lives or was dead before the call that looks at it read the clock.
*Streams*: the server keeps to the protocol (`Served`); while a stream is read, the
pieces not yet read are those of the events from one place on (`WireRun`), the decoder
holds what has come of the event at that place (`DecoderAt`: nothing, its name, half a
line), and what was gathered and shown tells exactly the events before it (`Tells`,
`Says`: the texts in order, of each call its parts from its announcement on). A chunk
may hold any number of pieces: an induction over them carries the decoder and the
answer along at the same time (`PushSteps`, `GatherSteps`). A damaged event is one of a
text or a call that came before the end of what was read, so it is among those told
(`TornOK`, `TornTells`). *Next request*: whatever
the order in which calls began, the conversation is sent in the form each kind of
provider takes, with a result behind each call (`SentAs`, `CarriedOver`).

**Access_proofs.** *HTTP*: the lock of an address was over when a request now being
verified looked at it, or was set after that look (`LooksBeforeLocks`). *Subagents*:
the tree of awaited turns (`SaTree`): children are younger than the runs that spawned
them and have one parent, so what is awaited below a turn is closed under dropping.
*Browser*: every tab has its session or is in the hand of one call, and what an open
knows of the table between two steps is still so (`BrOwned`), without races; the tabs
nobody has (`Unowned`) are at most the requests that failed and the turns dropped, which
is kept step by step (`LostStep`). *MCP*: ids count the lines written; the answers among
the lines in the pipe are those to the requests from one place on, in order (`Answering`),
and that place is what was written less what waits, was given up or was read astray
(`Heard`), as long as no line is torn.
*Sessions*: when the keys of two conversations are equal is said without keys (`OneKey`)
and proved (`KeysTellApart`, scoping by scoping, over keys as sequences of names); a row is
there for everything that was said, under the key of its conversation, and for nothing
else (`SrInv`); a session that maintenance removes is over the limit only if its agent
has more than that many. *Pairing*: the theorem needs the statement for all three
copies of the state at once, the gateway's, the file's and the CLI's, since any of them
may become any other by a load or a save: `Given` says that whatever a copy lists as
approved was granted.

**Inbound_proofs.** *Consumer*: it works on a message that has arrived, only messages
that can be edited get to the draft, and what is persisted has a result. *Intake*: a
platform that keeps its events still holds what is on its way, Slack sends none
twice at a time (so that an acknowledgement gives up one event only), the messages
of a repeated WhatsApp post are still to do or handled, and no two posts share one (`CiInv`). *Configuration*:
what the watcher mixes of a valid running configuration and a valid file is valid
(`MergeIsValid`): a channel keeps its accounts and gets a policy that was checked.
*Context*: from the first model call on every result is directly behind its request or
behind another result (`Local`, which is local to neighbours and therefore survives
where `ToolResultsAnchored`, which looks back any distance, is not obviously kept), and
before it the transcript is one of rows of their own (`ContextInv`). Each pass of
`context.rs` has its lemma, by induction over the messages: repair makes a transcript
`Local` and merging leaves it so; after either, every place stands for rows of that
place or a later one, and no two for the same row (`Covers`), which is why what is
summarised by its number of places is not also kept; pruning takes away a prefix and
leaves no result at the new front. *Index*: `MxInv` says that of each file a sync has read and put away,
the chunks of what it read are stored, each once, with its own embedding or none (as
long as only last batches came short), and nothing else of that file (`Whole`); of the file at hand exactly the chunks that no
longer wait are stored (`PartOf`, `Remains`), which is what holds between two
statements; and an embedding belongs to a chunk. What `chunk_text` makes of a file, that
every line with text lies in exactly one chunk, is an induction over its lines; that
the answers to batches which were short at the end only are in the places of their
texts is `ConcatenatedIs`.

**Delivery_proofs.** *Splitting*: the pieces do not change after they are cut, so that
everything is said of `Split`. Where one piece ends and the next begins is a fact about
one cut (`ChunkIs`: at white space, if any is in reach; a word is cut only if it is
longer than a message). The recursive function of `SplitText` is followed from the end
of the text backwards (`Strung`, `PiecesLaid`): from every place at which a piece may
begin, the pieces lie one behind the other and hold all the ink that is left (`Laid`);
places in the trimmed text are then places in the text. Batches are a fold over the
files whose invariant is that the last batch alone may still grow (`Albums`).
*Delivery*: the refinement is proved step by step: every step of `Delivery`
either shows nothing new or shows the present piece (`ShowsMore`), the pieces before
it are shown (`DvInv`), and a draft still to be updated is not yet the whole of its
piece, so that no step of the draft shows a piece twice or out of order (a piece with a
draft has no files; what an adapter carries of any piece shows it, `CarriedIsShown`); each
step is then a step of `DeliveryPromise` under the mapping or leaves it as it is. *Adapters*:
what is promised is shown, handed over, or shown by a request that still decides on
the result (`CsCovered`), and what is handed over is shown in the end; at Slack, where
a later upload may be given up, the first file comes first and the text last
(`CsUploads`). *Canvas*: every document stored, noticed, on its way or shown is known,
and since the last clear no other one had its revision (`CvKnown`). *Console*: what
waits, ticks or is on a socket is a request that was made, and what is settled waits
no more. *Media*: an upload past its scan was cleared, one past its file is whole
unless it is old, a read is of an upload that was given out.

## 5. What is only model-checked

* Liveness (`TurnsEnd`, `CallsEnd`, `CancelledRunsEnd`, `RunsAreRecorded`,
  `RepliesEnd`, `EveryMessageHandled`, `EveryoneIsHeard`, `ReloadConverges`): temporal
  reasoning from fairness and ENABLED is outside what the proof system does.
* The four expected violations are counterexamples of TLC's.

## 6. What is left out, and why

* Text: prompts, wording, JSON, encryption, and formats other than the order of
  what they carry. A message is a size and a role, a name is a model value.
* Which request a pairing code finds: codes are drawn without a look at those in use,
  so two peers may share one (one in 32^6 per pair), and an approval then lets in the
  peer that asked first, whoever was meant. The model does not say who was meant.
* Shutdown of the gateway, other than as a crash.
* The broadcast of events to all clients is lossy by design; only the console's
  and the canvas' use of it is modelled.
* The pseudo-streaming branch of `deliver_outbound_message` is modelled in
  Delivery although the inbound path does not reach it: channels that can
  stream take the draft path instead.
* `EmailChannel::start` ignores the inbound queue and nothing calls
  `start_polling`: there is no e-mail intake to model as the code stands.
* Code without a caller: the webhook limiter, `AuthRateLimiter::cleanup`, the
  response cache, model routing, the job state machine and the triggers are not
  modelled. The memory index, the cost guard and the store's `cleanup` have no
  caller either but keep state of their own, and are modelled as libraries.
* Functions without state: slash commands, markdown, sanitising, leak detection,
  links, prompts, the media understanding calls, hooks, API keys, plugins,
  cryptography. `FailoverChain::list_models` skips no provider, whatever its
  comment says; it changes no state.
* Processes outside the gateway: the tunnel, the installer's commands and the
  output of the CLI.
* Everything listed as `not_modelled` in `PROJECT.json`, with its reason.

## 7. Behaviour worth knowing

The models reproduce the following behaviours, which differ from what a document,
a comment or a reader may expect. Where a property of a run has a condition, this
is why.

* Turns: `update_session_usage` and `ensure_session` write back whole rows they
  read before an await, so the usage of a concurrent turn can be lost.
  `compact_session` clears rows that were stored while it waited for the summary.
* Context: the pruning loop over leading tool results ignores
  `MIN_KEEP_MESSAGES`; a request whose turn failed before its result was stored
  stays in later contexts; the marker, a user message, is inserted after the merge
  of equal roles; `pruned_count` is counted on the merged list and used on the raw
  one; compaction drops the metadata of tool calls.
* Sessions: the scoping `Main` is documented as one session per sender, and the
  default, but all direct senders of a channel share it and the default is
  `PerChannelPeer`; `Global`, "across all senders", is one session per channel
  (`core/session.rs:12`, `:18`, `:36-62`). Whole-row writes can move
  `last_message_at` back or bring a deleted session back. Of sessions that tie at
  the limit, maintenance keeps none. Without the master key, encrypted rows are
  read as the JSON they are stored in.
* Last reply: the replies that could be edited are never recorded
  (`last_reply_edits`).
* Gateway: a call approved after its run was cancelled is executed;
  `sessions.delete` looks a session key up among request ids; two consoles may
  use the same request id; a slow client is waited for, not dropped; *allow
  always* is treated as *allow once*; a decision sent on the waiting connection is
  not read (`approval_same_socket`).
* Authentication: a late failure of a request checked before a lock-out is counted
  after it, and a late success takes the lock away.
* Streams: each model call of a turn ends with a *Done*, at which the REPL and the
  completions stream stop; the terminal UI drops text that follows a tool call
  (`streamed_answers`). A client of the completions API that stays connected and stops
  reading holds up its turn (`openai_api.rs:319`, `:400`); there is no time limit.
* Delivery: *sent* is also said of a WhatsApp voice message without its text
  (`whatsapp.rs:409-413`), of a Telegram album whose long text failed
  (`telegram.rs:57-67`), of a Slack upload without its later files (`slack.rs:157-168`)
  and of an e-mail without its files.
* Cron: Running in the file survives a crash, and the job is then skipped;
  `cron.run` and a replaced job can run beside a scheduled run; an older snapshot
  can be written last; jobs that are not in the configuration do not survive a
  restart.
* Cron, replaced jobs: `cron.add` replaces a job whose run is under way, and the end
  of that run writes the `last_run` of the new one (`service.rs:168`). The new job may
  then be taken for done while its own run is active, and started again.
* Failover: a call whose caller stays without reading its stream does not return, for
  it waits for the task that forwards the deltas (`failover.rs:107-123`), and no time
  limit covers that wait. The breaker is not asked again before a retry; an error after the
  first delta is recorded whatever its kind; a success counts for a half-open
  breaker although its call was admitted before.
* Providers: each chunk of a stream is decoded by itself (`sse.rs:16`), so a character
  of several bytes cut between two chunks becomes replacement characters, in texts and
  in the arguments of calls. Images of tool results are in no request (`tool_images`). For a model
  without vision, attachments are handed to the understanding providers without
  their bytes (`data: Vec::new()`, `runtime/src/lib.rs`).
* Copilot: the token is refreshed "60s before expiry" (`copilot.rs:87`), but a call
  waits to install its token behind requests that hold the lock for up to 120 s. After
  a restart with a cached token near its end, a second call waits behind the first
  one's request, then installs its token and sends it, dead. With the condition on
  waiting dropped TLC finds this in part *copilot*.
* Cost guard: once the day's limit is reached nothing is let through, and only a
  recorded call starts a new day.
* Subagents: a run whose waiting turn was dropped stays Running and keeps its
  place among the children.
* Sessions: a name of the web channel is free text (`server.rs:291-347`) and a key does
  not say whether a part of it is a person, a thread or the console: a sender "control"
  under `per_peer` writes in the session the console talks in, and a thread that is called
  like a sender in that sender's.
* MCP: the next line is taken for the answer and ids are not compared, so every
  request that timed out or whose turn was dropped, and every notification of the
  server, shifts all later answers by one.
* Tools: `browser_open` and `browser_close` are declared read-only, as `canvas_*` is
  (`lib.rs:1364`, `:1657`), so the default level opens and closes tabs, although "Read-only
  operations" (`core/src/model.rs:186`) says otherwise of that level.
* Browser: a turn dropped between the creation of a tab and its entry in the table, or
  between the removal of the entry and the end of the tab, leaves a tab nobody knows.
* Memory: an answer with too few embeddings is taken as it is; in a file of more than
  100 texts, one that is not the last gives the later texts' embeddings to earlier ones
  (`embedding.rs:70`, `:102`), and the cache keeps them (`:303`).
  `set_source_hash` has no caller, so every sync embeds every file anew
  although `sync.rs` says only changed ones.
* Configuration: an edit between the read at the start and the watcher's first
  stamp is not seen until the next edit; the cron, memory, browser and
  understanding sections are neither merged nor reported as needing a restart;
  validation refuses channel "email", which can be built; a blank first variable
  name passes validation and fails at the start.
* Canvas: `set` does not check the number of blocks, `patch` does; a cleared
  document starts again at its first revision, so an old number can fit it.
* Media: a file of an upload that failed, and metadata left by an interrupted
  clean-up, stay on the disk: the one until it is old, the other for ever. A file
  above VirusTotal's limit counts as safe.
* WhatsApp: a text above `max_message_bytes` is an error each time its post comes
  (`server.rs:1115`, `:681`): the post is never answered with 202, its earlier messages
  start a turn at each repetition, its later ones never do.
* Slack: an event of a person with a subtype is acknowledged and dropped (`slack.rs:503`),
  and files come as such (`file_share`), although the parser reads `files`. A socket
  that is half-open is never left (no ping, no time limit; `slack.rs:113`); Signal's
  event stream neither.
* Telegram: after a restart by the health monitor two pollers share one offset,
  what the second one takes is dropped, and the monitor, which awaits it, watches
  no more.
* Inbound: on channels that can edit, a placeholder or last edit that fails
  leaves the sender without the answer, the reply is not recorded, and progress
  edits carry no address.
* Pairing: an approval by the CLI does not reach the running gateway and is
  overwritten by its next save.

## 8. Plan

Done: turns, context, sessions, gateway, HTTP and its limits, front ends, console,
canvas, cron, failover, provider adapters, tokens, cost guard, subagents, tools,
browser, MCP, intake of all platforms, pairing, inbound, delivery, adapters'
sends, media store, memory index, configuration; theorems for every invariant and
action property of the runs.

Next: abstract specifications of a session as an append-only log that ChatTurns
implements while nobody empties it, of a job runner with at most one run per job,
and of an inbox with at-least-once delivery; the key rotator and the job state
machine, should they get a caller.
