---------------------------- MODULE SessionStore ----------------------------
(***************************************************************************)
(* Which session a message belongs to (the adapters, core/session.rs,      *)
(* types.rs) and what becomes of the rows of a session (sessions/store.rs) *)
(* while messages are handled one after the other, operators reset and     *)
(* delete sessions, the hourly maintenance prunes them and the gateway is  *)
(* restarted with or without its master key. Each statement commits by     *)
(* itself. Turns that overlap on one session are in ChatTurns.             *)
(*                                                                         *)
(* A name with ":" in it is the sequence of its parts, so that keys made   *)
(* of different names can be equal. The n-th message has the number n; its *)
(* question and its answer are known by it.                                *)
(***************************************************************************)
EXTENDS Naturals, Sequences, FiniteSets

CONSTANTS
  SrConvs,      \* the conversations that are held
  SrAgent,      \* the default agent, which answers the channels
  SrMsgs,       \* bound: messages
  SrTimes,      \* bound: times 1..SrTimes
  SrMaxAge,     \* max_age_days
  SrMax,        \* max_sessions_per_agent
  SrMaxFaults,  \* bound: restarts
  SrReplies     \* what may be recorded of a delivery: how many messages, and whether an id is known

\* A conversation as its platform knows it: a person writes, directly or in a group at a
\* place, perhaps under a topic; or an operator writes to an agent from the console.
SrConv == [agent: STRING, channel: STRING, from: STRING, place: STRING, topic: STRING,
           group: BOOLEAN]

ASSUME SrConstants ==
  /\ SrConvs \subseteq SrConv /\ SrAgent \in STRING /\ SrReplies \subseteq [chunks: Nat \ {0}, id: BOOLEAN]
  /\ SrMsgs \in Nat /\ SrTimes \in Nat /\ SrMaxAge \in Nat /\ SrMax \in Nat /\ SrMaxFaults \in Nat

VARIABLES
  srScope,   \* config.session.scoping
  srKey,     \* the form rows are stored in: "plain", or "sealed" with a master key
  srTime,
  srSess,    \* table sessions: key -> [created, last (0: NULL), rec (metadata.delivery.last_reply)]
  srRows,    \* table transcript
  srPc,      \* where the handling of the current message is
  srCur,     \* its conversation
  srEntry,   \* the row it read and is about to write back
  srN,       \* messages so far
  srFaults,
  srSaid,    \* history: what was stored and nobody asked to remove
  srShown    \* history: sessions whose last reply is shown as one message that can be edited

srTables == <<srSess, srRows, srSaid>>
srTurn == <<srPc, srCur, srEntry, srN>>
srEnv == <<srScope, srKey, srTime, srFaults>>
srVars == <<srTables, srTurn, srEnv, srShown>>

NoRec == [chunks |-> 0, id |-> FALSE]
NoEntry == [created |-> 0, last |-> 0, rec |-> NoRec]
NoConv == [agent |-> "", channel |-> "", from |-> "", place |-> "", topic |-> "", group |-> FALSE]

-----------------------------------------------------------------------------
(* Keys.                                                                   *)

\* The thread_id an adapter gives a message; empty for None.
thread_id(c) ==
  CASE c.channel = "telegram" -> IF c.topic = "" THEN <<c.place>> ELSE <<c.place, "topic", c.topic>>
    [] c.channel = "slack" -> IF c.topic = "" THEN <<c.place>> ELSE <<c.place, "thread", c.topic>>
    [] c.channel = "discord" -> <<c.place>>
    [] c.channel = "web" -> IF c.place = "" THEN <<>> ELSE <<c.place>>
    [] c.channel = "signal" -> IF c.group THEN <<"group", c.place>> ELSE <<>>
    [] OTHER -> <<>>

unwrap_or(name, other) == IF name = <<>> THEN other ELSE name

\* Seeded bug: a group is scoped by who writes in it, as a direct conversation is.
scope_by_sender(scoping, c) ==
  CASE scoping = "main" -> <<"main">>
    [] scoping = "per_peer" -> <<c.from>>
    [] scoping = "per_channel_peer" -> <<"default", c.from>>
    [] scoping = "global" -> <<"global">>

\* The account is "default" on every platform; another one that a web client may name is
\* not followed.
resolve_inbound_account_scope(scoping, c) ==
  LET thread == IF c.group THEN thread_id(c) ELSE <<>>
      peer == unwrap_or(thread, <<c.from>>) IN
  CASE scoping = "main" -> unwrap_or(thread, <<"main">>)
    [] scoping = "per_peer" -> peer
    [] scoping = "per_channel_peer" -> <<"default">> \o peer
    [] scoping = "global" -> <<"global">>

session_key(c) ==
  IF c.channel = "console" THEN <<c.agent, "web", "control">>
  ELSE <<SrAgent, c.channel>> \o resolve_inbound_account_scope(srScope, c)

agent_of(k) == k[1]
channel_of(k) == k[2]

-----------------------------------------------------------------------------
(* The store.                                                              *)

SrInit ==
  /\ srScope \in {"main", "per_peer", "per_channel_peer", "global"}
  /\ srKey \in {"plain", "sealed"}
  /\ srTime = 1
  /\ srSess = [k \in {} |-> NoEntry] /\ srRows = {} /\ srSaid = {}
  /\ srPc = "idle" /\ srCur = NoConv /\ srEntry = NoEntry /\ srN = 0
  /\ srFaults = 0 /\ srShown = {}

Exists(k) == k \in DOMAIN srSess

\* INSERT ... ON CONFLICT(key) DO UPDATE: created_at is kept.
sr_upsert(k, e) ==
  srSess' = [i \in DOMAIN srSess \cup {k} |->
               IF i # k THEN srSess[i]
               ELSE IF Exists(k) THEN [e EXCEPT !.created = srSess[k].created] ELSE e]

\* DELETE FROM sessions: the rows go with their session (ON DELETE CASCADE).
sr_delete(keys) ==
  /\ srSess' = [k \in DOMAIN srSess \ keys |-> srSess[k]]
  /\ srRows' = {r \in srRows : r.key \notin keys}

\* decrypt_content of every row read: with a key, a row that was not written with it is an
\* error, and so is the whole read; without one, whatever bytes are there are the text.
get_transcript_ok(k) == \A r \in srRows : r.key = k /\ srKey = "sealed" => r.form = "sealed"

\* The sessions with more than max_sessions_per_agent of their agent at least as recent as
\* themselves: of sessions with equal dates at the limit none is kept.
Overflow(sess) ==
  LET at(k) == IF sess[k].last = 0 THEN sess[k].created ELSE sess[k].last IN
  {k \in DOMAIN sess :
     Cardinality({j \in DOMAIN sess : agent_of(j) = agent_of(k) /\ at(j) >= at(k)}) > SrMax}

\* The sessions whose last message, or creation, is older than the cutoff.
Outdated ==
  {k \in DOMAIN srSess :
     LET e == srSess[k] IN (IF e.last = 0 THEN e.created ELSE e.last) + SrMaxAge < srTime}

\* The part of what was said that a step may remove.
Forget(keys) == srSaid' = {s \in srSaid : session_key(s.conv) \notin keys}

\* maintenance: the outdated sessions, then those over the limit; one step, for a write
\* between the two statements is as good as one before or after both. An agent with no
\* more than SrMax sessions in use is to lose none of those.
Maintenance ==
  LET young == [k \in DOMAIN srSess \ Outdated |-> srSess[k]]
      gone == Outdated \cup Overflow(young)
      crowded(k) == Cardinality({j \in DOMAIN young : agent_of(j) = agent_of(k)}) > SrMax IN
  /\ gone # {}
  /\ sr_delete(gone)
  /\ Forget({k \in gone : k \in Outdated \/ crowded(k)})
  /\ UNCHANGED <<srTurn, srEnv, srShown>>

-----------------------------------------------------------------------------
(* One message after the other.                                            *)

Key == session_key(srCur)
Step(pc) == srPc' = pc /\ UNCHANGED <<srCur, srN>>
Quit == srPc' = "idle" /\ srCur' = NoConv /\ srEntry' = NoEntry /\ UNCHANGED srN

\* A message comes and its history is read; a turn that cannot read it fails.
SrTake(c) ==
  /\ srPc = "idle" /\ srN < SrMsgs
  /\ srN' = srN + 1
  /\ IF get_transcript_ok(session_key(c)) THEN srPc' = "ensure" /\ srCur' = c
     ELSE UNCHANGED <<srPc, srCur>>
  /\ UNCHANGED <<srTables, srEntry, srEnv, srShown>>

\* ensure_session: look the row up, and ...
sr_ensure ==
  /\ srPc = "ensure"
  /\ Step(IF Exists(Key) THEN "user" ELSE "create")
  /\ UNCHANGED <<srTables, srEntry, srEnv, srShown>>

\* ... insert it if it was not there.
sr_create ==
  /\ srPc = "create"
  /\ sr_upsert(Key, [NoEntry EXCEPT !.created = srTime])
  /\ Step("user")
  /\ UNCHANGED <<srRows, srSaid, srEntry, srEnv, srShown>>

\* append_transcript: the INSERT, refused when the session is gone (the turn fails) ...
append_insert ==
  /\ srPc \in {"user", "answer"}
  /\ IF Exists(Key)
       THEN /\ srRows' = srRows \cup {[key |-> Key, n |-> srN, role |-> srPc, form |-> srKey]}
            /\ srSaid' = srSaid \cup {[conv |-> srCur, n |-> srN, role |-> srPc]}
            /\ Step(IF srPc = "user" THEN "user_date" ELSE "answer_date")
            /\ srEntry' = [NoEntry EXCEPT !.last = srTime]
       ELSE Quit /\ UNCHANGED <<srRows, srSaid>>
  /\ UNCHANGED <<srSess, srEnv, srShown>>

\* ... then the UPDATE of last_message_at to the row's date, of no session if it is gone by now.
append_date ==
  /\ srPc \in {"user_date", "answer_date"}
  /\ srSess' = [k \in DOMAIN srSess |->
                  IF k = Key THEN [srSess[k] EXCEPT !.last = srEntry.last] ELSE srSess[k]]
  /\ Step(IF srPc = "user_date" THEN "model" ELSE "usage")
  /\ srEntry' = NoEntry
  /\ UNCHANGED <<srRows, srSaid, srEnv, srShown>>

\* The turn finds its answer, or fails.
sr_model ==
  /\ srPc = "model"
  /\ \/ Step("answer") /\ UNCHANGED srEntry
     \/ Quit
  /\ UNCHANGED <<srTables, srEnv, srShown>>

\* The reads of update_session_usage and of persist_delivery_metadata.
sr_read ==
  /\ srPc \in {"usage", "record"}
  /\ IF Exists(Key)
       THEN Step(IF srPc = "usage" THEN "usage_write" ELSE "record_write") /\ srEntry' = [srSess[Key] EXCEPT
              !.rec = IF srPc = "record" THEN srEntry.rec ELSE @]
       ELSE IF srPc = "usage" THEN Step("deliver") /\ UNCHANGED srEntry ELSE Quit
  /\ UNCHANGED <<srTables, srEnv, srShown>>

\* update_session_usage writes back the row it read.
usage_write ==
  /\ srPc = "usage_write"
  /\ sr_upsert(Key, srEntry)
  /\ Step("deliver")
  /\ UNCHANGED <<srRows, srSaid, srEntry, srEnv, srShown>>

CanEdit(channel) == channel \in {"telegram", "slack", "discord"}

\* The reply: the console is answered on its socket. A channel that can edit shows it in a
\* draft (or not, when that fails or grows too long) and records nothing. On the others it
\* is delivered, and what is known of the delivery is to be recorded, or it fails.
deliver ==
  /\ srPc = "deliver"
  /\ \/ srCur.channel = "console" /\ Quit /\ UNCHANGED srShown
     \/ /\ CanEdit(srCur.channel) /\ Quit
        /\ \E reply \in SrReplies :
             srShown' = IF reply.chunks = 1 THEN srShown \cup {Key} ELSE srShown \ {Key}
     \/ /\ srCur.channel # "console" /\ ~CanEdit(srCur.channel)
        /\ \/ Quit
           \/ \E reply \in SrReplies : Step("record") /\ srEntry' = [NoEntry EXCEPT !.rec = reply]
        /\ UNCHANGED srShown
  /\ UNCHANGED <<srTables, srEnv>>

\* persist_delivery_metadata writes the row it read, with the new record and date.
record_write ==
  /\ srPc = "record_write"
  /\ sr_upsert(Key, [srEntry EXCEPT !.last = srTime])
  /\ Quit
  /\ UNCHANGED <<srRows, srSaid, srEnv, srShown>>

-----------------------------------------------------------------------------
(* Operators, time and restarts.                                           *)

\* sessions.reset and `frankclaw sessions reset`: clear_transcript.
reset(k) ==
  /\ \E r \in srRows : r.key = k
  /\ srRows' = {r \in srRows : r.key # k} /\ Forget({k})
  /\ UNCHANGED <<srSess, srTurn, srEnv, srShown>>

sessions_delete(k) ==
  /\ Exists(k)
  /\ sr_delete({k}) /\ Forget({k})
  /\ UNCHANGED <<srTurn, srEnv, srShown>>

SrTick ==
  /\ srTime < SrTimes /\ srTime' = srTime + 1
  /\ UNCHANGED <<srTables, srTurn, srScope, srKey, srFaults, srShown>>

\* The gateway stops anywhere and starts again, with the master key in its environment or
\* without it.
SrRestart ==
  /\ srFaults < SrMaxFaults /\ srFaults' = srFaults + 1
  /\ srKey' \in {"plain", "sealed"}
  /\ Quit
  /\ UNCHANGED <<srTables, srScope, srTime, srShown>>

SrNext ==
  \/ \E c \in SrConvs : SrTake(c)
  \/ sr_ensure \/ sr_create \/ append_insert \/ append_date \/ sr_model \/ sr_read
  \/ usage_write \/ deliver \/ record_write
  \/ \E k \in DOMAIN srSess : reset(k) \/ sessions_delete(k)
  \/ Maintenance \/ SrTick \/ SrRestart

SrSpec == SrInit /\ [][SrNext]_srVars

\* What `frankclaw message-edit-last` and `message-delete-last` come to. The rewriting of
\* the stored answer and of the record would follow "edited" and "deleted".
edit_last(k) ==
  LET rec == srSess[k].rec IN
  CASE ~Exists(k) -> "no session"
    [] Exists(k) /\ rec = NoRec -> "no record"
    [] Exists(k) /\ rec.chunks > 1 -> "chunked"
    [] Exists(k) /\ rec.chunks = 1 /\ ~rec.id -> "no id"
    [] Exists(k) /\ rec.chunks = 1 /\ rec.id ->
         IF ~CanEdit(channel_of(k)) THEN "unsupported"
         ELSE IF \A r \in srRows : r.key = k => r.role # "answer" THEN "no turn" ELSE "edited"

delete_last(k) ==
  IF ~Exists(k) THEN "no session"
  ELSE IF srSess[k].rec = NoRec THEN "no record"
  ELSE IF ~srSess[k].rec.id THEN "no id"
  ELSE IF ~CanEdit(channel_of(k)) THEN "unsupported" ELSE "deleted"

-----------------------------------------------------------------------------
(* Properties.                                                             *)

\* A group without a place is taken for a conversation with the one who writes.
Direct(c) == ~c.group \/ c.place = ""

\* What names must tell apart for that: a place is no person of its channel, no key of the
\* gateway's own is a person or a place, and groups and topics are what the adapters make of them.
\* Ids that a platform gives out are so; a web client chooses its names itself.
ASSUME SrNames == \A c \in SrConvs :
  /\ c.group => c.channel = "web" \/ (c.channel \in {"telegram", "slack", "discord", "signal"} /\ c.place # "")
  /\ c.group /\ c.topic # "" => c.channel \in {"telegram", "slack"}
  /\ ~Direct(c) => c.place # "main" /\ \A d \in SrConvs : d.channel = c.channel => d.from # c.place
  /\ c.channel = "web" => "control" \notin {c.from, c.place}

\* The conversations of one peer: never on different channels; directly, those of one person;
\* in a group, those at one place, and under one topic where the platform has topics; from the
\* console, those with one agent.
OnePeer(c, d) ==
  /\ c.channel = d.channel
  /\ c.channel = "console" => c.agent = d.agent
  /\ c.channel # "console" =>
       IF Direct(c) /\ Direct(d) THEN c.from = d.from
       ELSE Direct(c) = Direct(d) /\ c.place = d.place /\ c.topic = d.topic

AgentFor(c) == IF c.channel = "console" THEN c.agent ELSE SrAgent

Found(c) == {<<r.n, r.role>> : r \in {x \in srRows : x.key = session_key(c)}}
SaidIn(convs) == {<<s.n, s.role>> : s \in {x \in srSaid : x.conv \in convs}}

\* However maintenance, operators and writers of whole rows cut in, a conversation finds in its
\* session what was said in it, with no loss but by a reset, a deletion, age, or an agent's having
\* more sessions than it may keep; nothing that was said to another agent; and with the scopings
\* that separate peers (per_peer, per_channel_peer: "Separate session per DM peer", "per channel +
\* peer combination"), nothing but what its own peer said. Of main and global no more is claimed:
\* what they join is not what their comments say (session.rs:12, :18).
HistoryIsKept ==
  \A c \in SrConvs :
    /\ SaidIn({c}) \subseteq Found(c)
    /\ Found(c) \subseteq SaidIn({d \in SrConvs : AgentFor(d) = AgentFor(c)})
    /\ srScope \in {"per_peer", "per_channel_peer"} => Found(c) = SaidIn({d \in SrConvs : OnePeer(d, c)})

\* A reply that is shown as one message on a channel that can edit messages can be edited
\* with `message-edit-last` and deleted with `message-delete-last`.
LastReplyCanBeEdited ==
  srPc = "idle" => \A k \in srShown :
    Exists(k) /\ (\E r \in srRows : r.key = k /\ r.role = "answer") =>
      edit_last(k) = "edited" /\ delete_last(k) = "deleted"
=============================================================================
