------------------------------ MODULE Subagents ------------------------------
(***************************************************************************)
(* Subagents: a turn that calls spawn_subagent registers a run and awaits  *)
(* a turn of its own on the run's session (lib.rs), inside a timeout. The  *)
(* registry (subagent.rs) limits depth and active children per session.    *)
(*                                                                         *)
(* The nested turns are one future: when the caller of the outermost one   *)
(* drops it, or a timeout fires, everything awaited below it stops between *)
(* two awaits and runs no code of its own. A run's session is named by the *)
(* run; operators may also open turns on it.                               *)
(***************************************************************************)
EXTENDS Integers, FiniteSets

CONSTANTS
  Tops,        \* turns started from outside: channels, clients, cron, webhooks
  Sessions,    \* sessions of channels and clients
  MaxRuns,     \* bound: runs 1..MaxRuns
  MaxDepth,    \* DEFAULT_MAX_DEPTH
  MaxChildren  \* DEFAULT_MAX_CHILDREN

ASSUME SubagentConstants ==
  /\ MaxRuns \in Nat /\ MaxDepth \in Nat /\ MaxChildren \in Nat
  /\ Tops \cap Nat = {} /\ Sessions \cap Nat = {}

RunIds == 1..MaxRuns
Turns == Tops \cup RunIds
NoCaller == 0
Active == {"pending", "running"}

VARIABLES
  runs,     \* RunRecord of each run: the parent's session, depth and state
  used,     \* runs 1..used are registered
  session,  \* session a turn works on
  depth,    \* current_depth, read when the turn starts
  at,       \* "off", "thinking", "pending", "waiting" (for a child), "over"
  child     \* the run a turn is registering or waiting for

saVars == <<runs, used, session, depth, at, child>>

SaInit ==
  /\ runs = [r \in RunIds |-> [parent |-> NoCaller, depth |-> 0, state |-> "none"]]
  /\ used = 0
  /\ session = [t \in Turns |-> NoCaller]
  /\ depth = [t \in Turns |-> 0]
  /\ at = [t \in Turns |-> "off"]
  /\ child = [t \in Turns |-> NoCaller]

Live(t) == at[t] \notin {"off", "over"}

depth_of(s) == IF s \in 1..used THEN runs[s].depth ELSE 0

active_children(s) == {r \in 1..used : runs[r].parent = s /\ runs[r].state \in Active}

\* The turns that are awaited below turn t, t included: the smallest set that has t and
\* the child of every waiting turn it has.
AwaitClosed(t, ts) == t \in ts /\ \A u \in ts : at[u] = "waiting" => child[u] \in ts
Awaited(t) == {u \in Turns : \A ts \in SUBSET Turns : AwaitClosed(t, ts) => u \in ts}

\* The future of t ends or is dropped: so are all that it awaits.
Dropped(ts) == [u \in Turns |-> IF u \in ts THEN "over" ELSE at[u]]

\* A channel, client or cron job starts a turn on a session.
Start(t) ==
  /\ at[t] = "off"
  /\ \E s \in Sessions \cup 1..used :
       /\ session' = [session EXCEPT ![t] = s]
       /\ depth' = [depth EXCEPT ![t] = depth_of(s)]
  /\ at' = [at EXCEPT ![t] = "thinking"]
  /\ UNCHANGED <<runs, used, child>>

\* register_spawn: the depth, then under the lock the children, then the insert.
\* A refusal is a tool result: the turn goes on, and nothing changes.
register_spawn(t) ==
  /\ at[t] = "thinking" /\ used < MaxRuns
  /\ depth[t] + 1 <= MaxDepth
  /\ Cardinality(active_children(session[t])) < MaxChildren
  /\ used' = used + 1
  /\ runs' = [runs EXCEPT ![used'] =
                [parent |-> session[t], depth |-> depth[t] + 1, state |-> "pending"]]
  /\ child' = [child EXCEPT ![t] = used']
  /\ at' = [at EXCEPT ![t] = "pending"]
  /\ UNCHANGED <<session, depth>>

\* mark_running, and the child's turn begins on the run's session.
mark_running(t) ==
  LET r == child[t] IN
  /\ at[t] = "pending"
  /\ runs' = [runs EXCEPT ![r].state = "running"]
  /\ session' = [session EXCEPT ![r] = r]
  /\ depth' = [depth EXCEPT ![r] = depth_of(r)]
  /\ at' = [at EXCEPT ![t] = "waiting", ![r] = "thinking"]
  /\ UNCHANGED <<used, child>>

\* complete: the child's turn has ended, with an answer or an error.
complete(t) ==
  LET r == child[t] IN
  /\ at[t] = "waiting" /\ at[r] = "thinking"
  /\ \E outcome \in {"completed", "failed"} : runs' = [runs EXCEPT ![r].state = outcome]
  /\ at' = [at EXCEPT ![t] = "thinking", ![r] = "over"]
  /\ child' = [child EXCEPT ![t] = NoCaller]
  /\ UNCHANGED <<used, session, depth>>

\* Seeded bug: the child's own children are tasks that nobody aborts.
TimeoutShallow(t) ==
  LET r == child[t] IN
  /\ at[t] = "waiting"
  /\ runs' = [runs EXCEPT ![r].state = "timed_out"]
  /\ at' = [Dropped({r}) EXCEPT ![t] = "thinking"]
  /\ child' = [child EXCEPT ![t] = NoCaller]
  /\ UNCHANGED <<used, session, depth>>

\* tokio::time::timeout drops the child's turn with all that it awaits.
Timeout(t) ==
  LET r == child[t] IN
  /\ at[t] = "waiting"
  /\ runs' = [runs EXCEPT ![r].state = "timed_out"]
  /\ at' = [Dropped(Awaited(r)) EXCEPT ![t] = "thinking"]
  /\ child' = [child EXCEPT ![t] = NoCaller]
  /\ UNCHANGED <<used, session, depth>>

\* The turn ends by itself, or its caller drops it: a cron job's timeout, an
\* HTTP client that goes away.
Finish(t) ==
  /\ at[t] = "thinking"
  /\ at' = [at EXCEPT ![t] = "over"]
  /\ UNCHANGED <<runs, used, session, depth, child>>

Drop(t) ==
  /\ at[t] \in {"pending", "waiting"}
  /\ at' = Dropped(Awaited(t))
  /\ UNCHANGED <<runs, used, session, depth, child>>

SaNext ==
  \/ \E t \in Tops : Start(t) \/ Finish(t) \/ Drop(t)
  \/ \E t \in Turns : register_spawn(t) \/ mark_running(t) \/ complete(t) \/ Timeout(t)

SaSpec == SaInit /\ [][SaNext]_saVars

----------------------------------------------------------------------------

\* Work of a subagent goes on only while somebody waits for it: a live child has
\* a live parent that waits for it, and its record is Running. A timeout or a
\* dropped turn stops the whole tree below it.
NoOrphanWork ==
  \A r \in RunIds : Live(r) =>
    /\ \E t \in Turns : at[t] = "waiting" /\ child[t] = r
    /\ runs[r].state = "running"
=============================================================================
