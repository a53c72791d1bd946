--------------------------- MODULE BrowserSessions ---------------------------
(***************************************************************************)
(* BrowserClient (frankclaw-tools/src/lib.rs): browser tabs ("targets")    *)
(* opened over HTTP and driven over one WebSocket per command, and the     *)
(* table of sessions under a lock that is released before every request.   *)
(* Turns call the client at the same time. A request to the browser may be *)
(* answered, refused, or done and its answer lost, and a turn may be       *)
(* dropped at any await, so that what follows it is never executed.        *)
(***************************************************************************)
EXTENDS Naturals, FiniteSets

CONSTANTS
  BrTurns,      \* turns that call browser tools
  BrNames,      \* session ids they use
  BrMax,        \* MAX_BROWSER_SESSIONS
  BrTargets,    \* bound: targets 1..BrTargets
  BrFaults,     \* bound: requests that fail though the browser is there
  BrDrops       \* bound: turns dropped with a tab in hand or asked for

VARIABLES
  brSessions,  \* sessions: the target of each open session id
  brLive,      \* targets the browser shows
  brUsed,      \* targets made so far
  brCalls,     \* the call of each turn: operation, session id, step, target in hand
  brFaults,    \* requests that failed so far
  brDrops,     \* turns dropped so far with a tab in hand or asked for
  brRaced      \* an open and another open or close of one session id have overlapped

brVars == <<brSessions, brLive, brUsed, brCalls, brFaults, brDrops, brRaced>>

BrIdle == [op |-> "none", name |-> 0, step |-> "idle", target |-> 0]
BrSet(t, step, target) == brCalls' = [brCalls EXCEPT ![t].step = step, ![t].target = target]
BrReturn(t) == brCalls' = [brCalls EXCEPT ![t] = BrIdle]

BrInit ==
  /\ brSessions = [n \in {} |-> 0] /\ brLive = {} /\ brUsed = 0
  /\ brCalls = [t \in BrTurns |-> BrIdle] /\ brFaults = 0 /\ brDrops = 0 /\ brRaced = FALSE

BrWith(n, g) == [x \in DOMAIN brSessions \cup {n} |-> IF x = n THEN g ELSE brSessions[x]]
BrWithout(n) == [x \in DOMAIN brSessions \ {n} |-> brSessions[x]]

\* The browser fails a request it could have served.
send_command_fails == brFaults < BrFaults /\ brFaults' = brFaults + 1

session_count == Cardinality(DOMAIN brSessions)

----------------------------------------------------------------------------
(* Operations on a page: the session is looked up under the lock, then the  *)
(* page is driven over a socket of its own. What each may answer:           *)

extract == {"snapshot"}
click == {"snapshot", "no such selector"}
type_text == {"snapshot", "no such selector"}
wait_for == {"snapshot", "timed out", "no condition"}
press_key == {"snapshot", "no such selector", "key not allowed"}
screenshot == {"png", "no data"}
aria_snapshot == {"tree"}

PageOps == [extract |-> extract, click |-> click, type_text |-> type_text,
            wait_for |-> wait_for, press_key |-> press_key, screenshot |-> screenshot,
            aria_snapshot |-> aria_snapshot]
Good == {"snapshot", "png", "tree"}

\* connect_page_socket, wait_for_ready, evaluate_*: the page must be there to answer well.
page_op(t) ==
  /\ brCalls[t].op = "page"
  /\ \/ /\ brCalls[t].step = "start" /\ brCalls[t].name \in DOMAIN brSessions
        /\ BrSet(t, "page", brSessions[brCalls[t].name])
     \/ brCalls[t].step = "start" /\ brCalls[t].name \notin DOMAIN brSessions /\ BrReturn(t)
     \/ /\ brCalls[t].step = "page"
        /\ \E op \in DOMAIN PageOps : \E out \in PageOps[op] \cup {"socket failed"} :
             out \in Good => brCalls[t].target \in brLive
        /\ BrReturn(t)
  /\ UNCHANGED <<brSessions, brLive, brUsed, brFaults, brDrops, brRaced>>

----------------------------------------------------------------------------
(* open                                                                    *)

\* A tool of the model's choice is called (resolve_session_id, validate_navigation_url).
BrowserTool(t, op, n) ==
  /\ brCalls[t].step = "idle"
  /\ brCalls' = [brCalls EXCEPT ![t] = [op |-> op, name |-> n, step |-> "start", target |-> 0]]
  /\ brRaced' = (brRaced \/ (op \in {"open", "close"} /\ \E u \in BrTurns \ {t} :
                                brCalls[u].op \in {"open", "close"} /\ brCalls[u].name = n))
  /\ UNCHANGED <<brSessions, brLive, brUsed, brFaults, brDrops>>

\* The existing session is read, the lock released; the limit is checked under it again.
open_lookup(t) ==
  /\ brCalls[t].op = "open"
  /\ \/ brCalls[t].step = "start" /\ brCalls[t].name \in DOMAIN brSessions
        /\ BrSet(t, "navigate", brSessions[brCalls[t].name])
     \/ brCalls[t].step = "start" /\ brCalls[t].name \notin DOMAIN brSessions /\ BrSet(t, "limit", 0)
     \/ brCalls[t].step = "limit" /\ session_count >= BrMax /\ BrReturn(t)
     \/ brCalls[t].step = "limit" /\ session_count < BrMax /\ BrSet(t, "create", 0)
  /\ UNCHANGED <<brSessions, brLive, brUsed, brFaults, brDrops, brRaced>>

\* The page is sent elsewhere; when that fails the session counts as dead.
navigate_target(t) ==
  /\ brCalls[t].op = "open" /\ brCalls[t].step = "navigate"
  /\ \/ brCalls[t].target \in brLive /\ BrSet(t, "insert", brCalls[t].target) /\ UNCHANGED brFaults
     \/ brCalls[t].target \in brLive /\ send_command_fails /\ BrSet(t, "dead", 0)
     \/ brCalls[t].target \notin brLive /\ BrSet(t, "dead", 0) /\ UNCHANGED brFaults
  /\ UNCHANGED <<brSessions, brLive, brUsed, brDrops, brRaced>>

remove_dead_session(t) ==
  /\ brCalls[t].op = "open" /\ brCalls[t].step = "dead"
  /\ brSessions' = BrWithout(brCalls[t].name)
  /\ BrSet(t, "create", 0)
  /\ UNCHANGED <<brLive, brUsed, brFaults, brDrops, brRaced>>

\* A request over HTTP: no tab and an error, a tab, or a tab whose answer is lost.
create_target(t) ==
  /\ brCalls[t].op = "open" /\ brCalls[t].step = "create"
  /\ \/ BrReturn(t) /\ UNCHANGED <<brLive, brUsed, brFaults>>
     \/ /\ brUsed < BrTargets /\ brUsed' = brUsed + 1 /\ brLive' = brLive \cup {brUsed + 1}
        /\ \/ BrSet(t, "insert", brUsed + 1) /\ UNCHANGED brFaults
           \/ BrReturn(t) /\ send_command_fails
  /\ UNCHANGED <<brSessions, brDrops, brRaced>>

open_insert(t) ==
  /\ brCalls[t].op = "open" /\ brCalls[t].step = "insert"
  /\ brSessions' = BrWith(brCalls[t].name, brCalls[t].target)
  /\ BrSet(t, "snapshot", brCalls[t].target)
  /\ UNCHANGED <<brLive, brUsed, brFaults, brDrops, brRaced>>

\* The session stays open whether or not its page can be read.
snapshot_session(t) ==
  /\ brCalls[t].op = "open" /\ brCalls[t].step = "snapshot"
  /\ BrReturn(t) /\ UNCHANGED <<brSessions, brLive, brUsed, brFaults, brDrops, brRaced>>

----------------------------------------------------------------------------
(* close: the session is taken out first, then the tab is closed.          *)

\* Seeded bug: the session is taken out, the tab stays.
close_session_only(t) ==
  /\ brCalls[t].op = "close" /\ brCalls[t].step = "start" /\ BrReturn(t)
  /\ brSessions' = BrWithout(brCalls[t].name) /\ UNCHANGED <<brLive, brFaults, brUsed, brDrops, brRaced>>

close(t) ==
  /\ brCalls[t].op = "close"
  /\ \/ /\ brCalls[t].step = "start" /\ brCalls[t].name \in DOMAIN brSessions
        /\ BrSet(t, "request", brSessions[brCalls[t].name])
        /\ brSessions' = BrWithout(brCalls[t].name) /\ UNCHANGED <<brLive, brFaults>>
     \/ /\ brCalls[t].step = "start" /\ brCalls[t].name \notin DOMAIN brSessions
        /\ BrReturn(t) /\ UNCHANGED <<brSessions, brLive, brFaults>>
     \/ /\ brCalls[t].step = "request" /\ brLive' = brLive \ {brCalls[t].target}
        /\ BrReturn(t) /\ UNCHANGED <<brSessions, brFaults>>
     \/ /\ brCalls[t].step = "request" /\ send_command_fails
        /\ BrReturn(t) /\ UNCHANGED <<brSessions, brLive>>
  /\ UNCHANGED <<brUsed, brDrops, brRaced>>

----------------------------------------------------------------------------
\* The turn is dropped: its time is up or its client has gone. The session was not stored yet,
\* or is taken out already; the browser may have got the request or not.
TurnDropped(t) ==
  /\ brCalls[t].step # "idle" /\ BrReturn(t)
  /\ LET step == brCalls[t].step
         inHand == step \in {"create", "insert", "request"}
     IN /\ inHand => brDrops < BrDrops
        /\ brDrops' = IF inHand THEN brDrops + 1 ELSE brDrops
        /\ \/ UNCHANGED <<brLive, brUsed>>
           \/ /\ step = "create" /\ brUsed < BrTargets
              /\ brUsed' = brUsed + 1 /\ brLive' = brLive \cup {brUsed + 1}
           \/ step = "request" /\ brLive' = brLive \ {brCalls[t].target} /\ UNCHANGED brUsed
  /\ UNCHANGED <<brSessions, brFaults, brRaced>>

BrNext ==
  \E t \in BrTurns :
    \/ \E n \in BrNames, op \in {"page", "open", "close"} : BrowserTool(t, op, n)
    \/ page_op(t) \/ open_lookup(t) \/ navigate_target(t) \/ remove_dead_session(t)
    \/ create_target(t) \/ open_insert(t) \/ snapshot_session(t) \/ close(t) \/ TurnDropped(t)

BrSpec == BrInit /\ [][BrNext]_brVars

----------------------------------------------------------------------------
(* Properties                                                               *)

Held == {brSessions[n] : n \in DOMAIN brSessions} \cup {brCalls[t].target : t \in BrTurns}

\* A tab no session and no call knows stays open for ever, beside the limit on sessions. As long as
\* no open overlaps an open or close of the same session, each failed request and each dropped turn
\* leaves at most one behind, nothing else does, and no session points at a tab that is gone.
TabsAreOwned ==
  ~brRaced =>
    /\ Cardinality(brLive \ Held) <= brFaults + brDrops
    /\ \A n \in DOMAIN brSessions : brSessions[n] \in brLive
=============================================================================
