----------------------------- MODULE WebConsole -----------------------------
(***************************************************************************)
(* The page the gateway serves as its console (ui.rs): one WebSocket at a  *)
(* time, requests that wait for their answers in a map, a timer for each,  *)
(* reconnection, and a feed that is filled by histories, streams and       *)
(* broadcast events. The gateway handles the requests of one socket in the *)
(* order sent (ws.rs), so their answers come in that order; events come at *)
(* any time between them. Answers on a closed socket are lost, and nothing *)
(* but its timer then settles a request.                                   *)
(*                                                                         *)
(* The five requests of refreshAll are one request. Texts, lists and       *)
(* layout are left out; the feed is known by the session it shows.         *)
(***************************************************************************)
EXTENDS Naturals, Sequences

CONSTANTS
  WcSessions,     \* session keys
  WcMaxRequests,  \* bound: requests made
  WcMaxSockets,   \* bound: sockets opened
  WcMaxTries      \* 5, the limit on _reconnectAttempts

VARIABLES
  wcSocket,    \* FC.socket: [no, state]
  wcClosing,   \* earlier sockets whose close event is still to come
  wcTries,     \* FC._reconnectAttempts
  wcTimers,    \* reconnections scheduled
  wcNextId,    \* FC.nextId
  wcCount,     \* requests made
  wcPending,   \* FC.pending: the requests that wait: [id, no, kind, arg]
  wcAlarms,    \* requests whose timers run
  wcAsked,     \* requests on the socket, not answered yet
  wcSettled,   \* [no, by]: request no was settled by the answer or the timer of request by
  wcSelected,  \* FC.selectedSession
  wcFeed,      \* the session whose history the feed shows
  wcStreams,   \* FC.activeStreams: [id, shown], shown while its bubble is in the feed
  wcLoaded,    \* tabs loaded
  wcApprovals, \* FC.pendingApprovals
  wcFiles      \* FC.pendingAttachments

wcNet == <<wcSocket, wcClosing, wcTries, wcTimers>>
wcRpc == <<wcNextId, wcCount, wcPending, wcAlarms, wcAsked, wcSettled>>
wcPage == <<wcSelected, wcFeed, wcStreams, wcLoaded, wcApprovals, wcFiles>>
wcVars == <<wcNet, wcRpc, wcPage>>

NoSession == "none"

WcInit ==
  /\ wcSocket = [no |-> 0, state |-> "closed"] /\ wcClosing = {} /\ wcTries = 0 /\ wcTimers = 0
  /\ wcNextId = 1 /\ wcCount = 0 /\ wcPending = {} /\ wcAlarms = {} /\ wcAsked = <<>>
  /\ wcSettled = {}
  /\ wcSelected = NoSession /\ wcFeed = NoSession /\ wcStreams = {} /\ wcLoaded = {}
  /\ wcApprovals = 0 /\ wcFiles = 0

connected == wcSocket.state = "open"

----------------------------------------------------------------------------
(* Requests                                                                 *)

\* What is left of pending, alarms and requests on the socket when code that may ask runs.
AsIs == [pending |-> wcPending, alarms |-> wcAlarms, asked |-> wcAsked]

\* No request follows.
quiet(left) ==
  /\ wcPending' = left.pending /\ wcAlarms' = left.alarms /\ wcAsked' = left.asked
  /\ UNCHANGED <<wcNextId, wcCount>>

\* A request goes out: its timer is set and its answer awaited.
Ask(kind, arg, left) ==
  LET req == [id |-> wcNextId, no |-> wcCount + 1, kind |-> kind, arg |-> arg]
  IN /\ wcNextId' = wcNextId + 1 /\ wcCount' = wcCount + 1
     /\ wcPending' = {p \in left.pending : p.id # req.id} \cup {req}
     /\ wcAlarms' = left.alarms \cup {req} /\ wcAsked' = Append(left.asked, req)

\* FC.rpc: rejected at once when not connected.
rpc(kind, arg, left) ==
  IF connected /\ wcCount < WcMaxRequests THEN Ask(kind, arg, left) ELSE quiet(left)

refreshAll(left) == rpc("refresh", NoSession, left)

\* The feed is emptied: the bubbles of streams in it are no longer in the page.
clearFeed(s) ==
  /\ wcFeed' = s
  /\ wcStreams' = {[x EXCEPT !.shown = FALSE] : x \in wcStreams}

\* What waits for the answer of each kind of request.
resolved(q, left) ==
  \/ q.kind = "refresh" /\ quiet(left) /\ UNCHANGED wcPage
  \/ /\ q.kind = "send" /\ wcSelected' \in WcSessions /\ wcFiles' = 0 /\ refreshAll(left)
     /\ UNCHANGED <<wcFeed, wcStreams, wcLoaded, wcApprovals>>
  \/ /\ q.kind = "reset" /\ clearFeed(NoSession) /\ refreshAll(left)
     /\ UNCHANGED <<wcSelected, wcLoaded, wcApprovals, wcFiles>>
  \/ /\ q.kind = "history" /\ clearFeed(q.arg) /\ rpc("canvas", NoSession, left)
     /\ UNCHANGED <<wcSelected, wcLoaded, wcApprovals, wcFiles>>
  \/ /\ q.kind = "again" /\ clearFeed(q.arg) /\ quiet(left)
     /\ UNCHANGED <<wcSelected, wcLoaded, wcApprovals, wcFiles>>
  \/ /\ q.kind \in {"usage", "agents", "cron"} /\ wcLoaded' = wcLoaded \cup {q.kind} /\ quiet(left)
     /\ UNCHANGED <<wcSelected, wcFeed, wcStreams, wcApprovals, wcFiles>>
  \/ /\ q.kind = "approve" /\ wcApprovals' = 0 /\ quiet(left)
     /\ UNCHANGED <<wcSelected, wcFeed, wcStreams, wcLoaded, wcFiles>>
  \/ q.kind = "manage" /\ refreshAll(left) /\ UNCHANGED wcPage
  \/ q.kind = "job" /\ rpc("cron", NoSession, left) /\ UNCHANGED wcPage
  \/ q.kind \in {"canvas", "ping"} /\ quiet(left) /\ UNCHANGED wcPage

\* A rejection is shown; a message that was not sent is cleared away all the same.
rejected(kind, left) ==
  IF kind = "send"
  THEN /\ wcFiles' = 0 /\ refreshAll(left)
       /\ UNCHANGED <<wcSelected, wcFeed, wcStreams, wcLoaded, wcApprovals>>
  ELSE quiet(left) /\ UNCHANGED wcPage

Waiting(id) == {p \in wcPending : p.id = id}
WcRecord(settled, by) == wcSettled' = wcSettled \cup {[no |-> p.no, by |-> by] : p \in settled}

\* A response frame: the request under its id, if it still waits, is settled.
handleResponse ==
  /\ connected /\ wcAsked # <<>>
  /\ LET q == Head(wcAsked)
         left == [AsIs EXCEPT !.pending = @ \ Waiting(q.id), !.asked = Tail(@)]
     IN /\ WcRecord(Waiting(q.id), q.no)
        /\ \/ Waiting(q.id) = {} /\ quiet(left) /\ UNCHANGED wcPage
           \/ \E p \in Waiting(q.id) : resolved(p, left) \/ rejected(p.kind, left)
  /\ UNCHANGED wcNet

\* The 30 s timer of a request: whatever waits under its id is rejected.
rpcTimeout ==
  /\ \E a \in wcAlarms :
       LET left == [AsIs EXCEPT !.pending = @ \ Waiting(a.id), !.alarms = @ \ {a}]
       IN /\ WcRecord(Waiting(a.id), a.no)
          /\ \/ Waiting(a.id) = {} /\ quiet(left) /\ UNCHANGED wcPage
             \/ \E p \in Waiting(a.id) : rejected(p.kind, left)
  /\ UNCHANGED wcNet

----------------------------------------------------------------------------
(* The connection                                                           *)

WcLost == wcAsked' = <<>> /\ UNCHANGED <<wcNextId, wcCount, wcPending, wcAlarms, wcSettled>>

\* Seeded bug: request ids start again on every connection.
doConnectFresh ==
  /\ wcSocket.no < WcMaxSockets
  /\ wcClosing' = IF wcSocket.state = "closed" THEN wcClosing ELSE wcClosing \cup {wcSocket.no}
  /\ wcSocket' = [no |-> wcSocket.no + 1, state |-> "connecting"]
  /\ wcTries' = 0 /\ wcAsked' = <<>> /\ wcNextId' = 1
  /\ UNCHANGED <<wcCount, wcPending, wcAlarms, wcSettled, wcPage>>

\* doConnect: the socket there is is closed, its close event comes later; the count of
\* attempts starts again.
doConnect ==
  /\ wcSocket.no < WcMaxSockets
  /\ wcClosing' = IF wcSocket.state = "closed" THEN wcClosing ELSE wcClosing \cup {wcSocket.no}
  /\ wcSocket' = [no |-> wcSocket.no + 1, state |-> "connecting"]
  /\ wcTries' = 0 /\ WcLost /\ UNCHANGED wcPage

ConnectClicked == doConnect /\ UNCHANGED wcTimers
ReconnectDue == wcTimers > 0 /\ wcTimers' = wcTimers - 1 /\ doConnect

onOpen ==
  /\ wcSocket.state = "connecting"
  /\ wcSocket' = [wcSocket EXCEPT !.state = "open"] /\ wcTries' = 0
  /\ wcLoaded' = {}
  /\ IF wcCount < WcMaxRequests THEN Ask("refresh", NoSession, AsIs) ELSE quiet(AsIs)
  /\ UNCHANGED <<wcSettled, wcSelected, wcFeed, wcStreams, wcApprovals, wcFiles, wcClosing, wcTimers>>

\* The close event of the socket, or of an earlier one: both schedule a reconnection.
Reschedule ==
  IF wcTries < WcMaxTries THEN wcTries' = wcTries + 1 /\ wcTimers' = wcTimers + 1
  ELSE UNCHANGED <<wcTries, wcTimers>>
onClose ==
  \/ /\ wcSocket.state \in {"connecting", "open"}
     /\ wcSocket' = [wcSocket EXCEPT !.state = "closed"] /\ WcLost
     /\ Reschedule /\ UNCHANGED <<wcClosing, wcPage>>
  \/ /\ \E n \in wcClosing : wcClosing' = wcClosing \ {n}
     /\ Reschedule /\ UNCHANGED <<wcSocket, wcRpc, wcPage>>

keepalive == connected /\ rpc("ping", NoSession, AsIs) /\ UNCHANGED <<wcSettled, wcNet, wcPage>>

----------------------------------------------------------------------------
(* The user                                                                 *)

Asks(kind, arg) == connected /\ wcCount < WcMaxRequests /\ rpc(kind, arg, AsIs) /\ UNCHANGED <<wcSettled, wcNet>>

refreshClicked == Asks("refresh", NoSession) /\ UNCHANGED wcPage

\* Text goes through the socket; a message with attachments by HTTP, then the replies are polled.
sendMessage ==
  \/ wcFiles = 0 /\ Asks("send", wcSelected) /\ UNCHANGED wcPage
  \/ /\ wcFiles > 0 /\ wcFiles' = 0
     /\ \/ wcSelected' \in WcSessions   \* the answer of /api/web/inbound, drainWebOutbound
        \/ UNCHANGED wcSelected         \* a failed fetch
     /\ refreshAll(AsIs) /\ UNCHANGED <<wcSettled, wcNet, wcFeed, wcStreams, wcLoaded, wcApprovals>>

uploadAttachments ==
  /\ wcFiles = 0 /\ wcFiles' = 1
  /\ UNCHANGED <<wcNet, wcRpc, wcSelected, wcFeed, wcStreams, wcLoaded, wcApprovals>>

removeAttachment ==
  /\ wcFiles > 0 /\ wcFiles' = 0
  /\ UNCHANGED <<wcNet, wcRpc, wcSelected, wcFeed, wcStreams, wcLoaded, wcApprovals>>

resetSession == wcSelected # NoSession /\ Asks("reset", wcSelected) /\ UNCHANGED wcPage

\* The selection changes before the history is there.
loadSession ==
  /\ \E s \in WcSessions : wcSelected' = s /\ Asks("history", s)
  /\ UNCHANGED <<wcFeed, wcStreams, wcLoaded, wcApprovals, wcFiles>>

\* The buttons of a session: compact, delete.
sessionButtons == Asks("manage", NoSession) /\ UNCHANGED wcPage
cronButtons == Asks("job", NoSession) /\ UNCHANGED wcPage
\* A tab is loaded when it is first opened while connected.
switchTab(tab) == tab \notin wcLoaded /\ Asks(tab, NoSession) /\ UNCHANGED wcPage

loadUsage == switchTab("usage")
loadAgents == switchTab("agents")
loadCron == Asks("cron", NoSession) /\ UNCHANGED wcPage
resolveApproval == wcApprovals > 0 /\ Asks("approve", NoSession) /\ UNCHANGED wcPage

----------------------------------------------------------------------------
(* Events                                                                   *)

Sends == {wcAsked[i].id : i \in {j \in DOMAIN wcAsked : wcAsked[j].kind = "send"}}
notStreams == <<wcNet, wcRpc, wcSelected, wcFeed, wcLoaded, wcApprovals, wcFiles>>

\* Text of a stream goes to its bubble, in the feed or not; a first one opens a bubble.
chatDelta ==
  /\ connected
  /\ \E id \in Sends :
       wcStreams' = IF \E x \in wcStreams : x.id = id THEN wcStreams
                    ELSE wcStreams \cup {[id |-> id, shown |-> TRUE]}
  /\ UNCHANGED notStreams

\* chat_complete and chat_error of any client's request: ids are only known by their number.
chatEnds ==
  /\ connected
  /\ \E id \in 1..WcMaxRequests : wcStreams' = {x \in wcStreams : x.id # id}
  /\ UNCHANGED notStreams

\* A change to any session: the history of the selected one is asked for.
sessionUpdated ==
  /\ wcSelected # NoSession /\ Asks("again", wcSelected) /\ UNCHANGED wcPage

approvalRequested ==
  /\ connected /\ wcApprovals = 0 /\ wcApprovals' = 1
  /\ UNCHANGED <<wcNet, wcRpc, wcSelected, wcFeed, wcStreams, wcLoaded, wcFiles>>

WcNext ==
  \/ handleResponse \/ rpcTimeout
  \/ ConnectClicked \/ ReconnectDue \/ onOpen \/ onClose \/ keepalive
  \/ refreshClicked \/ sendMessage \/ uploadAttachments \/ removeAttachment \/ resetSession
  \/ loadSession \/ sessionButtons \/ cronButtons \/ loadUsage \/ loadAgents \/ loadCron
  \/ resolveApproval \/ chatDelta \/ chatEnds \/ sessionUpdated \/ approvalRequested

WcSpec == WcInit /\ [][WcNext]_wcVars

----------------------------------------------------------------------------
(* Properties                                                               *)

\* A request is settled at most once, and by its own answer or its own timer: neither an
\* answer on an earlier socket nor a timer armed before a reconnection settles a later
\* request, because ids go on counting across connections.
SettledByItsOwn ==
  /\ \A s \in wcSettled : s.no = s.by
  /\ \A p \in wcPending : \A s \in wcSettled : s.no # p.no
=============================================================================
