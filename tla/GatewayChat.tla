----------------------------- MODULE GatewayChat -----------------------------
(***************************************************************************)
(* The gateway's WebSocket side of a chat: the read loop of a connection   *)
(* dispatches one frame at a time and awaits its handler (ws.rs), chat.send*)
(* registers a cancellation token and runs the turn inside that dispatch   *)
(* (methods.rs), streamed deltas and responses share the client's bounded  *)
(* queue, and approvals and cancellations come as frames of any            *)
(* connection. The turn (ChatTurns) is reduced to its waiting points.      *)
(***************************************************************************)
EXTENDS Naturals, Sequences, FiniteSets

CONSTANTS
  Conns, Runs, Keys, Sessions,
  RunConn,     \* the connection a run's chat.send arrives on
  RunKey,      \* its request id, the key of active_runs
  May,         \* operations the clients of a model use
  Risks,       \* {TRUE}: tools that need approval, {FALSE}: tools that do not
  QueueCap,    \* CLIENT_QUEUE_CAPACITY
  DeltaCap,    \* capacity of the delta channel
  MaxDeltas,   \* deltas of one model call
  MaxCalls,    \* tool calls of one run
  MaxFrames,   \* frames each client sends
  None

ASSUME GatewayConstants ==
  /\ RunConn \in [Runs -> Conns] /\ RunKey \in [Runs -> Keys]
  /\ Keys \cap Sessions = {}
  /\ Risks \subseteq BOOLEAN /\ None \notin Runs
  /\ QueueCap \in Nat \ {0} /\ DeltaCap \in Nat \ {0}
  /\ MaxDeltas \in Nat /\ MaxCalls \in Nat /\ MaxFrames \in [Conns -> Nat]

VARIABLES
  editors,     \* connections whose role is at least Editor
  sock,        \* the client: "open", "stalled" (does not read) or "closed"
  inbox,       \* frames sent and not yet read by the gateway
  sent,        \* frames a client has sent
  reg,         \* the connection task is running (state.clients)
  out,         \* its outbound task is running
  queue,       \* frames in its mpsc queue
  respond,     \* the read loop is sending a response
  pc,          \* run: "idle" "round" "model" "tools" "wait" "done"
  outcome,     \* run: "none" "ok" "cancelled" "error"
  calls,       \* run: tool calls started
  todo,        \* run: deltas the provider has yet to stream in this call
  deltas,      \* run: deltas in the delta channel
  active,      \* active_runs: a key's token, named by its run
  cancelled,   \* runs whose token is cancelled
  clashed,     \* runs that were under way at the same time under one key
  askq,        \* approval requests taken by the run's approval task
  pending,     \* pending_approvals
  seen,        \* approval ids a client was told of
  decision,    \* run: what its oneshot receiver holds
  allowed,     \* approval ids that were allowed (allow_always is no different)
  executed,    \* calls executed: <<run, number, needed approval>>
  late         \* run: calls executed after its token was cancelled

clientVars == <<editors, sock, inbox, sent, seen>>
connVars == <<reg, out, queue, respond>>
runVars == <<pc, outcome, calls, todo, deltas, executed, late>>
regVars == <<active, cancelled, clashed>>
apprVars == <<askq, pending, decision, allowed>>
vars == <<clientVars, connVars, runVars, regVars, apprVars>>

Ops == {"send", "cancel", "resolve", "delete"}
Ids == Runs \X (1..MaxCalls)
Decisions == {"allow_once", "allow_always", "deny"}

Live(r) == pc[r] \notin {"idle", "done"}
Busy(c) == \E r \in Runs : RunConn[r] = c /\ Live(r)

Init ==
  /\ editors \in SUBSET Conns
  /\ sock = [c \in Conns |-> "open"] /\ inbox = [c \in Conns |-> <<>>]
  /\ sent = [c \in Conns |-> 0] /\ seen = [c \in Conns |-> {}]
  /\ reg = [c \in Conns |-> TRUE] /\ out = [c \in Conns |-> TRUE]
  /\ queue = [c \in Conns |-> 0] /\ respond = [c \in Conns |-> FALSE]
  /\ pc = [r \in Runs |-> "idle"] /\ outcome = [r \in Runs |-> "none"]
  /\ calls = [r \in Runs |-> 0] /\ todo = [r \in Runs |-> 0]
  /\ deltas = [r \in Runs |-> 0] /\ executed = {} /\ late = [r \in Runs |-> 0]
  /\ active = [k \in Keys \cup Sessions |-> None] /\ cancelled = {} /\ clashed = {}
  /\ askq = {} /\ pending = {} /\ decision = [r \in Runs |-> "none"]
  /\ allowed = {}

-----------------------------------------------------------------------------
(* Clients.                                                                *)

\* What a client may send next: its own runs once, cancellations and deletions
\* of anything, decisions on approvals it was told of.
Frames(c) ==
  LET Calls(op, args, ds) == [op : May \cap {op}, arg : args, d : ds] IN
  Calls("send", {r \in Runs : RunConn[r] = c}, {"deny"}) \cup Calls("cancel", Keys, {"deny"})
    \cup Calls("resolve", seen[c], Decisions) \cup Calls("delete", Sessions, {"deny"})

\* The run's chat.send is on its way.
OnItsWay(c, r) == \E i \in DOMAIN inbox[c] : inbox[c][i].op = "send" /\ inbox[c][i].arg = r

ClientSends(c) ==
  /\ sock[c] # "closed" /\ sent[c] < MaxFrames[c]
  /\ \E f \in Frames(c) :
       /\ f.op = "send" => pc[f.arg] = "idle" /\ ~OnItsWay(c, f.arg)
       /\ inbox' = [inbox EXCEPT ![c] = Append(@, f)]
  /\ sent' = [sent EXCEPT ![c] = @ + 1]
  /\ UNCHANGED <<editors, sock, seen, connVars, runVars, regVars, apprVars>>

ClientStalls(c) ==
  /\ sock[c] = "open"
  /\ sock' = [sock EXCEPT ![c] = "stalled"]
  /\ UNCHANGED <<editors, inbox, sent, seen, connVars, runVars, regVars, apprVars>>

ClientCloses(c) ==
  /\ sock[c] # "closed"
  /\ sock' = [sock EXCEPT ![c] = "closed"]
  /\ UNCHANGED <<editors, inbox, sent, seen, connVars, runVars, regVars, apprVars>>

-----------------------------------------------------------------------------
(* A connection: the read loop and the outbound task.                      *)

\* The loop reads the next frame only when the previous handler has returned.
Reads(c, op) ==
  /\ reg[c] /\ ~Busy(c) /\ ~respond[c]
  /\ inbox[c] # <<>> /\ Head(inbox[c]).op = op
  /\ inbox' = [inbox EXCEPT ![c] = Tail(@)]
  /\ UNCHANGED <<editors, sock, sent, seen>>

\* A handler returned: its response waits for room in the client's queue.
Returns(c) == respond' = [respond EXCEPT ![c] = TRUE] /\ UNCHANGED <<reg, out, queue>>

\* dispatch_method refuses every one of these methods below Editor.
Forbidden(c) ==
  /\ c \notin editors
  /\ \E op \in Ops : Reads(c, op)
  /\ Returns(c)
  /\ UNCHANGED <<runVars, regVars, apprVars>>

\* chat_send up to the turn: the token is registered under the request id, in place of
\* another run's if there is one.
ChatSend(c) ==
  /\ c \in editors /\ Reads(c, "send")
  /\ LET r == Head(inbox[c]).arg
         rivals == {q \in Runs : Live(q) /\ RunKey[q] = RunKey[r]}
     IN /\ pc' = [pc EXCEPT ![r] = "round"]
        /\ active' = [active EXCEPT ![RunKey[r]] = r]
        /\ clashed' = IF rivals = {} THEN clashed ELSE clashed \cup rivals \cup {r}
  /\ UNCHANGED <<connVars, outcome, calls, todo, deltas, executed, late, cancelled, apprVars>>

CancelKey(k) ==
  /\ active' = [active EXCEPT ![k] = None]
  /\ cancelled' = cancelled \cup ({active[k]} \ {None})
  /\ UNCHANGED clashed

ChatCancel(c) ==
  /\ c \in editors /\ Reads(c, "cancel")
  /\ CancelKey(Head(inbox[c]).arg)
  /\ Returns(c)
  /\ UNCHANGED <<runVars, apprVars>>

\* sessions_delete looks its session key up among the request ids.
SessionsDelete(c) ==
  /\ c \in editors /\ Reads(c, "delete")
  /\ CancelKey(Head(inbox[c]).arg)
  /\ Returns(c)
  /\ UNCHANGED <<runVars, apprVars>>

\* The sender is removed from the map and fires once; an unknown id is a 404.
ToolApprovalResolve(c) ==
  /\ c \in editors /\ Reads(c, "resolve")
  /\ LET id == Head(inbox[c]).arg
         d  == Head(inbox[c]).d
     IN IF id \in pending
          THEN /\ pending' = pending \ {id}
               /\ decision' = [decision EXCEPT ![id[1]] = d]
               /\ allowed' = IF d = "deny" THEN allowed ELSE allowed \cup {id}
               /\ UNCHANGED askq
          ELSE UNCHANGED apprVars
  /\ Returns(c)
  /\ UNCHANGED <<runVars, regVars>>

\* The connection task ends: outbound is aborted, the client unregistered.
Cleanup(c) ==
  /\ reg' = [reg EXCEPT ![c] = FALSE] /\ out' = [out EXCEPT ![c] = FALSE]
  /\ queue' = [queue EXCEPT ![c] = 0] /\ respond' = [respond EXCEPT ![c] = FALSE]

\* client_tx.send(response).await: waits for room, or finds the receiver gone.
SendResponse(c) ==
  /\ reg[c] /\ respond[c]
  /\ \/ /\ out[c] /\ queue[c] < QueueCap
        /\ queue' = [queue EXCEPT ![c] = @ + 1]
        /\ respond' = [respond EXCEPT ![c] = FALSE]
        /\ UNCHANGED <<reg, out>>
     \/ ~out[c] /\ Cleanup(c)
  /\ UNCHANGED <<clientVars, runVars, regVars, apprVars>>

\* ws_rx.next() reports the end only after the frames that came before it.
Disconnect(c) ==
  /\ reg[c] /\ ~Busy(c) /\ ~respond[c] /\ sock[c] = "closed" /\ inbox[c] = <<>>
  /\ Cleanup(c)
  /\ UNCHANGED <<clientVars, runVars, regVars, apprVars>>

\* The outbound task writes one frame; it ends when the write of a frame or of a
\* broadcast (of any part of the gateway) finds the socket gone.
Outbound(c) ==
  /\ out[c]
  /\ \/ sock[c] = "open" /\ queue[c] > 0 /\ queue' = [queue EXCEPT ![c] = @ - 1] /\ UNCHANGED out
     \/ /\ sock[c] = "closed"
        /\ out' = [out EXCEPT ![c] = FALSE] /\ queue' = [queue EXCEPT ![c] = 0]
  /\ UNCHANGED <<clientVars, reg, respond, runVars, regVars, apprVars>>

-----------------------------------------------------------------------------
(* A run: Runtime::chat inside chat_send.                                  *)

\* Seeded bug: a finished run stays in active_runs.
FinishLeaks(r, how) ==
  /\ pc' = [pc EXCEPT ![r] = "done"] /\ outcome' = [outcome EXCEPT ![r] = how]
  /\ respond' = [respond EXCEPT ![RunConn[r]] = TRUE]
  /\ UNCHANGED <<regVars, clientVars, reg, out, queue>>

\* chat returned: the key is removed whoever holds it, the response follows.
Finish(r, how) ==
  /\ pc' = [pc EXCEPT ![r] = "done"] /\ outcome' = [outcome EXCEPT ![r] = how]
  /\ active' = [active EXCEPT ![RunKey[r]] = None]
  /\ respond' = [respond EXCEPT ![RunConn[r]] = TRUE]
  /\ UNCHANGED <<cancelled, clashed, clientVars, reg, out, queue>>

Keeps(r) == UNCHANGED <<outcome, clientVars, connVars, regVars>>

\* Top of a round: the token is checked, then the model is called.
StartRound(r) ==
  /\ pc[r] = "round"
  /\ \/ /\ r \in cancelled
        /\ Finish(r, "cancelled") /\ UNCHANGED todo
     \/ /\ r \notin cancelled
        /\ pc' = [pc EXCEPT ![r] = "model"]
        /\ \E n \in 0..MaxDeltas : todo' = [todo EXCEPT ![r] = n]
        /\ Keeps(r)
  /\ UNCHANGED <<calls, deltas, executed, late, apprVars>>

\* The provider streams a delta: blocked while the channel is full, discarded
\* once the forwarding task has found the client's queue closed.
ModelDelta(r) ==
  /\ pc[r] = "model" /\ todo[r] > 0
  /\ \/ ~out[RunConn[r]] /\ UNCHANGED deltas
     \/ out[RunConn[r]] /\ deltas[r] < DeltaCap /\ deltas' = [deltas EXCEPT ![r] = @ + 1]
  /\ todo' = [todo EXCEPT ![r] = @ - 1]
  /\ UNCHANGED <<pc, outcome, calls, executed, late, clientVars, connVars, regVars, apprVars>>

\* The task that forwards deltas to the client's queue; it outlives the run.
ForwardDelta(r) ==
  LET c == RunConn[r] IN
  /\ deltas[r] > 0
  /\ \/ /\ out[c] /\ queue[c] < QueueCap
        /\ queue' = [queue EXCEPT ![c] = @ + 1]
        /\ deltas' = [deltas EXCEPT ![r] = @ - 1]
     \/ /\ ~out[c]
        /\ deltas' = [deltas EXCEPT ![r] = 0] /\ UNCHANGED queue
  /\ UNCHANGED <<pc, outcome, calls, todo, executed, late, clientVars, reg, out, respond,
                 regVars, apprVars>>

\* The call returns: an answer (or a failure) ends the run, or tools follow.
ModelReturns(r) ==
  /\ pc[r] = "model" /\ todo[r] = 0
  /\ \/ \E how \in {"ok", "error"} : Finish(r, how)
     \/ /\ calls[r] < MaxCalls
        /\ pc' = [pc EXCEPT ![r] = "tools"] /\ Keeps(r)
  /\ UNCHANGED <<calls, todo, deltas, executed, late, apprVars>>

\* Seeded bug: the model call is awaited without looking at the token.
ModelCancelledNever(r) == FALSE /\ UNCHANGED vars

\* tokio::select!: the token wins over a model call in progress.
ModelCancelled(r) ==
  /\ pc[r] = "model" /\ r \in cancelled
  /\ Finish(r, "cancelled")
  /\ todo' = [todo EXCEPT ![r] = 0]
  /\ UNCHANGED <<calls, deltas, executed, late, apprVars>>

\* After a call the batch goes on, or it ends and the next round starts.
NextCall(r, n) ==
  \E where \in IF n < MaxCalls THEN {"tools", "round"} ELSE {"round"} :
    pc' = [pc EXCEPT ![r] = where]

Execute(r, n, risky) ==
  /\ executed' = executed \cup {<<r, n, risky>>}
  /\ late' = [late EXCEPT ![r] = IF r \in cancelled THEN @ + 1 ELSE @]
  /\ NextCall(r, n)

\* One call: the token is checked, then the tool runs or approval is requested.
StartCall(r) ==
  /\ pc[r] = "tools"
  /\ \/ /\ r \in cancelled
        /\ Finish(r, "cancelled")
        /\ UNCHANGED <<calls, executed, late, apprVars>>
     \/ /\ r \notin cancelled
        /\ calls' = [calls EXCEPT ![r] = @ + 1]
        /\ \E risky \in Risks :
             IF risky
               THEN /\ askq' = askq \cup {<<r, calls'[r]>>}
                    /\ pc' = [pc EXCEPT ![r] = "wait"]
                    /\ UNCHANGED <<executed, late, pending, decision, allowed>>
               ELSE Execute(r, calls'[r], FALSE) /\ UNCHANGED apprVars
        /\ Keeps(r)
  /\ UNCHANGED <<todo, deltas>>

\* The run's approval task stores the sender...
StoreApproval(id) ==
  /\ id \in askq \ pending
  /\ pending' = pending \cup {id}
  /\ UNCHANGED <<askq, decision, allowed, clientVars, connVars, runVars, regVars>>

\* Seeded bug: the announcement does not wait for the sender.
AnnounceApprovalEarly(id) ==
  /\ id \in askq
  /\ askq' = IF id \in pending THEN askq \ {id} ELSE askq
  /\ seen' = [c \in Conns |-> IF out[c] /\ sock[c] = "open" THEN seen[c] \cup {id} ELSE seen[c]]
  /\ UNCHANGED <<editors, sock, inbox, sent, pending, decision, allowed, connVars, runVars,
                 regVars>>

\* ... then broadcasts the request; a client that does not read misses it.
AnnounceApproval(id) ==
  /\ id \in askq \cap pending
  /\ askq' = askq \ {id}
  /\ seen' = [c \in Conns |-> IF out[c] /\ sock[c] = "open" THEN seen[c] \cup {id} ELSE seen[c]]
  /\ UNCHANGED <<editors, sock, inbox, sent, pending, decision, allowed, connVars, runVars,
                 regVars>>

\* Seeded bug: the decision is never taken out, it answers the next call too.
DecidedSticky(r) ==
  /\ pc[r] = "wait" /\ decision[r] # "none"
  /\ \/ /\ decision[r] = "deny"
        /\ NextCall(r, calls[r]) /\ UNCHANGED <<executed, late>>
     \/ decision[r] # "deny" /\ Execute(r, calls[r], TRUE)
  /\ Keeps(r) /\ UNCHANGED <<calls, todo, deltas, apprVars>>

\* decision_rx.await: only a decision ends the wait, the token is not looked at.
Decided(r) ==
  /\ pc[r] = "wait" /\ decision[r] # "none"
  /\ decision' = [decision EXCEPT ![r] = "none"]
  /\ \/ /\ decision[r] = "deny"
        /\ NextCall(r, calls[r]) /\ UNCHANGED <<executed, late>>
     \/ decision[r] # "deny" /\ Execute(r, calls[r], TRUE)
  /\ Keeps(r) /\ UNCHANGED <<calls, todo, deltas, askq, pending, allowed>>

-----------------------------------------------------------------------------
Client(c) == ClientSends(c) \/ ClientStalls(c) \/ ClientCloses(c)
Handler(c) == \/ Forbidden(c) \/ ChatSend(c) \/ ChatCancel(c) \/ SessionsDelete(c)
              \/ ToolApprovalResolve(c)
Connection(c) == Handler(c) \/ SendResponse(c) \/ Disconnect(c)
Provider(r) == ModelDelta(r) \/ ModelReturns(r)
Run(r) == StartRound(r) \/ Provider(r) \/ ModelCancelled(r) \/ StartCall(r) \/ Decided(r)
Approval(id) == StoreApproval(id) \/ AnnounceApproval(id)

Next ==
  \/ \E c \in Conns : Client(c) \/ Connection(c) \/ Outbound(c)
  \/ \E r \in Runs : Run(r) \/ ForwardDelta(r)
  \/ \E id \in Ids : Approval(id)

\* Tokio polls every task that can proceed; a provider answers or its HTTP client
\* times out. Nothing is assumed of clients, nor of what a stalled one must read.
Fairness ==
  /\ \A c \in Conns : WF_vars(Connection(c)) /\ WF_vars(Outbound(c))
  /\ \A r \in Runs : WF_vars(Run(r)) /\ WF_vars(ForwardDelta(r))
  /\ WF_vars(\E id \in askq : Approval(id))

Spec == Init /\ [][Next]_vars
FairSpec == Spec /\ Fairness

-----------------------------------------------------------------------------
(* Properties.                                                             *)

\* No entry of active_runs outlives its run or the run's cancellation (chat_send,
\* chat_cancel), and a run that can still be cancelled is found under its request id. Ids
\* are the clients' choice and every web console counts from 1 (ui.rs): two runs under one id
\* at the same time take the entry from each other.
RegistryExact ==
  \A k \in Keys, r \in Runs :
    /\ active[k] = r => RunKey[r] = k /\ Live(r) /\ r \notin cancelled
    /\ RunKey[r] = k /\ Live(r) /\ r \notin cancelled /\ r \notin clashed => active[k] = r

\* A client that was told of an approval can answer it: the sender is in
\* pending_approvals before the event is broadcast, and stays until a decision.
AnnouncedIsResolvable ==
  \A c \in Conns : \A id \in seen[c] :
    (pc[id[1]] = "wait" /\ calls[id[1]] = id[2] /\ decision[id[1]] = "none") => id \in pending

\* A call that needs approval runs only when that very call was allowed.
OnlyAllowedCallsRun ==
  \A e \in executed : e[3] => <<e[1], e[2]>> \in allowed

\* chat.cancel ends a run even when its client has stopped reading and the
\* provider is blocked on the full delta channel (select! in Runtime::chat); only
\* the wait for a decision is out of its reach.
CancelledRunsEnd == \A r \in Runs : (r \in cancelled) ~> (pc[r] \in {"done", "wait"})

\* A decision that a connected client sent takes effect (the console's approval
\* card sends it on the socket its chat runs on).
AnswersTakeEffect ==
  \A c \in Conns, id \in Ids :
    (\E i \in DOMAIN inbox[c] : inbox[c][i].op = "resolve" /\ inbox[c][i].arg = id)
      ~> (sock[c] # "open" \/ \A i \in DOMAIN inbox[c] : inbox[c][i].arg # id)
=============================================================================
