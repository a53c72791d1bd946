------------------------------ MODULE McpClient ------------------------------
(***************************************************************************)
(* The MCP client (frankclaw-tools/src/mcp): JSON-RPC over the pipes of a  *)
(* child process or over HTTP. Over pipes, a request is written under one  *)
(* lock and a line is read under another, with a timeout; the id of the    *)
(* line is not compared with the id of the request. The server answers the *)
(* requests it reads in order, writes other lines between, and may die. A  *)
(* turn may be dropped at any await.                                       *)
(***************************************************************************)
EXTENDS Naturals, Sequences, FiniteSets, SequencesExt

CONSTANTS
  McpTurns,   \* turns that call tools of this server
  McpIds,     \* bound: request ids 1..McpIds
  McpNotes    \* bound: lines of the server that answer nothing

VARIABLES
  mcKind,      \* "stdio" or "http"
  mcUp,        \* the server lives
  mcIn, mcOut, \* the pipes: ids to be answered; lines to be read, 0 where one answers nothing
  mcTorn,      \* "half": a line without its end was written; "past": another was joined to it
  mcWritten,   \* ids in the order they were written
  mcNext,      \* next_id
  mcInit,      \* initialized
  mcLock,      \* the turn that holds initialized for writing
  mcTools,     \* tools_cache is filled
  mcCalls,     \* the call of each turn: operation, step, id of the request it waits for
  mcReader,    \* the turn that holds stdout
  mcGone,      \* requests given up after they were written
  mcStray,     \* lines read that answered nothing
  mcDone       \* answers accepted: id asked, id answered, whether nobody else waited since the
               \* request was written, and what had been given up, read astray or torn by then

mcPipes == <<mcIn, mcOut, mcTorn>>
mcVars == <<mcKind, mcUp, mcPipes, mcWritten, mcNext, mcInit, mcLock, mcTools, mcCalls,
            mcReader, mcGone, mcStray, mcDone>>

McIdle == [op |-> "none", step |-> "idle", id |-> 0, alone |-> TRUE]

McInit ==
  /\ mcKind \in {"stdio", "http"} /\ mcUp = TRUE /\ mcIn = <<>> /\ mcOut = <<>> /\ mcTorn = "no" /\ mcWritten = <<>>
  /\ mcNext = 1 /\ mcInit = FALSE /\ mcLock = {} /\ mcTools = FALSE
  /\ mcCalls = [t \in McpTurns |-> McIdle] /\ mcReader = {} /\ mcGone = 0 /\ mcStray = 0 /\ mcDone = {}

McStep(t, step) == mcCalls' = [mcCalls EXCEPT ![t].step = step]
Waiting == {t \in McpTurns : mcCalls[t].step = "wait"}

\* list_tools answers from its cache; otherwise a call first makes sure of the handshake.
McCall(t) ==
  /\ mcCalls[t].step = "idle"
  /\ \E op \in {"list_tools", "call_tool"} :
       \/ op = "list_tools" /\ mcTools /\ UNCHANGED mcCalls
       \/ ~(op = "list_tools" /\ mcTools)
          /\ mcCalls' = [mcCalls EXCEPT ![t] = [McIdle EXCEPT !.op = op, !.step = "ensure"]]
  /\ UNCHANGED <<mcKind, mcUp, mcPipes, mcWritten, mcNext, mcInit, mcLock, mcTools, mcReader, mcGone, mcStray, mcDone>>

\* The flag is read, then read again under the write lock, which is kept over the handshake.
ensure_initialized(t) ==
  /\ mcCalls[t].step = "ensure" /\ mcLock = {}
  /\ \/ mcInit /\ McStep(t, "write") /\ UNCHANGED mcLock
     \/ ~mcInit /\ mcLock' = {t} /\ McStep(t, "write")
  /\ UNCHANGED <<mcKind, mcUp, mcPipes, mcWritten, mcNext, mcInit, mcTools, mcReader, mcGone, mcStray, mcDone>>

\* A line is written behind what is in the pipe: behind half a line it is part of no line.
WriteLine(lines) ==
  IF mcTorn = "half" THEN UNCHANGED mcIn /\ mcTorn' = "past" ELSE mcIn' = mcIn \o lines /\ UNCHANGED mcTorn

\* send, first half: the line is written and the lock on stdin dropped.
send_write(t) ==
  /\ mcCalls[t].step = "write" /\ mcNext <= McpIds /\ mcUp
  /\ mcNext' = mcNext + 1
  /\ mcWritten' = Append(mcWritten, mcNext)
  /\ IF mcKind = "stdio" THEN WriteLine(<<mcNext>>) ELSE UNCHANGED <<mcIn, mcTorn>>
  /\ mcCalls' = [u \in McpTurns |->
       IF u = t THEN [mcCalls[t] EXCEPT !.step = "wait", !.id = mcNext, !.alone = Waiting = {}]
       ELSE IF u \in Waiting THEN [mcCalls[u] EXCEPT !.alone = FALSE] ELSE mcCalls[u]]
  /\ UNCHANGED <<mcKind, mcUp, mcOut, mcInit, mcLock, mcTools, mcReader, mcGone, mcStray, mcDone>>

\* An error leaves the handshake undone and its lock free.
McFail(t) ==
  /\ mcCalls' = [mcCalls EXCEPT ![t] = McIdle]
  /\ mcLock' = mcLock \ {t} /\ mcReader' = mcReader \ {t}

send_write_fails(t) ==
  /\ mcCalls[t].step = "write" /\ ~mcUp
  /\ McFail(t)
  /\ UNCHANGED <<mcKind, mcUp, mcPipes, mcWritten, mcNext, mcInit, mcTools, mcGone, mcStray, mcDone>>

\* send, second half, over pipes: whoever gets the lock on stdout waits for a line.
stdout_lock(t) ==
  /\ mcKind = "stdio" /\ mcCalls[t].step = "wait" /\ mcReader = {} /\ mcReader' = {t}
  /\ UNCHANGED <<mcKind, mcUp, mcPipes, mcWritten, mcNext, mcInit, mcLock, mcTools, mcCalls, mcGone, mcStray, mcDone>>

\* What is done with an answer: the handshake is over or the call returns, with the tools or
\* the text.
Accept(t, id) ==
  /\ mcDone' = mcDone \cup {[asked |-> mcCalls[t].id, answered |-> id, http |-> mcKind = "http",
                             alone |-> mcCalls[t].alone, gone |-> mcGone, stray |-> mcStray,
                             torn |-> mcTorn # "no"]}
  /\ mcReader' = mcReader \ {t}
  /\ \/ /\ t \in mcLock /\ McStep(t, "notify") /\ UNCHANGED <<mcTools, mcLock>>
     \/ /\ t \notin mcLock /\ mcCalls' = [mcCalls EXCEPT ![t] = McIdle]
        /\ mcTools' = (mcTools \/ mcCalls[t].op = "list_tools") /\ UNCHANGED mcLock

\* A notification, which has no id and no answer, ends the handshake, written or not.
initialized_notification(t) ==
  /\ mcCalls[t].step = "notify" /\ McStep(t, "write")
  /\ mcInit' = TRUE /\ mcLock' = mcLock \ {t}
  /\ IF mcKind = "stdio" /\ mcUp THEN WriteLine(<<>>) ELSE UNCHANGED <<mcIn, mcTorn>>
  /\ UNCHANGED <<mcKind, mcUp, mcOut, mcWritten, mcNext, mcTools, mcReader, mcGone, mcStray, mcDone>>

\* Seeded bug: a call does not wait for its answer.
read_line_later(t) ==
  /\ mcReader = {t} /\ mcOut' = mcOut /\ Accept(t, mcCalls[t].id)
  /\ UNCHANGED <<mcKind, mcUp, mcIn, mcTorn, mcWritten, mcNext, mcInit, mcGone, mcStray>>

\* A line is read and taken for the answer, whatever its id and whether it answers anything; an
\* error in it, or a line that is no response, fails the call.
read_line(t) ==
  /\ mcReader = {t} /\ mcOut # <<>> /\ mcOut' = Tail(mcOut)
  /\ mcStray' = IF Head(mcOut) = 0 THEN mcStray + 1 ELSE mcStray
  /\ \/ Accept(t, Head(mcOut))
     \/ McFail(t) /\ UNCHANGED <<mcTools, mcDone>>
  /\ UNCHANGED <<mcKind, mcUp, mcIn, mcTorn, mcWritten, mcNext, mcInit, mcGone>>

\* Nothing comes for thirty seconds; its line may still come.
read_timeout(t) ==
  /\ mcReader = {t} /\ McFail(t) /\ mcGone' = mcGone + 1
  /\ UNCHANGED <<mcKind, mcUp, mcPipes, mcWritten, mcNext, mcInit, mcTools, mcStray, mcDone>>

read_eof(t) ==
  /\ mcReader = {t} /\ ~mcUp /\ mcOut = <<>> /\ McFail(t) /\ mcGone' = mcGone + 1
  /\ UNCHANGED <<mcKind, mcUp, mcPipes, mcWritten, mcNext, mcInit, mcTools, mcStray, mcDone>>

\* Over HTTP an answer belongs to its request; a failed request has none.
send_http(t) ==
  /\ mcKind = "http" /\ mcCalls[t].step = "wait"
  /\ \/ mcUp /\ Accept(t, mcCalls[t].id)
     \/ McFail(t) /\ UNCHANGED <<mcTools, mcDone>>
  /\ UNCHANGED <<mcKind, mcUp, mcPipes, mcWritten, mcNext, mcInit, mcGone, mcStray>>

\* The turn that called is dropped: what it wrote stays in the pipe and is answered; a line may be
\* left without its end when the pipe was full.
CallerGone(t) ==
  /\ mcCalls[t].step # "idle" /\ McFail(t)
  /\ mcGone' = IF mcKind = "stdio" /\ mcCalls[t].step = "wait" THEN mcGone + 1 ELSE mcGone
  /\ \/ UNCHANGED mcTorn
     \/ mcKind = "stdio" /\ mcUp /\ mcCalls[t].step \in {"write", "notify"} /\ mcTorn' = "half"
  /\ UNCHANGED <<mcKind, mcUp, mcIn, mcOut, mcWritten, mcNext, mcInit, mcTools, mcStray, mcDone>>

\* It answers in order, writes a line of its own (a notification, a request, a log line) or dies.
McpServer ==
  /\ mcUp
  /\ \/ /\ mcKind = "stdio" /\ mcIn # <<>>
        /\ mcOut' = Append(mcOut, Head(mcIn)) /\ mcIn' = Tail(mcIn) /\ UNCHANGED mcUp
     \/ /\ mcKind = "stdio" /\ mcStray + Cardinality({i \in DOMAIN mcOut : mcOut[i] = 0}) < McpNotes
        /\ mcOut' = Append(mcOut, 0) /\ UNCHANGED <<mcIn, mcUp>>
     \/ mcUp' = FALSE /\ UNCHANGED <<mcIn, mcOut>>
  /\ UNCHANGED <<mcKind, mcTorn, mcWritten, mcNext, mcInit, mcLock, mcTools, mcCalls, mcReader, mcGone, mcStray, mcDone>>

McNext ==
  \/ McpServer
  \/ \E t \in McpTurns :
       \/ McCall(t) \/ ensure_initialized(t) \/ send_write(t) \/ send_write_fails(t)
       \/ stdout_lock(t) \/ read_line(t) \/ read_timeout(t) \/ read_eof(t) \/ send_http(t)
       \/ initialized_notification(t) \/ CallerGone(t)

McSpec == McInit /\ [][McNext]_mcVars

----------------------------------------------------------------------------
(* Properties                                                               *)

Place(id) == CHOOSE i \in DOMAIN mcWritten : mcWritten[i] = id

\* Every request that is given up (it timed out, its turn was dropped) leaves its line in the pipe,
\* and every line that answers nothing takes the place of one. From then on a request that is alone on
\* the pipe is given the answer of the request written that many places before its own: never another
\* one, and its own if there was none, unless a dropped turn has torn a line.
AnswersLagByTimeouts ==
  \A d \in mcDone : d.alone /\ ~d.http /\ ~d.torn /\ d.answered # 0 =>
    Place(d.answered) = Place(d.asked) - d.gone - d.stray

=============================================================================
