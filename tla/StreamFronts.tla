---------------------------- MODULE StreamFronts ----------------------------
(***************************************************************************)
(* The front ends that show a turn as it streams, besides the WebSocket    *)
(* gateway: the chat completions API ("sse", and "json" without streaming, *)
(* openai_api.rs), the ACP bridge on standard input and output (acp.rs,    *)
(* acp_transport.rs), the REPL and the terminal UI (repl.rs, tui.rs). The  *)
(* turn sends deltas through a bounded channel: in every round of tool     *)
(* calls the text, the calls, and Done. A reader shows them, and may stop; *)
(* it puts them out through a second bounded channel (the body of an HTTP  *)
(* response, the pipe of an ACP client), whose client reads, or stays      *)
(* without reading, or leaves. The terminal takes what is printed.         *)
(*                                                                         *)
(* A text is the number of the round it belongs to.                        *)
(***************************************************************************)
EXTENDS Naturals, Sequences, SequencesExt

CONSTANTS
  SfRounds,    \* bound: rounds of the turn
  SfCap,       \* capacity of the delta channel, and of the body's (64)
  AcpMax,      \* AcpServerOptions.max_sessions
  AcpRate,     \* rate_limit_per_window
  AcpIds       \* bound: session ids handed out

VARIABLES
  sfFront,     \* the front end
  sfRound,     \* the round the turn is in
  sfStep,      \* "call" the model, "tools", "final", "error" while its deltas go out; "ok", "failed"
  sfOut,       \* deltas still to be sent
  sfChan,      \* the channel
  sfReader,    \* "reading", or "stopped": its end of the channel is dropped
  sfShown,     \* texts shown, in order
  sfLast,      \* the terminal UI's last entry: "assistant", "tool" or "system"
  sfSession,   \* the session the next message of the REPL or the terminal UI goes to
  sfBody,      \* what was put out and the client has not taken
  sfGone,      \* the client went away
  sfOver,      \* the front end is ready for the next message, or has answered
  acpSessions, \* ACP sessions, least recently touched first
  acpNext, acpCount   \* ids handed out; creations in the current window

sfTurn == <<sfRound, sfStep, sfOut>>
acpVars == <<acpSessions, acpNext, acpCount>>
sfVars == <<sfFront, sfTurn, sfChan, sfReader, sfShown, sfLast, sfSession, sfBody, sfGone, sfOver, acpVars>>

SfDelta(kind, round) == [kind |-> kind, round |-> round]

\* The terminal UI and the REPL: a new turn, an empty channel, an empty entry of the assistant's.
TurnStarts ==
  sfRound = 1 /\ sfStep = "call" /\ sfOut = <<>> /\ sfChan = <<>> /\ sfShown = <<>> /\ sfLast = "assistant"

AcpInit == acpSessions = <<>> /\ acpNext = 0 /\ acpCount = 0

SfInit ==
  /\ sfFront \in {"sse", "json", "acp", "repl", "tui"}
  /\ TurnStarts /\ AcpInit
  /\ sfReader = IF sfFront = "json" THEN "stopped" ELSE "reading"
  /\ sfBody = IF sfFront = "sse" THEN 1 ELSE 0   \* the chunk with the role
  /\ sfSession \in {"none", "mine"} /\ sfGone = FALSE /\ sfOver = FALSE

----------------------------------------------------------------------------
(* The turn                                                                 *)

\* A model call: its text if any, the tool calls, and Done; or an error, told or not. The
\* round at the bound answers.
SfCall ==
  /\ sfStep = "call" /\ sfOut = <<>>
  /\ \/ /\ sfRound < SfRounds /\ sfStep' = "tools"
        /\ \E text \in {<<>>, <<SfDelta("text", sfRound)>>} :
             sfOut' = text \o <<SfDelta("tool", sfRound), SfDelta("done", sfRound)>>
     \/ sfStep' = "final" /\ sfOut' = <<SfDelta("text", sfRound), SfDelta("done", sfRound)>>
     \/ sfStep' = "error" /\ sfOut' \in {<<>>, <<SfDelta("error", sfRound)>>}
  /\ UNCHANGED <<sfFront, sfRound, sfChan, sfReader, sfShown, sfLast, sfSession, sfBody, sfGone, sfOver, acpVars>>

\* A send waits while the channel is full, and fails at once, unnoticed, without a reader.
SfSend ==
  /\ sfOut # <<>>
  /\ \/ sfReader = "reading" /\ Len(sfChan) < SfCap /\ sfChan' = Append(sfChan, Head(sfOut))
     \/ sfReader = "stopped" /\ UNCHANGED sfChan
  /\ sfOut' = Tail(sfOut)
  /\ UNCHANGED <<sfFront, sfRound, sfStep, sfReader, sfShown, sfLast, sfSession, sfBody, sfGone, sfOver, acpVars>>

\* The call returns: the turn ends, or its text is sent again as progress and the tools run.
SfCallReturns ==
  /\ sfStep \in {"tools", "final", "error"} /\ sfOut = <<>>
  /\ \/ sfStep = "final" /\ sfStep' = "ok" /\ UNCHANGED <<sfRound, sfOut>>
     \/ sfStep = "error" /\ sfStep' = "failed" /\ UNCHANGED <<sfRound, sfOut>>
     \/ /\ sfStep = "tools" /\ sfStep' = "call" /\ sfRound' = sfRound + 1
        /\ sfOut' \in {<<>>, <<SfDelta("text", sfRound)>>}
  /\ UNCHANGED <<sfFront, sfChan, sfReader, sfShown, sfLast, sfSession, sfBody, sfGone, sfOver, acpVars>>

SfTurnOver == sfStep \in {"ok", "failed"}

----------------------------------------------------------------------------
(* The readers                                                              *)

SfGot == Head(sfChan)
SfShow == sfShown' = IF SfGot.kind = "text" THEN Append(sfShown, SfGot.round) ELSE sfShown
SfStopAt(kinds) ==
  IF SfGot.kind \in kinds THEN sfReader' = "stopped" /\ sfChan' = <<>>
  ELSE UNCHANGED sfReader /\ sfChan' = Tail(sfChan)
SfReads(front) == sfFront = front /\ sfReader = "reading" /\ sfChan # <<>>
notReader == <<sfFront, sfTurn, sfSession, sfOver, acpVars>>

\* Putting something out waits for room, and goes nowhere when the client is gone.
SfRoom == sfBody < SfCap \/ sfGone
SfPuts == SfRoom /\ sfBody' = IF sfGone THEN 0 ELSE sfBody + 1

\* handle_streaming: text becomes a chunk, Done the last one, and an error ends the stream; it
\* also ends when there is something to send and the client is gone. Calls are passed over.
handle_streaming ==
  /\ SfReads("sse")
  /\ \/ SfGot.kind = "tool" /\ SfStopAt({}) /\ UNCHANGED <<sfShown, sfBody>>
     \/ SfGot.kind # "tool" /\ ~sfGone /\ SfPuts /\ SfShow /\ SfStopAt({"done", "error"})
     \/ SfGot.kind # "tool" /\ sfGone /\ sfReader' = "stopped" /\ sfChan' = <<>> /\ UNCHANGED <<sfShown, sfBody>>
  /\ UNCHANGED <<notReader, sfLast, sfGone>>

\* The client takes a part of what was put out, or leaves.
ClientTakes ==
  /\ sfBody > 0 /\ sfBody' = sfBody - 1
  /\ UNCHANGED <<notReader, sfChan, sfReader, sfShown, sfLast, sfGone>>

ClientGone ==
  /\ sfFront \in {"sse", "acp"} /\ sfReader = "reading" /\ ~sfGone /\ sfGone' = TRUE /\ sfBody' = 0
  /\ UNCHANGED <<notReader, sfChan, sfReader, sfShown, sfLast>>

\* The task of handle_prompt writes every delta as an event, in a blocking write.
acp_events ==
  /\ SfReads("acp") /\ SfPuts /\ SfShow /\ SfStopAt({})
  /\ UNCHANGED <<notReader, sfLast, sfGone>>

repl_prints ==
  /\ SfReads("repl") /\ SfShow /\ SfStopAt({"done", "error"})
  /\ UNCHANGED <<notReader, sfLast, sfBody, sfGone>>

\* The terminal UI adds text to its last entry when that is the assistant's; a tool call is an
\* entry of its own.
tui_drains ==
  /\ SfReads("tui")
  /\ sfShown' = IF SfGot.kind = "text" /\ sfLast = "assistant" THEN Append(sfShown, SfGot.round) ELSE sfShown
  /\ sfLast' = IF SfGot.kind = "tool" THEN "tool" ELSE sfLast
  /\ SfStopAt({})
  /\ UNCHANGED <<notReader, sfBody, sfGone>>

\* All senders are gone.
ChannelCloses ==
  /\ sfReader = "reading" /\ SfTurnOver /\ sfChan = <<>> /\ sfOut = <<>> /\ sfReader' = "stopped"
  /\ UNCHANGED <<notReader, sfChan, sfShown, sfLast, sfBody, sfGone>>

\* Commands: the REPL takes them between turns, the terminal UI at any time, and each adds an
\* entry of its own. "clear" starts a new session; the others show or set an option.
repl_command ==
  /\ sfFront = "repl" /\ (sfOver \/ (sfStep = "call" /\ sfRound = 1))
  /\ sfSession' = "none"
  /\ UNCHANGED <<sfFront, sfTurn, sfChan, sfReader, sfShown, sfLast, sfBody, sfGone, sfOver, acpVars>>

tui_command ==
  /\ sfFront = "tui"
  /\ \/ sfSession' = "none" /\ sfShown' = <<>>
     \/ UNCHANGED <<sfSession, sfShown>>
  /\ sfLast' = "system"
  /\ UNCHANGED <<sfFront, sfTurn, sfChan, sfReader, sfBody, sfGone, sfOver, acpVars>>

----------------------------------------------------------------------------
(* The end of a turn                                                        *)

SfEnds ==
  /\ sfOver' = TRUE
  /\ sfSession' = IF sfFront \in {"repl", "tui"} /\ sfStep = "ok" THEN "mine" ELSE sfSession
  /\ UNCHANGED <<sfFront, sfTurn, sfChan, sfReader, sfLast, sfGone, acpVars>>

\* The REPL prints the reply itself when nothing was streamed; the terminal UI waits for its
\* forwarding task.
repl_prompts ==
  /\ ~sfOver /\ sfFront = "repl" /\ sfReader = "stopped" /\ SfTurnOver
  /\ sfShown' = IF sfStep = "ok" /\ sfShown = <<>> THEN <<sfRound>> ELSE sfShown
  /\ UNCHANGED sfBody /\ SfEnds

tui_idle ==
  /\ ~sfOver /\ sfFront = "tui" /\ sfReader = "stopped" /\ SfTurnOver
  /\ UNCHANGED <<sfShown, sfBody>> /\ SfEnds

handle_non_streaming ==
  /\ ~sfOver /\ sfFront = "json" /\ SfTurnOver
  /\ sfShown' = IF sfStep = "ok" THEN <<sfRound>> ELSE <<>>
  /\ UNCHANGED sfBody /\ SfEnds

\* The result of a streamed completion goes nowhere.
stream_ends ==
  /\ ~sfOver /\ sfFront = "sse" /\ sfReader = "stopped"
  /\ UNCHANGED <<sfShown, sfBody>> /\ SfEnds

\* The response line holds the answer; events may still follow it, for nobody waits for them.
handle_prompt ==
  /\ ~sfOver /\ sfFront = "acp" /\ SfTurnOver /\ SfPuts
  /\ UNCHANGED sfShown /\ SfEnds

----------------------------------------------------------------------------
(* ACP sessions: requests are handled one after the other                   *)

notAcp == <<sfFront, sfTurn, sfChan, sfReader, sfShown, sfLast, sfSession, sfBody, sfGone, sfOver>>
AcpIdle == sfFront = "acp" /\ sfStep = "call" /\ sfRound = 1 /\ sfOut = <<>>

\* The rate limit, the expiry of old sessions, the eviction of one, and the new one.
handle_new_session ==
  /\ AcpIdle /\ acpNext < AcpIds
  /\ \/ acpCount >= AcpRate /\ UNCHANGED acpVars
     \/ /\ acpCount < AcpRate /\ acpCount' = acpCount + 1 /\ acpNext' = acpNext + 1
        /\ \E expired \in 0..Len(acpSessions) :
             LET live == SubSeq(acpSessions, expired + 1, Len(acpSessions))
                 kept == IF Len(live) >= AcpMax THEN Tail(live) ELSE live
             IN acpSessions' = Append(kept, acpNext + 1)
  /\ UNCHANGED notAcp

check_rate_limit ==
  /\ AcpIdle /\ acpCount > 0 /\ acpCount' = 0 /\ UNCHANGED <<acpSessions, acpNext, notAcp>>

\* A session that is known moves to the end; an unknown one is an error.
handle_load_session ==
  /\ AcpIdle
  /\ \E s \in 1..acpNext :
       acpSessions' = IF Contains(acpSessions, s)
                      THEN Append(SelectSeq(acpSessions, LAMBDA x : x # s), s) ELSE acpSessions
  /\ UNCHANGED <<acpNext, acpCount, notAcp>>

SfNext ==
  \/ SfCall \/ SfSend \/ SfCallReturns
  \/ handle_streaming \/ ClientTakes \/ ClientGone \/ acp_events \/ repl_prints \/ tui_drains \/ ChannelCloses
  \/ repl_prompts \/ tui_idle \/ handle_non_streaming \/ stream_ends \/ handle_prompt
  \/ repl_command \/ tui_command
  \/ handle_new_session \/ check_rate_limit \/ handle_load_session

\* What goes on by itself.
SfWork ==
  \/ SfCall \/ SfSend \/ SfCallReturns
  \/ handle_streaming \/ acp_events \/ repl_prints \/ tui_drains \/ ChannelCloses
  \/ repl_prompts \/ tui_idle \/ handle_non_streaming \/ stream_ends \/ handle_prompt

SfSpec == SfInit /\ [][SfNext]_sfVars

----------------------------------------------------------------------------
(* Properties                                                               *)

\* A front end that stops reading does not hold up the turn: every turn ends, and the front
\* end gets to its next message. Only a client can hold it up, that stays with a full channel
\* for ever and neither reads nor leaves.
FrontsReturn == []<>SfRoom => <>(sfOver /\ SfTurnOver)

\* The answer of a turn reaches its user (the text of the last round), whatever rounds came
\* before it: "print the full response" if nothing was streamed (repl.rs).
AnswerShown ==
  (sfOver /\ sfReader = "stopped" /\ sfStep = "ok" /\ ~sfGone /\ sfLast # "system")
    => Contains(sfShown, sfRound)
=============================================================================
