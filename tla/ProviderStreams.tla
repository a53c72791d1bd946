--------------------------- MODULE ProviderStreams ---------------------------
(***************************************************************************)
(* A call to a model provider: the HTTP request, the answer as a stream of *)
(* server-sent events that arrives in chunks cut anywhere (sse.rs), and    *)
(* the state that gathers it (anthropic.rs; openai_compat.rs, used by      *)
(* openai.rs and ollama.rs). The answer is then part of the next request,  *)
(* which failover may send to the other kind of provider.                  *)
(*                                                                         *)
(* The n-th event the server writes has the number n for its text, or for  *)
(* its part of a call's arguments, as the decoder reads it; psTorn has the *)
(* events whose text is not read as it was written, because a chunk ended  *)
(* within a character. A line is read as two pieces, the second with its   *)
(* newline; a blank line is one. Call ids and names are known by the index *)
(* of the call; has says which of them an event brings.                    *)
(***************************************************************************)
EXTENDS Naturals, Sequences, SequencesExt, FiniteSets

CONSTANTS
  PsMaxEvents,   \* bound: events of a stream
  PsMaxChunk,    \* bound: pieces of a chunk
  PsMaxTorn      \* bound: events of a stream with a damaged character

ASSUME StreamConstants == PsMaxEvents \in Nat /\ PsMaxChunk \in Nat /\ PsMaxTorn \in Nat

Kinds == {"anthropic", "openai", "ollama"}
Indexes == {0, 1}

VARIABLES
  psKind,     \* the provider's kind
  psPc,       \* "start", "reading", "answered", "error", "asked"
  psSaid,     \* the events the server has written
  psWire,     \* pieces written and not read
  psDec,      \* SseDecoder: [buffer, event, data]
  psTorn,     \* events with a character read as U+FFFD
  psSt,       \* StreamState: [content, calls, done]
  psShown,    \* deltas sent to stream_tx
  psAnswer,   \* CompletionResponse: [content, calls]
  psError,    \* the words of the error returned
  psAsked,    \* the messages of the next request
  psBody      \* what is sent of them, per kind

psRequest == <<psAsked, psBody>>
psVars == <<psKind, psPc, psSaid, psWire, psDec, psTorn, psSt, psShown, psAnswer, psError, psRequest>>

NewDecoder == [buffer |-> <<>>, event |-> FALSE, data |-> <<>>]
NewState == [content |-> <<>>, calls |-> <<>>, done |-> FALSE]

PsInit ==
  /\ psKind \in Kinds /\ psPc = "start" /\ psSaid = <<>> /\ psWire = <<>>
  /\ psDec = NewDecoder /\ psTorn = {} /\ psSt = NewState
  /\ psShown = <<>> /\ psAnswer = [content |-> <<>>, calls |-> <<>>] /\ psError = {}
  /\ psAsked = <<>> /\ psBody = [k \in Kinds |-> <<>>]

----------------------------------------------------------------------------
(* The server                                                               *)

Event(t, i, has, arg) == [t |-> t, i |-> i, has |-> has, arg |-> arg]
Plain(t) == Event(t, 0, {}, FALSE)
SaidOf(t) == {e \in ToSet(psSaid) : e.t = t}
Opened(i) == \E e \in SaidOf("start") \cup SaidOf("call") : e.i = i
Named(i) == UNION {e.has : e \in {x \in SaidOf("call") : x.i = i}}

\* Anthropic's events: a block starts once, its parts and its end come after it.
AnthropicEvents ==
  {Plain(t) : t \in {"text", "message_start", "message_delta", "message_stop", "error"}}
  \cup {Event("start", i, {"id", "name"}, FALSE) : i \in {j \in Indexes : ~Opened(j)}}
  \cup {Event(t, i, {}, FALSE) : t \in {"part", "end"}, i \in {j \in Indexes : Opened(j)}}

\* OpenAI's: id and name of a call come in one chunk or in two, with or before its arguments.
OpenaiEvents ==
  {Plain(t) : t \in {"text", "usage", "comment", "stop", "tool_calls", "[DONE]"}}
  \cup {Event("call", i, h, a) : i \in Indexes, h \in {{}, {"id"}, {"name"}, {"id", "name"}}, a \in BOOLEAN}

Line(field, n) == <<[field |-> field, n |-> n, last |-> FALSE], [field |-> field, n |-> n, last |-> TRUE]>>
Lines(kind, e, n) ==
  CASE e.t = "comment" -> Line("comment", n)
    [] e.t # "comment" /\ kind = "anthropic" -> Line("event", n) \o Line("data", n)
    [] OTHER -> Line("data", n)

Server_writes ==
  /\ psPc = "reading" /\ Len(psSaid) < PsMaxEvents /\ Len(psWire) < PsMaxChunk
  /\ \E e \in IF psKind = "anthropic" THEN AnthropicEvents ELSE OpenaiEvents :
       /\ e.t = "call" => e.has \cap Named(e.i) = {} /\ (e.has # {} \/ e.arg)
       /\ psSaid' = Append(psSaid, e)
       /\ psWire' = psWire \o Lines(psKind, e, Len(psSaid) + 1) \o <<[field |-> "blank", n |-> 0, last |-> TRUE]>>
  /\ UNCHANGED <<psKind, psPc, psDec, psTorn, psSt, psShown, psAnswer, psError, psRequest>>

----------------------------------------------------------------------------
(* SseDecoder: a decoder with the events it has put out                     *)

flush_event(d) ==
  IF ~d.event /\ d.data = <<>> THEN d
  ELSE [d EXCEPT !.out = Append(@, d.data), !.event = FALSE, !.data = <<>>]

Field(d, field, n, whole) ==
  CASE field = "event" -> [d EXCEPT !.event = TRUE]
    [] field = "data" -> [d EXCEPT !.data = Append(@, [n |-> n, whole |-> whole])]
    [] OTHER -> d

Piece(d, p) ==
  IF ~p.last THEN [d EXCEPT !.buffer = Append(@, p)]
  ELSE LET line == [d EXCEPT !.buffer = <<>>]
       IN IF p.field = "blank" THEN flush_event(line) ELSE Field(line, p.field, p.n, d.buffer # <<>>)

push(dec, chunk) ==
  FoldLeft(Piece, [buffer |-> dec.buffer, event |-> dec.event, data |-> dec.data, out |-> <<>>], chunk)

\* from_utf8_lossy decodes every chunk alone: of a character that a chunk ends within, both
\* halves become U+FFFD. Only texts, arguments, ids and names have such characters.
Torn(end) ==
  IF ~end.last /\ end.field = "data" /\ psSaid[end.n].t \in {"text", "start", "part", "call"} THEN {end.n} ELSE {}

\* finish: the rest of the buffer is a line, cut in its name, in its value or just before its
\* newline.
finish_decoder(dec, cut) ==
  LET d == [buffer |-> <<>>, event |-> dec.event, data |-> dec.data, out |-> <<>>]
  IN flush_event(IF dec.buffer = <<>> \/ cut = "name" THEN d
                 ELSE Field(d, dec.buffer[1].field, dec.buffer[1].n, cut = "newline"))

----------------------------------------------------------------------------
(* Gathering an answer: a: [st, out, err], out the deltas sent              *)

Shows(d, i, n) == [d |-> d, i |-> i, n |-> n]
NewCall == [has |-> {}, args |-> <<>>, started |-> FALSE, ended |-> FALSE]
With(f, i, v) == [j \in DOMAIN f \cup {i} |-> IF j = i THEN v ELSE f[j]]

\* Indexes in order, as a BTreeMap goes through them.
InOrder(S) == [k \in 1..Cardinality(S) |-> CHOOSE i \in S : Cardinality({j \in S : j <= i}) = k]

CallAt(st, i) == IF i \in DOMAIN st.calls THEN st.calls[i] ELSE NewCall
Sent(a, st, out) == [a EXCEPT !.st = st, !.out = @ \o out]
Ended(calls, S) == [i \in DOMAIN calls |-> IF i \in S THEN [calls[i] EXCEPT !.ended = TRUE] ELSE calls[i]]

Text(a, n) == Sent(a, [a.st EXCEPT !.content = Append(@, n)], <<Shows("text", 0, n)>>)

anthropic_event(a, e, n) ==
  LET st == a.st known == e.i \in DOMAIN st.calls
  IN CASE e.t = "text" -> Text(a, n)
       [] e.t = "start" ->
            Sent(a, [st EXCEPT !.calls = IF known THEN @ ELSE With(@, e.i, [NewCall EXCEPT !.has = e.has, !.started = TRUE])],
                 <<Shows("start", e.i, 0)>>)
       [] e.t = "part" /\ known ->
            Sent(a, [st EXCEPT !.calls[e.i].args = Append(@, n)], <<Shows("part", e.i, n)>>)
       [] e.t = "end" /\ known /\ ~st.calls[e.i].ended ->
            Sent(a, [st EXCEPT !.calls[e.i].ended = TRUE], <<Shows("end", e.i, 0)>>)
       [] e.t = "message_stop" -> [a EXCEPT !.st.done = TRUE]
       [] e.t = "error" -> [a EXCEPT !.err = TRUE]
       [] OTHER -> a

\* Seeded bug: a call is announced, and its parts are kept, only once it has an id.
openai_event_by_id(a, e, n) ==
  IF e.t = "call" /\ "id" \notin e.has \cup CallAt(a.st, e.i).has THEN a
  ELSE IF e.t = "text" THEN Text(a, n) ELSE IF e.t = "[DONE]" THEN [a EXCEPT !.st.done = TRUE]
  ELSE IF e.t = "call" THEN
    LET was == CallAt(a.st, e.i)
        call == [was EXCEPT !.has = @ \cup e.has, !.started = TRUE, !.args = IF e.arg THEN Append(@, n) ELSE @]
    IN Sent(a, [a.st EXCEPT !.calls = With(@, e.i, call)], IF was.started THEN <<>> ELSE <<Shows("start", e.i, 0)>>)
  ELSE a

openai_event(a, e, n) ==
  LET st == a.st
      was == CallAt(st, e.i)
      has == was.has \cup e.has
      starts == ~was.started /\ has = {"id", "name"}
      call == [was EXCEPT !.has = has, !.started = @ \/ starts, !.args = IF e.arg THEN Append(@, n) ELSE @]
      open == {i \in DOMAIN st.calls : st.calls[i].started /\ ~st.calls[i].ended}
  IN CASE e.t = "text" -> Text(a, n)
       [] e.t = "call" ->
            Sent(a, [st EXCEPT !.calls = With(@, e.i, call)],
                 (IF starts THEN <<Shows("start", e.i, 0)>> ELSE <<>>)
                 \o (IF e.arg /\ call.started THEN <<Shows("part", e.i, n)>> ELSE <<>>))
       [] e.t = "tool_calls" ->
            Sent(a, [st EXCEPT !.calls = Ended(@, open)], [k \in 1..Cardinality(open) |-> Shows("end", InOrder(open)[k], 0)])
       [] e.t = "[DONE]" -> [a EXCEPT !.st.done = TRUE]
       [] OTHER -> a

\* One decoded event; data that is not one whole line of JSON is an error.
apply_stream_event(a, data) ==
  IF a.err \/ a.st.done THEN a
  ELSE IF Len(data) # 1 \/ \E x \in ToSet(data) : ~x.whole THEN [a EXCEPT !.err = TRUE]
  ELSE IF psKind = "anthropic" THEN anthropic_event(a, psSaid[data[1].n], data[1].n)
  ELSE openai_event(a, psSaid[data[1].n], data[1].n)

CallsOf(calls) == [i \in DOMAIN calls |-> calls[i].args]

\* StreamState::finish: an answer, or an error when a call has no id or no name.
finish_state(st) ==
  LET nameless == \E i \in DOMAIN st.calls : st.calls[i].has # {"id", "name"}
  IN IF nameless THEN psPc' = "error" /\ UNCHANGED <<psAnswer, psError>>
     ELSE psPc' = "answered" /\ psAnswer' = [content |-> st.content, calls |-> CallsOf(st.calls)] /\ UNCHANGED psError

\* The decoded events are applied up to an error or the end of the answer; the deltas of the
\* event that fails are not sent.
Gather(d, eof) ==
  LET a == FoldLeft(apply_stream_event, [st |-> psSt, out |-> psShown, err |-> FALSE], d.out)
      ends == ~a.err /\ (eof \/ a.st.done)
  IN /\ psSt' = a.st /\ psDec' = [buffer |-> d.buffer, event |-> d.event, data |-> d.data]
     /\ IF ends THEN finish_state(a.st)
        ELSE psPc' = (IF a.err THEN "error" ELSE "reading") /\ UNCHANGED <<psAnswer, psError>>
     /\ psShown' = IF ends /\ psPc' = "answered" THEN Append(a.out, Shows("done", 0, 0)) ELSE a.out

----------------------------------------------------------------------------
(* complete                                                                 *)

Reads_chunk ==
  /\ psPc = "reading" /\ psWire # <<>>
  /\ \E k \in 1..PsMaxChunk :
       /\ k <= Len(psWire)
       /\ Gather(push(psDec, SubSeq(psWire, 1, k)), FALSE)
       /\ psWire' = SubSeq(psWire, k + 1, Len(psWire))
       /\ \/ UNCHANGED psTorn
          \/ Cardinality(psTorn) < PsMaxTorn /\ psTorn' = psTorn \cup Torn(psWire[k])
  /\ UNCHANGED <<psKind, psSaid, psRequest>>

\* The stream ends, wherever the server left it.
Stream_ends ==
  /\ psPc = "reading"
  /\ \E cut \in {"name", "value", "newline"} : Gather(finish_decoder(psDec, cut), TRUE)
  /\ psWire' = <<>> /\ UNCHANGED <<psKind, psSaid, psTorn, psRequest>>

\* The connection fails while the stream is read.
Read_fails ==
  /\ psPc = "reading" /\ psPc' = "error" /\ psWire' = <<>>
  /\ UNCHANGED <<psKind, psSaid, psDec, psTorn, psSt, psShown, psAnswer, psError, psRequest>>

Overflow == {"context_length_exceeded", "too many tokens"}
Words == {"too many tokens", "spend", "try again"}

\* The words of the message made of a status and a body.
classify_provider_error(status, body) ==
  body \cup (IF body \cap Overflow # {} THEN {"context length"}
             ELSE CASE status = 401 -> {"auth"}
                    [] status = 402 /\ "spend" \in body -> {"rate limit"}
                    [] status = 402 /\ "spend" \notin body -> {"billing"}
                    [] status = 429 -> {"429"}
                    [] OTHER -> {"500"})

\* An answer that comes as a whole; its calls without id or name are left out.
parse_completion_response ==
  \E text \in {<<>>, <<1>>}, S \in SUBSET Indexes :
    /\ psAnswer' = [content |-> text, calls |-> [i \in S |-> <<1>>]]
    /\ psPc' = "answered" /\ UNCHANGED psError

\* The request is sent: it fails, is refused, is answered as a whole or by a stream.
Sends ==
  /\ psPc = "start"
  /\ \/ psPc' = "error" /\ UNCHANGED <<psAnswer, psError>>
     \/ \E status \in {401, 402, 429, 500}, body \in SUBSET Words :
          psPc' = "error" /\ psError' = classify_provider_error(status, body) /\ UNCHANGED psAnswer
     \/ parse_completion_response
     \/ psPc' = "reading" /\ UNCHANGED <<psAnswer, psError>>
  /\ UNCHANGED <<psKind, psSaid, psWire, psDec, psTorn, psSt, psShown, psRequest>>

anthropic_complete == psKind = "anthropic" /\ Sends
openai_complete == psKind = "openai" /\ Sends
ollama_complete == psKind = "ollama" /\ Sends

----------------------------------------------------------------------------
(* The next request                                                         *)

\* What is sent of a message: its text, the calls it makes, the call it is the result of, its
\* images. (Arguments that are not JSON go to Anthropic as {}; the arguments are left out.)
Wire(role, text, uses, result, images) ==
  [role |-> role, text |-> text, uses |-> uses, result |-> result, images |-> images]
NoResult == 9

\* The text of a message that makes calls begins with the answer's, if it has any; calls
\* alone are put as markers, which Anthropic is not sent.
anthropic_message(m) ==
  CASE m.role = "assistant" /\ m.calls # {} -> Wire("assistant", m.text, m.calls, NoResult, FALSE)
    [] m.role = "tool" -> Wire("user", TRUE, {}, m.of, FALSE)
    [] OTHER -> Wire(m.role, TRUE, {}, NoResult, m.images /\ m.role = "user")

\* Seeded bug: a message that makes calls is sent like any other.
openai_message_plain(m) ==
  IF m.role = "tool" THEN Wire("tool", TRUE, {}, m.of, FALSE)
  ELSE Wire(m.role, TRUE, {}, NoResult, m.images /\ m.role = "user")

openai_message(m) ==
  CASE m.role = "assistant" /\ m.calls # {} -> Wire("assistant", TRUE, m.calls, NoResult, FALSE)
    [] m.role = "tool" -> Wire("tool", TRUE, {}, m.of, FALSE)
    [] OTHER -> Wire(m.role, TRUE, {}, NoResult, m.images /\ m.role = "user")

build_request_body(kind, messages, system) ==
  CASE kind = "anthropic" -> [i \in 1..Len(messages) |-> anthropic_message(messages[i])]
    [] OTHER -> (IF system THEN <<Wire("system", TRUE, {}, NoResult, FALSE)>> ELSE <<>>)
                \o [i \in 1..Len(messages) |-> openai_message(messages[i])]

Message(role, text, calls, of, images) ==
  [role |-> role, text |-> text, calls |-> calls, of |-> of, images |-> images]

\* The turn goes on: the calls are run and their results, with images or without, follow the
\* answer in the next request.
Asks_again ==
  /\ psPc = "answered" /\ DOMAIN psAnswer.calls # {} /\ psPc' = "asked"
  /\ \E images, system \in BOOLEAN :
       LET calls == InOrder(DOMAIN psAnswer.calls)
       IN /\ psAsked' = <<Message("user", TRUE, {}, NoResult, images),
                          Message("assistant", psAnswer.content # <<>>, ToSet(calls), NoResult, FALSE)>>
                        \o [k \in DOMAIN calls |-> Message("tool", TRUE, {}, calls[k], images)]
          /\ psBody' = [k \in Kinds |-> build_request_body(k, psAsked', system)]
  /\ UNCHANGED <<psKind, psSaid, psWire, psDec, psTorn, psSt, psShown, psAnswer, psError>>

PsNext ==
  \/ anthropic_complete \/ openai_complete \/ ollama_complete
  \/ Server_writes \/ Reads_chunk \/ Stream_ends \/ Read_fails \/ Asks_again

PsSpec == PsInit /\ [][PsNext]_psVars

----------------------------------------------------------------------------
(* Properties                                                               *)

\* Numbers of events, in turn: those of a set.
InTurn(ns, S) == ToSet(ns) = S /\ \A k, l \in DOMAIN ns : k < l => ns[k] < ns[l]

\* Of the first m events: those with text, those with a part of a call's arguments, those that
\* bring its id or name, what they bring, and the calls there are.
Texts(m) == {n \in 1..m : psSaid[n].t = "text"}
Parts(i, m) == {n \in 1..m : psSaid[n].i = i /\ (psSaid[n].t = "part" \/ (psSaid[n].t = "call" /\ psSaid[n].arg))}
Heads(i, m) == {n \in 1..m : psSaid[n].i = i /\ psSaid[n].t \in {"start", "call"}}
Known(i, m) == UNION {psSaid[n].has : n \in Heads(i, m)}
Begun(m) == {i \in Indexes : Heads(i, m) # {}}
IsEnd(n) == psSaid[n].t \in {"message_stop", "[DONE]"}

\* Deltas of a kind, and that they are those of a set of events in turn.
Deltas(out, d, i) == {k \in DOMAIN out : out[k].d = d /\ out[k].i = i}
ShownInTurn(out, d, i, S) ==
  /\ {out[k].n : k \in Deltas(out, d, i)} = S
  /\ \A k, l \in Deltas(out, d, i) : k < l => out[k].n < out[l].n

\* The answer of a stream is what the server wrote, wherever the chunks were cut, but for
\* characters a chunk ended within: its text, its calls and their arguments are those of the
\* first events, of all up to the end once that is read; and the one who watches the stream has
\* been shown the same text, every call announced once, and of its arguments everything from its
\* announcement on. An event with such a character (psTorn) is damaged, but neither lost nor
\* taken for another: it is among the texts and the calls of the answer like any other.
StreamedIsAnswered ==
  psPc \in {"answered", "asked"} /\ psShown # <<>> =>
    \E m \in 0..Len(psSaid) :
      /\ \A n \in 1..m : ~IsEnd(n)
      /\ psSt.done => m < Len(psSaid) /\ IsEnd(m + 1)
      /\ InTurn(psAnswer.content, Texts(m)) /\ ShownInTurn(psShown, "text", 0, Texts(m))
      /\ DOMAIN psAnswer.calls = Begun(m)
      /\ \A i \in Begun(m) :
           /\ InTurn(psAnswer.calls[i], Parts(i, m))
           /\ Cardinality(Deltas(psShown, "start", i)) = 1
           /\ ShownInTurn(psShown, "part", i, {n \in Parts(i, m) : Known(i, n) = {"id", "name"}})
      /\ \A i \in Indexes \ Begun(m) : Deltas(psShown, "start", i) = {}
      /\ \A n \in psTorn \cap (1..m) :
           n \in Texts(m) \/ \E i \in Begun(m) : n \in Heads(i, m) \cup Parts(i, m)

\* In the next request, to whichever kind of provider, every result follows a message that
\* makes the call it answers, and every call made has its result.
CallsCarriedOver ==
  psPc = "asked" =>
    \A k \in Kinds :
      LET body == psBody[k]
          made == UNION {body[n].uses : n \in DOMAIN body}
          answered == {n \in DOMAIN body : body[n].result # NoResult}
      IN /\ {body[n].result : n \in answered} = made /\ made = DOMAIN psAnswer.calls
         /\ \A n \in answered : \E l \in 1..(n - 1) : body[n].result \in body[l].uses

\* "it will be sent as proper image content parts instead" (tools/src/lib.rs:266): the images
\* of a tool's result reach the model.
ToolImagesSent ==
  psPc = "asked" =>
    \A k \in Kinds, n \in DOMAIN psAsked :
      psAsked[n].role = "tool" /\ psAsked[n].images => psBody[k][n + Len(psBody[k]) - Len(psAsked)].images
=============================================================================
