------------------------------- MODULE Delivery -------------------------------
(***************************************************************************)
(* deliver_outbound_message (delivery.rs): the pieces of one reply are     *)
(* sent in order, each with retries, or on channels that stream as a draft *)
(* that is edited up to the full text. The platform may accept a message   *)
(* whose answer is lost; the sender then sees an error. And an adapter may *)
(* report as sent a message that shows a part of its piece only.           *)
(***************************************************************************)
EXTENDS OutboundSplit

CONSTANTS
  Replies,     \* replies [text, files, max, batch, live], see OutboundSplit
  MaxAttempts, \* max_attempts_for_channel
  MaxPieces    \* bound: pieces of a reply

Pieces == [text : Seq(STRING), files : Seq(Kinds), steps : Seq(Seq(STRING))]

ASSUME DeliveryConstants ==
  /\ StreamMin \in Nat \ {0} /\ Album \in Nat \ {0} /\ MaxAttempts \in Nat \ {0} /\ MaxPieces \in Nat
  /\ Replies \subseteq [text : Seq(STRING), files : Seq(Kinds), max : Nat \ {0},
                         batch : {"kinds", "single", "whole"}, live : BOOLEAN]
  /\ \A r \in Replies : Len(Split(r)) <= MaxPieces

VARIABLES
  reply, pieces, \* the reply, and what split_outbound_message makes of it
  pc,          \* "hydrate" the attachments, "begin" a piece, "send", "sleep", "update" the draft, "end" it, "done"
  at, att,     \* the piece it is at and the attempts made for it
  chat,        \* what the recipient has: messages [piece, text, files], files a number
  draft,       \* position in chat of the draft being edited, 0 if none
  result       \* what the caller gets

vars == <<reply, pieces, pc, at, att, chat, draft, result>>

Init ==
  /\ reply \in Replies /\ pieces = Split(reply)
  /\ pc = "hydrate" /\ at = 1 /\ att = 0
  /\ chat = <<>> /\ draft = 0 /\ result = "none"

\* A message is accepted: it shows up in the chat with this text and so many files.
Posted(text, files) == chat' = Append(chat, [piece |-> at, text |-> text, files |-> files])
Edited(text) == chat' = [chat EXCEPT ![draft].text = text]

Text == pieces[at].text
Steps == pieces[at].steps

\* What the adapter's send puts before the recipient when it goes well (see ChannelSend): a
\* piece without files is its text. Telegram's albums may lose their text, WhatsApp's voice
\* messages always do; Slack may give up later files, an e-mail has none.
Carried ==
  LET n == Len(pieces[at].files)
      message(text, files) == [text |-> text, files |-> files]
  IN  CASE n = 0 -> {message(Text, 0)}
        [] n # 0 /\ reply.batch = "kinds" -> {message(Text, n), message(<<>>, n)}
        [] n # 0 /\ reply.batch = "single" ->
             {message(IF pieces[at].files[1] = "audio" THEN <<>> ELSE Text, n)}
        [] OTHER -> {message(Text, k) : k \in 0..n}

\* should_pseudo_stream, and send_streamed_chunk finds something to stream.
Streams ==
  reply.live /\ pieces[at].files = <<>> /\ Len(Text) >= StreamMin /\ Len(Steps) >= 2

-----------------------------------------------------------------------------

\* The piece has a record: the loop goes on after "sent" and ends after anything else.
Record(status) ==
  IF status = "sent" /\ at < Len(pieces)
    THEN pc' = "begin" /\ at' = at + 1 /\ UNCHANGED result
    ELSE /\ pc' = "done" /\ UNCHANGED at
         /\ result' = IF status = "sent" THEN "sent" ELSE "partial"

\* The error is returned with ?: the records made so far are dropped with it.
Return == pc' = "done" /\ result' = "error" /\ UNCHANGED at

\* hydrate_outbound_attachments: media that is gone ends the delivery.
Hydrate ==
  /\ pc = "hydrate"
  /\ \/ reply.files # <<>> /\ Return
     \/ pc' = "begin" /\ UNCHANGED <<at, result>>
  /\ UNCHANGED <<reply, pieces, att, chat, draft>>

\* A piece begins: by send, or by stream_start where the channel streams; when that
\* fails (its answer may be what was lost) the piece is sent after all.
Begin ==
  /\ pc = "begin" /\ att' = 0
  /\ \/ /\ ~Streams
        /\ pc' = "send" /\ draft' = 0 /\ UNCHANGED chat
     \/ /\ Streams
        /\ pc' = "send" /\ draft' = 0 /\ (UNCHANGED chat \/ Posted(Steps[1], 0))
     \/ /\ Streams
        /\ pc' = IF Len(Steps) = 3 THEN "update" ELSE "end"
        /\ draft' = Len(chat) + 1 /\ Posted(Steps[1], 0)
  /\ UNCHANGED <<reply, pieces, at, result>>

-----------------------------------------------------------------------------
(* send_outbound_chunk.                                                    *)

Shows == \E m \in Carried : Posted(m.text, m.files)

Sent ==
  /\ pc = "send" /\ att' = att + 1
  /\ Shows /\ Record("sent") /\ UNCHANGED <<reply, pieces, draft>>

\* Seeded bug: attempts that were refused are not counted.
NotSentUncounted(status, retry) ==
  /\ pc = "send" /\ UNCHANGED <<reply, pieces, att, chat, draft>>
  /\ IF retry /\ att + 1 < MaxAttempts
       THEN pc' = "sleep" /\ UNCHANGED <<at, result>>
       ELSE Record(status)

\* Rate limited, or refused: retried while attempts are left (a refusal only if it
\* looks transient), recorded otherwise.
NotSent(status, retry) ==
  /\ pc = "send" /\ att' = att + 1 /\ UNCHANGED <<reply, pieces, chat, draft>>
  /\ IF retry /\ att + 1 < MaxAttempts
       THEN pc' = "sleep" /\ UNCHANGED <<at, result>>
       ELSE Record(status)

\* Seeded bug: a send that fails is taken as sent.
ErrIsSent(retry) ==
  /\ pc = "send" /\ att' = att + 1 /\ UNCHANGED <<reply, pieces, draft>>
  /\ UNCHANGED chat \/ Shows
  /\ IF retry /\ att + 1 < MaxAttempts
       THEN pc' = "sleep" /\ UNCHANGED <<at, result>>
       ELSE Record("sent")

\* The call fails (a timeout, a lost answer): the message may have been posted.
Err(retry) ==
  /\ pc = "send" /\ att' = att + 1 /\ UNCHANGED <<reply, pieces, draft>>
  /\ UNCHANGED chat \/ Shows
  /\ IF retry /\ att + 1 < MaxAttempts
       THEN pc' = "sleep" /\ UNCHANGED <<at, result>>
       ELSE Return

\* sleep_retry is over.
Wake ==
  /\ pc = "sleep" /\ pc' = "send"
  /\ UNCHANGED <<reply, pieces, at, att, chat, draft, result>>

-----------------------------------------------------------------------------
(* send_streamed_chunk, once the draft is posted.                          *)

\* The middle step is edited in; whether or not that works, the full text follows.
Update ==
  /\ pc = "update" /\ pc' = "end"
  /\ Edited(Steps[2]) \/ UNCHANGED chat
  /\ UNCHANGED <<reply, pieces, at, att, draft, result>>

\* stream_end: the draft becomes the full piece.
StreamEnd ==
  /\ pc = "end" /\ att' = 1
  /\ Edited(Text)
  /\ Record("sent") /\ UNCHANGED <<reply, pieces, draft>>

\* stream_end fails: the draft keeps the part (or the answer was lost).
StreamEndFails ==
  /\ pc = "end" /\ att' = 1
  /\ UNCHANGED chat \/ Edited(Text)
  /\ Return /\ UNCHANGED <<reply, pieces, draft>>

Next ==
  \/ Hydrate \/ Begin \/ Sent \/ Wake \/ Update \/ StreamEnd \/ StreamEndFails
  \/ NotSent("rate_limited", TRUE)
  \/ \E retry \in BOOLEAN : NotSent("failed", retry) \/ Err(retry)

Terminated == pc = "done" /\ UNCHANGED vars

\* The channels' HTTP client has a timeout and the waits are at most 30 s.
Spec == Init /\ [][Next \/ Terminated]_vars
FairSpec == Spec /\ WF_vars(Next)

-----------------------------------------------------------------------------
(* Properties of what is sent.                                             *)

Blank == Trim(reply.text) = <<>>
Texts == [i \in DOMAIN pieces |-> pieces[i].text]
Files == [i \in DOMAIN pieces |-> pieces[i].files]

\* Parts of s, one behind the other, each from its place on; and what of s they hold.
Places(s, parts) == [DOMAIN parts -> 1..(Len(s) + 1)]
Stretch(parts, from, i) == from[i]..(from[i] + Len(parts[i]) - 1)
Stretches(s, parts, from) ==
  /\ \A i \in DOMAIN parts :
       Stretch(parts, from, i) \subseteq DOMAIN s /\ parts[i] = SubSeq(s, from[i], from[i] + Len(parts[i]) - 1)
  /\ \A i, j \in DOMAIN parts : i < j => from[i] + Len(parts[i]) <= from[j]
Held(parts, from) == UNION {Stretch(parts, from, i) : i \in DOMAIN parts}

\* No word is longer than max.
WordsFit(s, max) == ~\E i \in 1..(Len(s) - max) : i..(i + max) \subseteq Inked(s)

\* Splitting loses and repeats nothing but white space: the pieces are parts of the reply,
\* one behind the other, and what is between them is blank; a text that is split fits the
\* platform, and no piece is blank. A word is cut only if some word does not fit a message:
\* otherwise there is white space between two pieces, the preferred split of split_text.
\* Telegram's batches mix no kinds, fit an album and are as large as they can be
\* (split_text, split_outbound_message, split_telegram_attachment_batches).
SplitSound ==
  /\ \E from \in Places(reply.text, Texts) :
       /\ Stretches(reply.text, Texts, from) /\ Inked(reply.text) \subseteq Held(Texts, from)
       /\ (reply.files = <<>> /\ WordsFit(reply.text, reply.max)) =>
            \A i \in 1..(Len(pieces) - 1) : from[i] + Len(Texts[i]) < from[i + 1]
  /\ \E from \in Places(reply.files, Files) :
       Stretches(reply.files, Files, from) /\ Held(Files, from) = DOMAIN reply.files
  /\ (~Blank /\ reply.files = <<>>) =>
       \A i \in DOMAIN pieces : Len(Texts[i]) \in 1..reply.max /\ Inked(Texts[i]) # {}
  /\ (reply.batch = "kinds" /\ reply.files # <<>>) =>
       /\ \A i \in DOMAIN Files :
            Len(Files[i]) \in 1..Album /\ \A k \in DOMAIN Files[i] : Files[i][k] = Files[i][1]
       /\ \A i \in 1..(Len(Files) - 1) : Len(Files[i]) = Album \/ Files[i][1] # Files[i + 1][1]

-----------------------------------------------------------------------------
(* Properties of how it is sent.                                           *)

\* A piece is known by its text, but where files go in batches: there a piece with files
\* by its files, as the text that goes with them may be lost.
ByText(p) == p.files = <<>> \/ reply.batch = "whole"

\* A message shows what "sent" promises of its piece.
Whole(i) ==
  LET p == pieces[chat[i].piece]
  IN  IF ByText(p) THEN chat[i].text = p.text ELSE chat[i].files = Len(p.files)
Shown == {chat[i].piece : i \in {j \in DOMAIN chat : Whole(j)}}

\* The pieces the recipient lacks, counted from the first one that is not shown.
Missing ==
  LET n == Len(pieces) IN n - Max({k \in 0..n : 1..k \subseteq Shown})

\* Delivery keeps the promise: pieces shown in order, "sent" only when all are, each by its
\* full text or, in batches of files, with all files of its batch.
Promise == INSTANCE DeliveryPromise WITH missing <- Missing
KeepsPromise == Promise!PromiseSpec

\* Delivery ends, with every mix of refusals and lost answers.
DeliveryEnds == <>(result # "none")
=============================================================================
