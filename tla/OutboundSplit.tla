---------------------------- MODULE OutboundSplit ----------------------------
(***************************************************************************)
(* How delivery.rs cuts a reply: split_text into pieces a platform takes,  *)
(* batches of attachments, and pseudo_stream_steps into the growing texts  *)
(* of a draft. Delivery sends what Split makes.                            *)
(*                                                                         *)
(* A text is a sequence of characters: white space, a punctuation mark,    *)
(* and letters. Positions count characters. An attachment is its kind. A   *)
(* reply comes with what its channel decides: the limit on a text, how     *)
(* attachments are batched, and whether drafts can be edited.              *)
(***************************************************************************)
EXTENDS Naturals, Sequences, SequencesExt, FiniteSetsExt

CONSTANTS
  StreamMin,   \* PSEUDO_STREAM_MIN_CHARS
  Album        \* attachments in a Telegram batch (10)

WS == " "
Punct == "."
Kinds == {"visual", "audio", "document"}

-----------------------------------------------------------------------------
(* split_text.                                                             *)

\* The positions of s that hold no white space.
Inked(s) == {i \in 1..Len(s) : s[i] # WS}

Trim(s) == IF Inked(s) = {} THEN <<>> ELSE SubSeq(s, Min(Inked(s)), Max(Inked(s)))

\* Seeded bug: off by one, a text without white space is cut one character late.
CutLate(s, max) ==
  LET ws == {i \in 1..max : s[i] = WS}
  IN  IF ws = {} \/ Max(ws) = 1 THEN max + 1 ELSE Max(ws) - 1

\* Where a text longer than max is cut: before the last white space of its first max
\* characters, unless that is its first character; else after max characters.
Cut(s, max) ==
  LET ws == {i \in 1..max : s[i] = WS}
  IN  IF ws = {} \/ Max(ws) = 1 THEN max ELSE Max(ws) - 1

\* trim_start of what is left: the first position from i on that is inked.
SkipBlank(s, i) == Min({j \in Inked(s) : j >= i} \cup {Len(s) + 1})

\* The piece that is cut off s at i, and where the next one begins.
Chunk(s, max, i) ==
  LET remaining == SubSeq(s, i, Len(s))
      head == Trim(SubSeq(remaining, 1, Cut(remaining, max)))
  IN  IF Len(remaining) <= max THEN remaining
      ELSE IF head = <<>> THEN Trim(SubSeq(remaining, 1, max)) ELSE head

NextAt(s, max, i) ==
  LET remaining == SubSeq(s, i, Len(s))
  IN  IF Len(remaining) <= max THEN Len(s) + 1 ELSE SkipBlank(s, i + Cut(remaining, max))

\* A text of white space only is one piece as it is.
SplitText(text, max) ==
  LET s == Trim(text)
      from[i \in 1..(Len(s) + 1)] ==
        LET chunk == Chunk(s, max, i) IN IF chunk = <<>> THEN <<>> ELSE <<chunk>> \o from[NextAt(s, max, i)]
  IN  IF from[1] = <<>> THEN <<text>> ELSE from[1]

-----------------------------------------------------------------------------
(* split_attachment_batches.                                               *)

\* One attachment is added: to the last batch if it is of that kind and not full.
Join(batches, k) ==
  IF batches = <<>> \/ Last(Last(batches)) # k \/ Len(Last(batches)) >= Album
    THEN Append(batches, <<k>>)
    ELSE Append(Front(batches), Append(Last(batches), k))

Batches(files, how) ==
  CASE how = "kinds"  -> FoldLeft(Join, <<>>, files)               \* Telegram
    [] how = "single" -> [i \in DOMAIN files |-> <<files[i]>>]      \* WhatsApp
    [] how = "whole"  -> IF files = <<>> THEN <<>> ELSE <<files>>

-----------------------------------------------------------------------------
(* pseudo_stream_steps.                                                    *)

\* preview_slice: the text up to the first break at or after the target, <<>> for None.
Preview(s, target) ==
  LET breaks == {i \in 1..Len(s) : i >= target /\ s[i] \in {WS, Punct}}
      end == IF breaks = {} THEN Len(s) ELSE Min(breaks)
      candidate == Trim(SubSeq(s, 1, end))
  IN  IF candidate = s THEN <<>> ELSE candidate

StreamSteps(text) ==
  LET s == Trim(text)
      first == Preview(s, Len(s) \div 3)
      second == Preview(s, (2 * Len(s)) \div 3)
      previews == (IF first = <<>> THEN <<>> ELSE <<first>>)
                  \o (IF second = <<>> \/ second = first THEN <<>> ELSE <<second>>)
  IN  IF Len(s) < StreamMin THEN <<s>> ELSE Append(previews, s)

-----------------------------------------------------------------------------
(* split_outbound_message.                                                 *)

\* A piece, with the texts its draft goes through where it is streamed.
Piece(text, files) == [text |-> text, files |-> files, steps |-> StreamSteps(text)]

\* Several batches: the text goes with the first. A text is only split when it comes
\* without attachments.
Split(reply) ==
  LET batches == Batches(reply.files, reply.batch)
      texts == IF reply.files # <<>> \/ Len(reply.text) <= reply.max
                 THEN <<reply.text>> ELSE SplitText(reply.text, reply.max)
  IN  IF Len(batches) > 1
        THEN [i \in DOMAIN batches |-> Piece(IF i = 1 THEN reply.text ELSE <<>>, batches[i])]
        ELSE [i \in DOMAIN texts |-> Piece(texts[i], reply.files)]
=============================================================================
