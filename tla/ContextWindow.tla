---------------------------- MODULE ContextWindow ----------------------------
(***************************************************************************)
(* The context engine of the agent runtime (context.rs) over the life of   *)
(* one turn: the history of the session and the user's message are         *)
(* repaired, merged and pruned before the first model call; every round of *)
(* tool calls appends the request and its results, and prunes again when   *)
(* they exceed the budget. sessions.compact rewrites the stored history    *)
(* with the same operators before a turn.                                  *)
(*                                                                         *)
(* A message is its role, its tool calls ("structured", or "text" when     *)
(* only the [tool_call:...] marker is left, or "none"), its size in        *)
(* tokens, and the transcript rows it stands for.                          *)
(***************************************************************************)
EXTENDS Naturals, Sequences, SequencesExt, FiniteSetsExt

CONSTANTS
  Histories,   \* transcripts a turn may start from
  Sizes,       \* sizes of new messages
  Budget,      \* available_input_budget of the model
  MinKeep,     \* MIN_KEEP_MESSAGES
  HardLimit,   \* MAX_PROMPT_BYTES
  MaxRounds,   \* rounds of tool calls of the turn
  MaxBatch     \* most tool calls in one round

\* Only an Assistant message has tool calls; rows are numbered from 1.
Message ==
  {m \in [role : {"system", "user", "assistant", "tool"}, calls : {"none", "text", "structured"},
          size : Nat, rows : SUBSET (Nat \ {0})] : m.calls # "none" => m.role = "assistant"}

\* Every message stands for rows of its own.
OwnRows(ms) == \A i, j \in DOMAIN ms : i # j => ms[i].rows \cap ms[j].rows = {}

ASSUME ContextConstants ==
  /\ Sizes \subseteq Nat /\ Budget \in Nat /\ MinKeep \in Nat \ {0} /\ HardLimit \in Nat
  /\ MaxRounds \in Nat /\ MaxBatch \in Nat
  /\ \A ms \in Histories : ms \in Seq(Message) /\ OwnRows(ms)

VARIABLES
  phase,       \* "start", "model" (the context is sent), "answered", "too_large"
  ctx,         \* request_messages; before the turn, the stored transcript
  summary,     \* of the last compaction: the rows the model was asked to summarise,
               \* or NoSummary
  full,        \* history: the list the last optimisation started from
  round        \* rounds done

vars == <<phase, ctx, full, round, summary>>

NoSummary == {0}

Msg(role, calls, size) == [role |-> role, calls |-> calls, size |-> size, rows |-> {}]
User(size) == Msg("user", "none", size)
Marker == User(0)

Rows(ms) == UNION {ms[i].rows : i \in DOMAIN ms}

\* estimate_messages_tokens: per message its content and one token of framing.
Tokens(ms) == FoldLeft(LAMBDA n, m : n + m.size + 1, 0, ms)

\* check_prompt_size counts contents only.
Bytes(ms) == FoldLeft(LAMBDA n, m : n + m.size, 0, ms)

\* One message is read: a Tool message stays only after an Assistant message with tool
\* calls or after a Tool message that stayed.
Anchor(kept, m) ==
  IF m.role # "tool" \/ (kept # <<>> /\ (Last(kept).calls # "none" \/ Last(kept).role = "tool"))
    THEN Append(kept, m) ELSE kept

\* repair_tool_pairing: trailing requests go.
Repair(ms) ==
  LET anchored == FoldLeft(Anchor, <<>>, ms)
      ends == {n \in 0..Len(anchored) : n = 0 \/ anchored[n].calls = "none"}
  IN SubSeq(anchored, 1, Max(ends))

\* One message joins the last one of its role, never across tool messages or structured calls.
Joined(done, m) ==
  IF /\ done # <<>> /\ Last(done).role = m.role /\ m.role # "tool"
     /\ Last(done).calls # "structured" /\ m.calls # "structured"
    THEN Append(Front(done),
           [Last(done) EXCEPT !.size = @ + m.size, !.rows = @ \cup m.rows,
                              !.calls = IF m.calls = "none" THEN @ ELSE m.calls])
    ELSE Append(done, m)

\* merge_consecutive_same_role.
Merge(ms) == FoldLeft(Joined, <<>>, ms)

\* The pruning loop: while over budget and longer than MinKeep, drop the oldest
\* message and every Tool message that then comes first.
Prune(ms) ==
  LET Rest(k) == SubSeq(ms, k, Len(ms))
      skipTools(k) == Min({i \in k..(Len(ms) + 1) : i > Len(ms) \/ ms[i].role # "tool"})
      start[k \in 1..(Len(ms) + 1)] ==
        IF Tokens(Rest(k)) > Budget /\ Len(Rest(k)) > MinKeep
          THEN start[skipTools(k + 1)] ELSE k
  IN Rest(start[1])

\* optimize_context.
Optimize(ms) ==
  LET clean == Merge(Repair(ms)) IN
  IF Tokens(clean) <= Budget THEN clean ELSE <<Marker>> \o Prune(clean)

-----------------------------------------------------------------------------
Init ==
  /\ phase = "start"
  /\ ctx \in Histories
  /\ full = <<>>
  /\ round = 0
  /\ summary = {}

\* The rows as they are read back: append_transcript_entry was given no metadata,
\* so tool calls survive as text only.
Stored(ms) ==
  [i \in DOMAIN ms |->
     [ms[i] EXCEPT !.calls = IF @ = "none" THEN "none" ELSE "text"]]

\* Seeded bug: what is summarised is counted on the raw list.
CompactRawCount ==
  /\ phase = "start" /\ summary = {}
  /\ Tokens(ctx) > Budget
  /\ LET pruned == Len(ctx) - Len(Prune(Merge(Repair(ctx))))
     IN summary' \in IF pruned = 0 THEN {{}} ELSE {Rows(SubSeq(ctx, 1, pruned)), NoSummary}
  /\ ctx' = Stored(Optimize(ctx))
  /\ full' = ctx
  /\ UNCHANGED <<phase, round>>

\* Runtime::compact_session: nothing below the budget; otherwise the optimised
\* list replaces the transcript and the first pruned_count messages of the raw
\* list are summarised, unless the model fails.
Compact ==
  /\ phase = "start" /\ summary = {}
  /\ Tokens(ctx) > Budget
  /\ LET clean  == Merge(Repair(ctx))
         pruned == IF Tokens(clean) <= Budget THEN 0 ELSE Len(clean) - Len(Prune(clean))
     IN summary' \in IF pruned = 0 THEN {{}} ELSE {Rows(SubSeq(ctx, 1, pruned)), NoSummary}
  /\ ctx' = Stored(Optimize(ctx))
  /\ full' = ctx
  /\ UNCHANGED <<phase, round>>

\* Runtime::chat builds the first context from the history and the message, which is not empty.
Start ==
  /\ phase = "start"
  /\ \E size \in Sizes \ {0} :
       LET raw == Append(ctx, User(size)) IN
       /\ full' = Merge(Repair(raw))
       /\ ctx' = Optimize(raw)
       /\ phase' = IF Bytes(ctx') > HardLimit THEN "too_large" ELSE "model"
  /\ UNCHANGED <<round, summary>>

\* One round: the request, one result per call, and the mid-loop check.
ToolRound ==
  /\ phase = "model" /\ round < MaxRounds
  /\ \E n \in 1..MaxBatch : \E sizes \in [1..n -> Sizes] :
       LET raw == Append(ctx, Msg("assistant", "structured", 0)) \o
                  [i \in 1..n |-> Msg("tool", "none", sizes[i])] IN
       IF Tokens(raw) <= Budget
         THEN ctx' = raw /\ full' = raw /\ phase' = "model"
         ELSE /\ full' = Merge(Repair(raw))
              /\ ctx' = Optimize(raw)
              /\ phase' = IF Tokens(ctx') > Budget THEN "too_large" ELSE "model"
  /\ round' = round + 1
  /\ UNCHANGED summary

Answer ==
  /\ phase = "model"
  /\ phase' = "answered"
  /\ UNCHANGED <<ctx, full, round, summary>>

Done == phase \in {"answered", "too_large"} /\ UNCHANGED vars

Next == Compact \/ Start \/ ToolRound \/ Answer \/ Done

Spec == Init /\ [][Next]_vars

-----------------------------------------------------------------------------
(* Properties of every context the model is called with.                   *)

Sent == phase \in {"model", "answered"}
Body(ms) == IF ms # <<>> /\ ms[1] = Marker THEN Tail(ms) ELSE ms

\* A Tool message always answers a request that is still in the context: the
\* providers refuse it otherwise (repair_tool_pairing, pruning of leading tools).
ToolResultsAnchored ==
  Sent => \A i \in DOMAIN ctx : ctx[i].role = "tool" =>
    \E j \in 1..(i - 1) : ctx[j].calls # "none" /\ \A k \in (j + 1)..i : ctx[k].role = "tool"

\* Pruning only ever drops the oldest messages: what is sent is a suffix of the
\* repaired conversation.
OldestDroppedFirst == Sent => IsSuffix(Body(ctx), full) \/ IsSuffix(ctx, full)

\* The first model call sees what the user has just asked.
QuestionSent ==
  (phase = "model" /\ round = 0) => ctx # <<>> /\ Last(ctx).role = "user" /\ Last(ctx) # Marker

\* compact_session summarises what it is about to delete: no row is both in the
\* summary and in the transcript that is written back.
SummarisedOnce ==
  phase = "start" => summary \cap Rows(ctx) = {}

\* What the model is called with, over any transcript a failed or interrupted turn
\* leaves: no result without its request, the newest part of the conversation, the
\* question at its end, and nothing that a summary already stands for.
ContextSound == ToolResultsAnchored /\ OldestDroppedFirst /\ QuestionSent /\ SummarisedOnce
=============================================================================
