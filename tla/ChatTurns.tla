------------------------------ MODULE ChatTurns ------------------------------
(***************************************************************************)
(* Concurrent agent turns (Runtime::chat) on ONE session of the SQLite     *)
(* session store, with the operators that work on the same rows:           *)
(* sessions.reset, sessions.delete, sessions.patch and sessions.compact.   *)
(*                                                                         *)
(* Nothing locks a session: channel messages are handled one at a time,    *)
(* but WebSocket clients, webhooks, cron jobs and subagents start turns of *)
(* their own.  A turn reads the transcript, computes the next sequence     *)
(* number ONCE, and then only counts up; the primary key                   *)
(* (session_key, seq) is what stops two turns from mixing.  Every store    *)
(* call, model call and tool call is an await, so it is a step of its own. *)
(***************************************************************************)
EXTENDS Naturals, FiniteSets

CONSTANTS
  Turns,        \* turns that may run on the session
  Cancellable,  \* turns started with a cancel token (WebSocket chat.send)
  Interactive,  \* turns started with an approval channel (same)
  MaxRounds,    \* MAX_TOOL_ROUNDS
  MaxCalls,     \* MAX_TOOL_CALLS_PER_TURN
  RepeatBlock,  \* TOOL_REPEAT_BLOCK_THRESHOLD
  Operators,    \* which operators act on the session: "reset", "delete", ...
  DbFaults,     \* whether SQLite itself may fail (busy, I/O)
  Compactor     \* owner of the rows written by compact_session

ASSUME ConstantsOK ==
  /\ Cancellable \subseteq Turns
  /\ Interactive \subseteq Turns
  /\ MaxRounds \in Nat
  /\ MaxCalls \in Nat
  /\ RepeatBlock \in Nat \ {0}
  /\ Operators \subseteq {"reset", "delete", "patch", "compact"}
  /\ DbFaults \in BOOLEAN
  /\ Compactor \notin Turns

VARIABLES
  exists,       \* the session has a row in table sessions
  totalTurns,   \* metadata.total_turns of that row
  transcript,   \* rows of table transcript of this session
  pc,           \* where each turn is
  base,         \* first sequence number of a turn: what it read was below
  next,         \* its local next_seq
  round,        \* tool rounds done
  left,         \* remaining_tool_calls
  size,         \* tool calls of the current batch
  batch,        \* those of them not handled yet
  same,         \* ToolCallTracker: identical calls so far
  ran,          \* tool invocations really executed
  saw,          \* total_turns read by update_session_usage
  cancelled,    \* cancelled tokens
  patching,     \* step of sessions.patch
  patchSaw,     \* total_turns it read
  compacting,   \* step of compact_session
  compactRead,  \* rows it read
  compactSize,  \* rows it has to write
  compactDone,  \* rows it has written
  cleared       \* history: the transcript has been emptied at least once

storeVars == <<exists, totalTurns, transcript>>
loopVars == <<round, left, size, batch, same>>
turnVars == <<pc, base, next, round, left, size, batch, same, ran, saw, cancelled>>
patchVars == <<patching, patchSaw>>
compactVars == <<compacting, compactRead, compactSize, compactDone>>
operatorVars == <<patchVars, compactVars, cleared>>
vars == <<storeVars, turnVars, operatorVars>>

Roles == {"user", "assistant", "toolcalls", "tool"}
Entry == [seq: Nat \ {0}, turn: Turns \cup {Compactor}, role: Roles,
          ran: BOOLEAN]

Final == {"ok", "err", "conflict"}
Appending == {"user", "answer", "request", "refuse", "result"}
Steps == {"idle", "ensure", "create", "round", "model", "usage", "save",
          "tool", "approval", "invoke"} \cup Appending \cup Final

TypeOK ==
  /\ exists \in BOOLEAN
  /\ totalTurns \in Nat
  /\ transcript \subseteq Entry
  /\ pc \in [Turns -> Steps]
  /\ base \in [Turns -> Nat \ {0}]
  /\ next \in [Turns -> Nat \ {0}]
  /\ round \in [Turns -> Nat]
  /\ left \in [Turns -> 0..MaxCalls]
  /\ size \in [Turns -> 0..MaxCalls]
  /\ batch \in [Turns -> 0..MaxCalls]
  /\ same \in [Turns -> Nat]
  /\ ran \in [Turns -> Nat]
  /\ saw \in [Turns -> Nat]
  /\ cancelled \subseteq Turns
  /\ patching \in {"idle", "read", "done"}
  /\ patchSaw \in Nat
  /\ compacting \in {"idle", "summary", "write", "done", "err"}
  /\ compactRead \subseteq Entry
  /\ compactSize \in Nat
  /\ compactDone \in Nat
  /\ cleared \in BOOLEAN

Init ==
  /\ exists \in BOOLEAN
  /\ totalTurns = 0
  /\ transcript = {}
  /\ pc = [t \in Turns |-> "idle"]
  /\ base = [t \in Turns |-> 1]
  /\ next = [t \in Turns |-> 1]
  /\ round = [t \in Turns |-> 0]
  /\ left = [t \in Turns |-> MaxCalls]
  /\ size = [t \in Turns |-> 0]
  /\ batch = [t \in Turns |-> 0]
  /\ same = [t \in Turns |-> 0]
  /\ ran = [t \in Turns |-> 0]
  /\ saw = [t \in Turns |-> 0]
  /\ cancelled = {}
  /\ patching = "idle"
  /\ patchSaw = 0
  /\ compacting = "idle"
  /\ compactRead = {}
  /\ compactSize = 0
  /\ compactDone = 0
  /\ cleared = FALSE

-----------------------------------------------------------------------------
(* The session store.                                                      *)

\* Seeded bug: INSERT OR REPLACE, no primary key on (session_key, seq).
InsertableNoKey(seq) == exists

\* The INSERT of append_transcript succeeds: the session row is there (foreign
\* key) and no row has this sequence number (primary key).
Insertable(seq) == exists /\ \A e \in transcript : e.seq # seq

\* `upsert`: on conflict the whole metadata column is replaced.
Upsert(turnsInMetadata) ==
  /\ exists' = TRUE
  /\ totalTurns' = turnsInMetadata

\* DELETE FROM sessions cascades to the transcript.
DeleteRows ==
  /\ exists' = FALSE
  /\ totalTurns' = 0
  /\ transcript' = {}
  /\ cleared' = TRUE

ClearRows ==
  /\ transcript' = {}
  /\ cleared' = TRUE
  /\ UNCHANGED <<exists, totalTurns>>

-----------------------------------------------------------------------------
(* One turn.                                                               *)

Goto(t, step) == pc' = [pc EXCEPT ![t] = step]

\* Seeded bug: a refused INSERT is tried again.
AppendRetry(t, role, didRun, step) ==
  /\ IF Insertable(next[t])
       THEN /\ transcript' = transcript \cup
                 {[seq |-> next[t], turn |-> t, role |-> role, ran |-> didRun]}
            /\ next' = [next EXCEPT ![t] = @ + 1]
            /\ Goto(t, step)
       ELSE UNCHANGED <<transcript, next, pc>>
  /\ UNCHANGED <<exists, totalTurns>>

\* append_transcript_entry(next_seq), then next_seq += 1.  A refused INSERT
\* ends the turn; so does an SQLite failure, before the INSERT or between the
\* INSERT and the UPDATE of last_message_at (the row then stays).
Append(t, role, didRun, step) ==
  LET row == [seq |-> next[t], turn |-> t, role |-> role, ran |-> didRun] IN
  /\ \/ /\ Insertable(next[t])
        /\ transcript' = transcript \cup {row}
        /\ next' = [next EXCEPT ![t] = @ + 1]
        /\ Goto(t, step)
     \/ /\ ~Insertable(next[t])
        /\ Goto(t, IF exists THEN "conflict" ELSE "err")
        /\ UNCHANGED <<transcript, next>>
     \/ /\ DbFaults
        /\ \/ UNCHANGED transcript
           \/ Insertable(next[t]) /\ transcript' = transcript \cup {row}
        /\ Goto(t, "err")
        /\ UNCHANGED next
  /\ UNCHANGED <<exists, totalTurns>>

\* chat() with an empty message, or an unknown agent or model: nothing stored.
Reject(t) ==
  /\ pc[t] = "idle"
  /\ Goto(t, "err")
  /\ UNCHANGED <<storeVars, base, next, loopVars, ran, saw, cancelled, operatorVars>>

\* Seeded bug: next_seq leaves a gap after the last row.
ReadHistoryGap(t) ==
  /\ pc[t] = "idle"
  /\ \E n \in {1} \cup {e.seq + 2 : e \in transcript} :
       /\ \A e \in transcript : e.seq + 1 < n
       /\ base' = [base EXCEPT ![t] = n]
       /\ next' = [next EXCEPT ![t] = n]
  /\ Goto(t, "ensure")
  /\ UNCHANGED <<storeVars, loopVars, ran, saw, cancelled, operatorVars>>

\* get_transcript: next_seq is one past the last row read.
ReadHistory(t) ==
  /\ pc[t] = "idle"
  /\ \E n \in {1} \cup {e.seq + 1 : e \in transcript} :
       /\ \A e \in transcript : e.seq < n
       /\ base' = [base EXCEPT ![t] = n]
       /\ next' = [next EXCEPT ![t] = n]
  /\ Goto(t, "ensure")
  /\ UNCHANGED <<storeVars, loopVars, ran, saw, cancelled, operatorVars>>

\* ensure_session: look the row up ...
EnsureSession(t) ==
  /\ pc[t] = "ensure"
  /\ Goto(t, IF exists THEN "user" ELSE "create")
  /\ UNCHANGED <<storeVars, base, next, loopVars, ran, saw, cancelled, operatorVars>>

\* ... and insert it with empty metadata when it was not there.
CreateSession(t) ==
  /\ pc[t] = "create"
  /\ Upsert(0)
  /\ Goto(t, "user")
  /\ UNCHANGED <<transcript, base, next, loopVars, ran, saw, cancelled, operatorVars>>

\* The prompt is over the hard size limit: the turn ends before its first row.
PromptTooLarge(t) ==
  /\ pc[t] = "user"
  /\ Goto(t, "err")
  /\ UNCHANGED <<storeVars, base, next, loopVars, ran, saw, cancelled, operatorVars>>

AppendUser(t) ==
  /\ pc[t] = "user"
  /\ Append(t, "user", FALSE, "round")
  /\ UNCHANGED <<base, loopVars, ran, saw, cancelled, operatorVars>>

\* Head of the tool loop: round budget, cancel token, turn deadline.
StartRound(t) ==
  /\ pc[t] = "round"
  /\ IF round[t] > MaxRounds \/ t \in cancelled
       THEN Goto(t, "err")
       ELSE Goto(t, "model") \/ Goto(t, "err")
  /\ UNCHANGED <<storeVars, base, next, loopVars, ran, saw, cancelled, operatorVars>>

\* The select over the completion and the cancel token: an error, a
\* cancellation, a final answer, or a batch of tool calls.
ModelReturns(t) ==
  /\ pc[t] = "model"
  /\ \/ /\ pc' \in {[pc EXCEPT ![t] = s] : s \in {"err", "answer"}}
        /\ UNCHANGED <<size, batch>>
     \/ \E n \in 1..(MaxCalls + 1) :
          IF n > left[t]
            THEN Goto(t, "err") /\ UNCHANGED <<size, batch>>
            ELSE /\ size' = [size EXCEPT ![t] = n]
                 /\ batch' = [batch EXCEPT ![t] = n]
                 /\ Goto(t, "request")
  /\ UNCHANGED <<storeVars, base, next, round, left, same, ran, saw, cancelled, operatorVars>>

AppendAnswer(t) ==
  /\ pc[t] = "answer"
  /\ Append(t, "assistant", FALSE, "usage")
  /\ UNCHANGED <<base, loopVars, ran, saw, cancelled, operatorVars>>

AppendRequest(t) ==
  /\ pc[t] = "request"
  /\ Append(t, "toolcalls", FALSE, "tool")
  /\ UNCHANGED <<base, loopVars, ran, saw, cancelled, operatorVars>>

\* The next call of the batch: cancel token, loop detection, argument parsing,
\* and the approval channel for a tool that is not read-only.
StartTool(t) ==
  /\ pc[t] = "tool" /\ batch[t] > 0
  /\ \/ /\ t \in cancelled
        /\ Goto(t, "err")
        /\ UNCHANGED same
     \/ /\ t \notin cancelled
        /\ \E repeated \in BOOLEAN :
             LET n == IF repeated THEN same[t] + 1 ELSE same[t] IN
             /\ same' = [same EXCEPT ![t] = n]
             /\ IF repeated /\ n >= RepeatBlock
                  THEN Goto(t, "err")
                  ELSE \E step \in {"refuse", "invoke"} \cup
                                   (IF t \in Interactive THEN {"approval"} ELSE {}) :
                         Goto(t, step)
  /\ UNCHANGED <<storeVars, base, next, round, left, size, batch, ran, saw, cancelled, operatorVars>>

\* The human's answer; the wait has neither a timeout nor a cancel branch.  A
\* dropped channel ends the turn.
Decide(t) ==
  /\ pc[t] = "approval"
  /\ \E step \in {"invoke", "refuse", "err"} : Goto(t, step)
  /\ UNCHANGED <<storeVars, base, next, loopVars, ran, saw, cancelled, operatorVars>>

\* invoke_allowed (or handle_spawn_subagent) runs; a leaked credential in the
\* output ends the turn, an error becomes an ordinary result.
InvokeTool(t) ==
  /\ pc[t] = "invoke"
  /\ ran' = [ran EXCEPT ![t] = @ + 1]
  /\ Goto(t, "result") \/ Goto(t, "err")
  /\ UNCHANGED <<storeVars, base, next, loopVars, saw, cancelled, operatorVars>>

\* Seeded bug: the error of the append is dropped and the batch goes on.
AppendResultIgnored(t) ==
  /\ pc[t] \in {"refuse", "result"}
  /\ \/ Append(t, "tool", pc[t] = "result", "tool")
     \/ /\ ~Insertable(next[t])
        /\ Goto(t, "tool")
        /\ UNCHANGED <<storeVars, next>>
  /\ batch' = [batch EXCEPT ![t] = @ - 1]
  /\ UNCHANGED <<base, round, left, size, same, ran, saw, cancelled, operatorVars>>

\* The Tool row of the call: a synthetic error (bad arguments, denied) or the
\* result of the invocation.
AppendResult(t) ==
  /\ pc[t] \in {"refuse", "result"}
  /\ Append(t, "tool", pc[t] = "result", "tool")
  /\ batch' = [batch EXCEPT ![t] = @ - 1]
  /\ UNCHANGED <<base, round, left, size, same, ran, saw, cancelled, operatorVars>>

\* All calls of the batch are answered; the context may still be too large.
EndBatch(t) ==
  /\ pc[t] = "tool" /\ batch[t] = 0
  /\ left' = [left EXCEPT ![t] = @ - size[t]]
  /\ round' = [round EXCEPT ![t] = @ + 1]
  /\ Goto(t, "round") \/ Goto(t, "err")
  /\ UNCHANGED <<storeVars, base, next, size, batch, same, ran, saw, cancelled, operatorVars>>

\* update_session_usage: read the row (a missing row is ignored) ...
ReadUsage(t) ==
  /\ pc[t] = "usage"
  /\ saw' = [saw EXCEPT ![t] = totalTurns]
  /\ Goto(t, IF exists THEN "save" ELSE "ok")
  /\ UNCHANGED <<storeVars, base, next, loopVars, ran, cancelled, operatorVars>>

\* ... and write the whole row back; an error is ignored.
SaveUsage(t) ==
  /\ pc[t] = "save"
  /\ \/ Upsert(saw[t] + 1)
     \/ DbFaults /\ UNCHANGED <<exists, totalTurns>>
  /\ Goto(t, "ok")
  /\ UNCHANGED <<transcript, base, next, loopVars, ran, saw, cancelled, operatorVars>>

TurnStep(t) ==
  \/ Reject(t) \/ ReadHistory(t) \/ EnsureSession(t) \/ CreateSession(t)
  \/ PromptTooLarge(t) \/ AppendUser(t)
  \/ StartRound(t) \/ ModelReturns(t) \/ AppendAnswer(t)
  \/ AppendRequest(t) \/ StartTool(t) \/ InvokeTool(t) \/ AppendResult(t)
  \/ EndBatch(t) \/ ReadUsage(t) \/ SaveUsage(t)

-----------------------------------------------------------------------------
(* The other writers of the session.                                       *)

\* token.cancel(): chat.cancel on the run of this turn.
Cancel(t) ==
  /\ t \in Cancellable \ cancelled
  /\ pc[t] \notin Final
  /\ cancelled' = cancelled \cup {t}
  /\ UNCHANGED <<storeVars, pc, base, next, loopVars, ran, saw, operatorVars>>

ResetSession ==
  /\ "reset" \in Operators /\ transcript # {}
  /\ ClearRows
  /\ UNCHANGED <<turnVars, patchVars, compactVars>>

DeleteSession ==
  /\ "delete" \in Operators /\ exists
  /\ DeleteRows
  /\ UNCHANGED <<turnVars, patchVars, compactVars>>

\* sessions.patch reads the row, merges the patch, writes the whole row back.
PatchRead ==
  /\ "patch" \in Operators /\ patching = "idle" /\ exists
  /\ patching' = "read"
  /\ patchSaw' = totalTurns
  /\ UNCHANGED <<storeVars, turnVars, compactVars, cleared>>

PatchWrite ==
  /\ patching = "read"
  /\ Upsert(patchSaw)
  /\ patching' = "done"
  /\ UNCHANGED <<transcript, turnVars, patchSaw, compactVars, cleared>>

\* compact_session reads the transcript; over budget, it asks the model for a
\* summary of the pruned rows (an await).
CompactRead ==
  /\ "compact" \in Operators /\ compacting = "idle" /\ transcript # {}
  /\ compacting' = "summary"
  /\ compactRead' = transcript
  /\ UNCHANGED <<storeVars, turnVars, patchVars, compactSize, compactDone, cleared>>

\* The summary marker and the kept rows (pruning may keep all of them) replace
\* the transcript: clear_transcript, then ...
CompactClear ==
  /\ compacting = "summary"
  /\ ClearRows
  /\ compacting' = "write"
  /\ \E kept \in 0..Cardinality(compactRead) : compactSize' = kept + 1
  /\ UNCHANGED <<turnVars, patchVars, compactRead, compactDone>>

\* ... one append per row from sequence number 1; a refused one gives up and
\* leaves the rows written so far.
CompactAppend ==
  /\ compacting = "write"
  /\ LET n == compactDone + 1 IN
     IF Insertable(n)
       THEN /\ transcript' = transcript \cup
                 {[seq |-> n, turn |-> Compactor, role |-> "user", ran |-> FALSE]}
            /\ compactDone' = n
            /\ compacting' = IF n = compactSize THEN "done" ELSE "write"
       ELSE /\ compacting' = "err"
            /\ UNCHANGED <<transcript, compactDone>>
  /\ UNCHANGED <<exists, totalTurns, turnVars, patchVars, compactRead, compactSize, cleared>>

Next ==
  \/ \E t \in Turns : TurnStep(t) \/ Decide(t) \/ Cancel(t)
  \/ ResetSession \/ DeleteSession
  \/ PatchRead \/ PatchWrite
  \/ CompactRead \/ CompactClear \/ CompactAppend

\* Tokio keeps polling a started turn, and model and tool calls end (they have
\* timeouts); nobody promises that a human answers an approval.
Spec == Init /\ [][Next]_vars /\ \A t \in Turns : WF_vars(TurnStep(t))
-----------------------------------------------------------------------------
(* Properties.                                                             *)

Started(t) == pc[t] \notin {"idle", "ensure", "create", "user"}
RowsOf(t) == {e \in transcript : e.turn = t}

\* The rows a turn has stored carry exactly the sequence numbers from the one it
\* read as next up to its own counter, no number is used twice, and so the rows
\* of one turn are never mixed with rows of another (Runtime::chat counts
\* next_seq up without reading it again; the primary key does the rest).  Once
\* somebody empties the transcript only uniqueness and the bounds remain.
TurnRowsContiguous ==
  /\ \A e, f \in transcript : e.seq = f.seq => e = f
  /\ \A t \in Turns : \A e \in RowsOf(t) :
       base[t] <= e.seq /\ (e.seq < next[t] \/ (pc[t] = "err" /\ e.seq = next[t]))
  /\ ~cleared => \A t \in Turns : \A s \in base[t]..(next[t] - 1) :
       \E e \in RowsOf(t) : e.seq = s

\* Turns that return Ok on a transcript nobody emptied are serialised: one of any
\* two stored its last row before the other read the history.
OkTurnsSerialised ==
  ~cleared => \A t, u \in Turns :
    t # u /\ pc[t] = "ok" /\ pc[u] = "ok" => next[t] <= base[u] \/ next[u] <= base[t]

\* Whatever ends a turn, at most one tool call it executed is missing from the
\* transcript (the one in progress when a conflict, a leak or a cancellation hit).
AtMostOneLostResult ==
  ~cleared => \A t \in Turns :
    LET recorded == Cardinality({e \in RowsOf(t) : e.ran}) IN
    /\ recorded <= ran[t]
    /\ ran[t] <= recorded + 1
    /\ ran[t] = recorded + 1 => pc[t] \in {"result", "err", "conflict"}

\* A row is never stored below what a running turn read as its history, so no
\* turn answers on a history that was completed behind its back.
StoresAboveHistory ==
  ~cleared' => \A e \in transcript' \ transcript : \A t \in Turns :
    pc[t] # "idle" => base[t] <= e.seq
HistoryStable == [][StoresAboveHistory]_vars

\* Every turn without an approval channel ends: rounds, calls and waits are bounded.
TurnsEnd ==
  \A t \in Turns \ Interactive : pc[t] # "idle" ~> pc[t] \in Final
=============================================================================
