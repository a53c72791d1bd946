--------------------------- MODULE ChatTurns_proofs ---------------------------
(***************************************************************************)
(* For any set of turns, any round and call limits, with or without SQLite *)
(* failures and operators: rows of a turn are contiguous and unmixed,      *)
(* turns that answer are serialised, and a turn loses at most one result   *)
(* of the calls it executed.                                               *)
(***************************************************************************)
EXTENDS ChatTurns, FiniteSetTheorems, TLAPS

\* The parts that make TurnRowsContiguous inductive.  A turn that has not stored
\* a row yet owns none; until the transcript is emptied it has no gaps, and all
\* numbers below a turn's counter are taken.
Before == {"idle", "ensure", "create", "user"}

Unmixed == \A e, f \in transcript : e.seq = f.seq => e = f

InRange ==
  \A t \in Turns : \A e \in transcript : e.turn = t =>
    /\ base[t] <= e.seq
    /\ e.seq < next[t] \/ (pc[t] = "err" /\ e.seq = next[t])

Counters == \A t \in Turns :
  /\ base[t] <= next[t]
  /\ pc[t] \notin Before \cup {"err", "conflict"} => base[t] < next[t]
  /\ pc[t] = "idle" => next[t] = 1
  /\ pc[t] \in Before => /\ next[t] = base[t]
                         /\ \A e \in transcript : e.turn # t

NoGap == ~cleared =>
  /\ \A e \in transcript : \A s \in 1..e.seq : \E f \in transcript : f.seq = s
  /\ \A t \in Turns : \A s \in 1..(next[t] - 1) : \E f \in transcript : f.seq = s

OwnRows == ~cleared =>
  \A t \in Turns : \A s \in base[t]..(next[t] - 1) :
    \E e \in transcript : e.turn = t /\ e.seq = s

CompactionClears == compacting = "write" => cleared

\* What keeps the budget counters natural: a batch was checked against the calls
\* left when it was requested, and a call being handled is still counted in it.
Handling == {"approval", "invoke", "refuse", "result"}
Budget == \A t \in Turns :
  /\ batch[t] <= size[t]
  /\ pc[t] \in Handling \cup {"request", "tool"} => size[t] <= left[t]
  /\ pc[t] \in Handling => batch[t] > 0

ITyped == TypeOK /\ Budget

USE ConstantsOK DEF ConstantsOK

LEMMA InitTyped == Init => ITyped
<1>1. Init => cleared \in BOOLEAN
  BY DEF Init
<1>2. Init => TypeOK
  BY <1>1, SMT DEF Init, TypeOK, Steps, Appending, Final
<1>3. Init => Budget
  BY DEF Init, Budget, Handling
<1> QED
  BY <1>2, <1>3 DEF ITyped

\* The two flags stay Boolean whatever happens.
LEMMA FlagsStep == TypeOK /\ [Next]_vars => exists' \in BOOLEAN /\ cleared' \in BOOLEAN
<1> SUFFICES ASSUME TypeOK, [Next]_vars
             PROVE  exists' \in BOOLEAN /\ cleared' \in BOOLEAN
  OBVIOUS
<1> USE DEF storeVars, loopVars, turnVars, patchVars, compactVars, operatorVars
<1>1. exists \in BOOLEAN /\ cleared \in BOOLEAN
  BY DEF TypeOK
<1>2. ASSUME NEW t \in Turns, TurnStep(t)
      PROVE  (exists' = exists \/ exists' = TRUE) /\ cleared' = cleared
  BY <1>2, Zenon DEF TurnStep, Reject, ReadHistory, EnsureSession, CreateSession,
     PromptTooLarge, AppendUser, StartRound, ModelReturns, AppendAnswer,
     AppendRequest, StartTool, InvokeTool, AppendResult, EndBatch, ReadUsage,
     SaveUsage, Upsert, Append
<1>3. exists' = exists \/ exists' = TRUE \/ exists' = FALSE
  BY <1>2, Zenon DEF Next, vars, Decide, Cancel, ResetSession, DeleteSession,
     PatchRead, PatchWrite, CompactRead, CompactClear, CompactAppend, ClearRows,
     DeleteRows, Upsert
<1>4. cleared' = cleared \/ cleared' = TRUE
  BY <1>2, Zenon DEF Next, vars, Decide, Cancel, ResetSession, DeleteSession,
     PatchRead, PatchWrite, CompactRead, CompactClear, CompactAppend, ClearRows,
     DeleteRows
<1> QED
  BY <1>1, <1>3, <1>4, Zenon

\* The row a turn or the compactor stores is a row.
LEMMA RowTyped ==
  ASSUME NEW n \in Nat \ {0}, NEW o \in Turns \cup {Compactor},
         NEW r \in Roles, NEW b \in BOOLEAN
  PROVE  [seq |-> n, turn |-> o, role |-> r, ran |-> b] \in Entry
  BY DEF Entry

\* What an append does to the store and to the turn, whoever calls it.
Appended(t, s) ==
  /\ transcript' \subseteq Entry
  /\ next' \in [Turns -> Nat \ {0}]
  /\ \E x \in {s, "err", "conflict"} : pc' = [pc EXCEPT ![t] = x]
  /\ exists' = exists
  /\ totalTurns' = totalTurns

LEMMA AppendTyped ==
  ASSUME ITyped, NEW t \in Turns, NEW r \in Roles, NEW b \in BOOLEAN,
         NEW s \in Steps, Append(t, r, b, s)
  PROVE  Appended(t, s)
  BY RowTyped DEF Append, Appended, Goto, ITyped, TypeOK

LEMMA TypedStep == ITyped /\ [Next]_vars => ITyped'
<1> SUFFICES ASSUME ITyped, [Next]_vars PROVE ITyped'
  OBVIOUS
<1>0. exists' \in BOOLEAN /\ cleared' \in BOOLEAN
  BY FlagsStep DEF ITyped
<1> USE <1>0 DEF ITyped, TypeOK, Budget, Handling, Steps, Appending, Final,
            storeVars, loopVars, turnVars, patchVars, compactVars, operatorVars
<1>1. ASSUME NEW t \in Turns, TurnStep(t) PROVE ITyped'
  <2>1. CASE Reject(t) BY <2>1 DEF Reject, Goto
  <2>2. CASE ReadHistory(t)
    <3>1. \A e \in transcript : e.seq + 1 \in Nat \ {0} BY DEF Entry
    <3>2. PICK n \in {1} \cup {e.seq + 1 : e \in transcript} :
            base' = [base EXCEPT ![t] = n] /\ next' = [next EXCEPT ![t] = n]
      BY <2>2 DEF ReadHistory
    <3>3. n \in Nat \ {0} BY <3>1
    <3> QED BY <2>2, <3>2, <3>3 DEF ReadHistory, Goto
  <2>3. CASE EnsureSession(t) BY <2>3 DEF EnsureSession, Goto
  <2>4. CASE CreateSession(t) BY <2>4 DEF CreateSession, Goto, Upsert
  <2>5. CASE PromptTooLarge(t) BY <2>5 DEF PromptTooLarge, Goto
  <2>6. CASE AppendUser(t)
    <3>1. Append(t, "user", FALSE, "round") BY <2>6 DEF AppendUser
    <3>2. Appended(t, "round") BY <3>1, AppendTyped DEF Roles
    <3> QED BY <2>6, <3>2 DEF AppendUser, Appended
  <2>7. CASE StartRound(t) BY <2>7 DEF StartRound, Goto
  <2>8. CASE ModelReturns(t) BY <2>8 DEF ModelReturns, Goto
  <2>9. CASE AppendAnswer(t)
    <3>1. Append(t, "assistant", FALSE, "usage") BY <2>9 DEF AppendAnswer
    <3>2. Appended(t, "usage") BY <3>1, AppendTyped DEF Roles
    <3> QED BY <2>9, <3>2 DEF AppendAnswer, Appended
  <2>10. CASE AppendRequest(t)
    <3>1. Append(t, "toolcalls", FALSE, "tool") BY <2>10 DEF AppendRequest
    <3>2. Appended(t, "tool") BY <3>1, AppendTyped DEF Roles
    <3> QED BY <2>10, <3>2 DEF AppendRequest, Appended
  <2>11. CASE StartTool(t) BY <2>11 DEF StartTool, Goto
  <2>12. CASE InvokeTool(t) BY <2>12 DEF InvokeTool, Goto
  <2>13. CASE AppendResult(t)
    <3>1. Append(t, "tool", pc[t] = "result", "tool") BY <2>13 DEF AppendResult
    <3>2. Appended(t, "tool") BY <3>1, AppendTyped DEF Roles
    <3> QED BY <2>13, <3>2 DEF AppendResult, Appended
  <2>14. CASE EndBatch(t) BY <2>14 DEF EndBatch, Goto
  <2>15. CASE ReadUsage(t) BY <2>15 DEF ReadUsage, Goto
  <2>16. CASE SaveUsage(t) BY <2>16 DEF SaveUsage, Goto, Upsert
  <2> QED
    BY <1>1, <2>1, <2>2, <2>3, <2>4, <2>5, <2>6, <2>7, <2>8, <2>9, <2>10, <2>11,
       <2>12, <2>13, <2>14, <2>15, <2>16 DEF TurnStep
<1>2. ASSUME NEW t \in Turns, Decide(t) PROVE ITyped'
  BY <1>2 DEF Decide, Goto
<1>3. ASSUME NEW t \in Turns, Cancel(t) PROVE ITyped'
  BY <1>3 DEF Cancel
<1>4. CASE ResetSession \/ DeleteSession
  BY <1>4 DEF ResetSession, DeleteSession, ClearRows, DeleteRows
<1>5. CASE PatchRead \/ PatchWrite
  BY <1>5 DEF PatchRead, PatchWrite, Upsert
<1>6. CASE CompactRead
  BY <1>6 DEF CompactRead
<1>7. CASE CompactClear
  BY <1>7 DEF CompactClear, ClearRows
<1>8. CASE CompactAppend
  <2> DEFINE row == [seq |-> compactDone + 1, turn |-> Compactor,
                     role |-> "user", ran |-> FALSE]
  <2>1. row \in Entry
    BY DEF Entry, Roles
  <2>2. transcript' = transcript \/ transcript' = transcript \cup {row}
    BY <1>8 DEF CompactAppend
  <2>3. transcript' \subseteq Entry
    BY <2>1, <2>2
  <2> HIDE DEF row
  <2> QED
    BY <1>8, <2>3 DEF CompactAppend
<1>9. CASE UNCHANGED vars
  BY <1>9 DEF vars
<1> QED
  BY <1>1, <1>2, <1>3, <1>4, <1>5, <1>6, <1>7, <1>8, <1>9 DEF Next

\* Every variable keeps its type.  The call budget of Runtime::chat is charged
\* after the batch it was checked against, and still never goes below zero.
THEOREM TypeCorrect == Spec => []TypeOK
<1>1. ITyped => TypeOK
  BY DEF ITyped
<1> QED
  BY <1>1, InitTyped, TypedStep, PTL DEF Spec

-----------------------------------------------------------------------------
(* The rows.                                                               *)

IRows == Unmixed /\ InRange /\ Counters /\ NoGap /\ OwnRows /\ CompactionClears

LEMMA InitRows == Init => IRows
  BY DEF Init, IRows, Unmixed, InRange, Counters, NoGap, OwnRows,
         CompactionClears, Before

\* A step that leaves the rows and the turn's counters alone, and only moves a
\* turn forward, keeps every part.
LEMMA QuietStep ==
  ASSUME ITyped, IRows, transcript' = transcript, base' = base, next' = next,
         cleared' = cleared, compacting' = compacting \/ compacting' # "write",
         \A t \in Turns : pc'[t] = pc[t] \/
            (/\ pc[t] \notin {"err", "conflict"}
             /\ pc'[t] \in Before => pc[t] \in Before /\ pc'[t] # "idle"
             /\ pc[t] \in Before => pc'[t] \in Before \cup {"err", "conflict"})
  PROVE  IRows'
<1> USE DEF IRows
<1>1. Unmixed' BY DEF Unmixed
<1>2. InRange' BY DEF InRange
<1>3. Counters' BY DEF Counters, Before
<1>4. NoGap' BY DEF NoGap
<1>5. OwnRows' BY DEF OwnRows
<1>6. CompactionClears' BY DEF CompactionClears
<1> QED BY <1>1, <1>2, <1>3, <1>4, <1>5, <1>6

\* An append keeps every part: the number it takes is free, so by NoGap nothing
\* lies beyond it, and it is the turn's own counter.
LEMMA AppendRows ==
  ASSUME ITyped, IRows, NEW t \in Turns, NEW r \in Roles, NEW b \in BOOLEAN,
         NEW s \in Steps \ (Before \cup {"err"}), pc[t] \in Appending,
         Append(t, r, b, s), base' = base, cleared' = cleared,
         compacting' = compacting
  PROVE  IRows'
<1> DEFINE row == [seq |-> next[t], turn |-> t, role |-> r, ran |-> b]
<1>0. /\ row.seq = next[t] /\ row.turn = t
      /\ pc \in [Turns -> Steps] /\ next \in [Turns -> Nat \ {0}]
      /\ base \in [Turns -> Nat \ {0}]
      /\ \A e \in transcript : e.seq \in Nat \ {0}
      /\ pc[t] \notin {"err", "conflict"} /\ "err" \notin Before /\ "conflict" \notin Before
      /\ "idle" \in Before
  BY DEF ITyped, TypeOK, Appending, Entry, Before
<1>1. CASE Insertable(next[t]) /\ transcript' = transcript \cup {row}
                 /\ \E x \in Steps \ Before : pc' = [pc EXCEPT ![t] = x]
                 /\ \/ next' = [next EXCEPT ![t] = @ + 1] /\ pc'[t] # "err"
                    \/ next' = next /\ pc'[t] = "err"
  <2> HIDE DEF row
  <2>1. \A e \in transcript : e.seq # next[t]
    BY <1>1 DEF Insertable
  <2>2. \A u \in Turns : /\ next'[u] = next[u] \/ (u = t /\ next'[u] = next[u] + 1)
                         /\ u # t => pc'[u] = pc[u]
                         /\ pc'[t] \notin Before
    BY <1>0, <1>1
  <2>3. Unmixed'
    BY <1>0, <1>1, <2>1 DEF IRows, Unmixed
  <2>4. base[t] <= next[t]
    BY DEF IRows, Counters
  <2>5. InRange'
    BY <1>0, <1>1, <2>2, <2>4 DEF IRows, InRange
  <2>6. Counters'
    BY <1>0, <1>1, <2>2 DEF IRows, Counters
  <2>7. NoGap'
    <3> SUFFICES ASSUME ~cleared
                 PROVE  /\ \A e \in transcript' : \A n \in 1..e.seq :
                             \E f \in transcript' : f.seq = n
                        /\ \A u \in Turns : \A n \in 1..(next'[u] - 1) :
                             \E f \in transcript' : f.seq = n
      BY DEF NoGap
    <3>1. /\ \A e \in transcript : \A n \in 1..e.seq : \E f \in transcript : f.seq = n
          /\ \A u \in Turns : \A n \in 1..(next[u] - 1) : \E f \in transcript : f.seq = n
      BY DEF IRows, NoGap
    <3>2. \A n \in 1..next[t] : \E f \in transcript' : f.seq = n
      BY <1>0, <1>1, <3>1
    <3>3. \A e \in transcript : e \in transcript'
      BY <1>1
    <3>4. \A e \in transcript' : \A n \in 1..e.seq : \E f \in transcript' : f.seq = n
      BY <1>0, <1>1, <3>1, <3>2, <3>3
    <3>5. \A u \in Turns : \A n \in 1..(next'[u] - 1) : \E f \in transcript' : f.seq = n
      BY <1>0, <2>2, <3>1, <3>2, <3>3
    <3> QED BY <3>4, <3>5
  <2>8. OwnRows'
    BY <1>0, <1>1, <2>2 DEF IRows, OwnRows
  <2> QED
    BY <2>3, <2>5, <2>6, <2>7, <2>8 DEF IRows, CompactionClears
<1>2. CASE transcript' = transcript /\ next' = next
           /\ \E x \in {"err", "conflict"} : pc' = [pc EXCEPT ![t] = x]
  BY <1>0, <1>2, QuietStep
<1> QED
  BY <1>0, <1>1, <1>2 DEF Append, Goto, Steps, Final

LEMMA RowsStep == ITyped /\ IRows /\ [Next]_vars => IRows'
<1> SUFFICES ASSUME ITyped, IRows, [Next]_vars PROVE IRows'
  OBVIOUS
<1>0. pc \in [Turns -> Steps]
  BY DEF ITyped, TypeOK
<1> USE DEF storeVars, loopVars, turnVars, patchVars, compactVars, operatorVars
<1>1. ASSUME NEW t \in Turns, TurnStep(t) PROVE IRows'
  <2>1. CASE Reject(t) \/ EnsureSession(t) \/ CreateSession(t) \/ PromptTooLarge(t)
    BY <1>0, <2>1, QuietStep DEF Reject, EnsureSession, CreateSession,
       PromptTooLarge, Goto, Upsert, Before
  <2>2. CASE StartRound(t) \/ StartTool(t) \/ InvokeTool(t) \/ EndBatch(t)
    BY <1>0, <2>2, QuietStep DEF StartRound, StartTool, InvokeTool,
       EndBatch, Goto, Before
  <2>3. CASE ModelReturns(t)
    BY <1>0, <2>3, QuietStep DEF ModelReturns, Goto, Before
  <2>4. CASE ReadUsage(t) \/ SaveUsage(t)
    BY <1>0, <2>4, QuietStep DEF ReadUsage, SaveUsage, Goto, Upsert, Before
  <2>5. CASE AppendUser(t)
    BY <2>5, AppendRows DEF AppendUser, Roles, Steps, Appending, Before, Final
  <2>6. CASE AppendAnswer(t)
    BY <2>6, AppendRows DEF AppendAnswer, Roles, Steps, Appending, Before, Final
  <2>7. CASE AppendRequest(t)
    BY <2>7, AppendRows DEF AppendRequest, Roles, Steps, Appending, Before, Final
  <2>8. CASE AppendResult(t)
    BY <2>8, AppendRows DEF AppendResult, Roles, Steps, Appending, Before, Final
  <2>9. CASE ReadHistory(t)
    \* Without operators the transcript is dense, so everything below n is taken.
    <3>1. PICK n \in {1} \cup {e.seq + 1 : e \in transcript} :
            /\ \A e \in transcript : e.seq < n
            /\ base' = [base EXCEPT ![t] = n]
            /\ next' = [next EXCEPT ![t] = n]
      BY <2>9 DEF ReadHistory
    <3>2. /\ transcript' = transcript /\ cleared' = cleared /\ compacting' = compacting
          /\ pc[t] = "idle" /\ pc' = [pc EXCEPT ![t] = "ensure"]
          /\ base \in [Turns -> Nat \ {0}] /\ next \in [Turns -> Nat \ {0}]
          /\ \A e \in transcript : e.seq \in Nat \ {0}
      BY <2>9 DEF ReadHistory, Goto, ITyped, TypeOK, Entry
    <3>3. \A e \in transcript : e.turn # t
      BY <3>2 DEF IRows, Counters, Before
    <3>4. n \in Nat \ {0}
      BY <3>1, <3>2
    <3>5. Unmixed' /\ CompactionClears'
      BY <3>2 DEF IRows, Unmixed, CompactionClears
    <3>6. InRange'
      BY <1>0, <3>1, <3>2, <3>3, <3>4 DEF IRows, InRange
    <3>7. Counters'
      BY <1>0, <3>1, <3>2, <3>3, <3>4 DEF IRows, Counters, Before
    <3>8. NoGap'
      BY <1>0, <3>1, <3>2, <3>4 DEF IRows, NoGap
    <3>9. OwnRows'
      BY <1>0, <3>1, <3>2, <3>4 DEF IRows, OwnRows
    <3> QED BY <3>5, <3>6, <3>7, <3>8, <3>9 DEF IRows
  <2> QED
    BY <1>1, <2>1, <2>2, <2>3, <2>4, <2>5, <2>6, <2>7, <2>8, <2>9 DEF TurnStep
<1>2. ASSUME NEW t \in Turns, Decide(t) \/ Cancel(t) PROVE IRows'
  BY <1>0, <1>2, QuietStep DEF Decide, Cancel, Goto, Before
<1>3. CASE ResetSession \/ DeleteSession \/ CompactClear
  BY <1>3 DEF ResetSession, DeleteSession, CompactClear, ClearRows, DeleteRows,
     IRows, Unmixed, InRange, Counters, NoGap, OwnRows, CompactionClears
<1>4. CASE PatchRead \/ PatchWrite \/ CompactRead
  BY <1>4, QuietStep DEF PatchRead, PatchWrite, CompactRead, Upsert
<1>5. CASE CompactAppend
  \* The compactor owns its rows, and the transcript has been emptied before.
  <2> DEFINE row == [seq |-> compactDone + 1, turn |-> Compactor,
                     role |-> "user", ran |-> FALSE]
  <2>1. cleared /\ cleared' /\ base' = base /\ next' = next /\ pc' = pc
    BY <1>5 DEF CompactAppend, IRows, CompactionClears
  <2>2. \/ transcript' = transcript
        \/ /\ transcript' = transcript \cup {row}
           /\ \A e \in transcript : e.seq # row.seq
    BY <1>5 DEF CompactAppend, Insertable
  <2>3. row.turn \notin Turns
    OBVIOUS
  <2> HIDE DEF row
  <2>4. Unmixed'
    BY <2>2 DEF IRows, Unmixed
  <2>5. InRange' /\ Counters'
    BY <2>1, <2>2, <2>3 DEF IRows, InRange, Counters
  <2> QED
    BY <2>1, <2>4, <2>5 DEF IRows, NoGap, OwnRows, CompactionClears
<1>6. CASE UNCHANGED vars
  BY <1>6, QuietStep DEF vars
<1> QED
  BY <1>1, <1>2, <1>3, <1>4, <1>5, <1>6 DEF Next

IInv == ITyped /\ IRows

LEMMA Invariance == Spec => []IInv
<1>1. Init => IInv
  BY InitTyped, InitRows DEF IInv
<1>2. IInv /\ [Next]_vars => IInv'
  BY TypedStep, RowsStep DEF IInv
<1> QED
  BY <1>1, <1>2, PTL DEF Spec

\* Rows of one turn carry consecutive numbers that no other row uses.
THEOREM RowsContiguous == Spec => []TurnRowsContiguous
<1>1. IInv => TurnRowsContiguous
  BY DEF IInv, IRows, Unmixed, InRange, OwnRows, TurnRowsContiguous, RowsOf
<1> QED
  BY <1>1, Invariance, PTL

\* Any two turns that answered ran, as far as the transcript shows, one after
\* the other: their blocks of rows are disjoint intervals.
THEOREM TurnsSerialised == Spec => []OkTurnsSerialised
<1>1. IInv => OkTurnsSerialised
  <2> SUFFICES ASSUME IInv, ~cleared, NEW t \in Turns, NEW u \in Turns, t # u,
                      pc[t] = "ok", pc[u] = "ok",
                      next[t] > base[u], next[u] > base[t]
               PROVE  FALSE
    BY DEF OkTurnsSerialised, IInv, ITyped, TypeOK
  <2>0. base[t] \in Nat /\ base[u] \in Nat /\ next[t] \in Nat /\ next[u] \in Nat
    BY DEF IInv, ITyped, TypeOK
  <2>1. PICK s \in {base[t], base[u]} : s >= base[t] /\ s >= base[u]
    BY <2>0
  <2>2. s \in base[t]..(next[t] - 1) /\ s \in base[u]..(next[u] - 1)
    <3>1. base[t] < next[t] /\ base[u] < next[u]
      BY DEF IInv, IRows, Counters, Before
    <3> QED BY <2>0, <2>1, <3>1
  <2>3. PICK e \in transcript : e.turn = t /\ e.seq = s
    BY <2>2 DEF IInv, IRows, OwnRows
  <2>4. PICK f \in transcript : f.turn = u /\ f.seq = s
    BY <2>2 DEF IInv, IRows, OwnRows
  <2> QED
    BY <2>3, <2>4 DEF IInv, IRows, Unmixed
<1> QED
  BY <1>1, Invariance, PTL

\* No step stores a row below the point up to which a running turn has read.
THEOREM HistoryIsStable == Spec => HistoryStable
<1>1. IInv /\ [Next]_vars => StoresAboveHistory
  <2> SUFFICES ASSUME IInv, [Next]_vars, ~cleared',
                      NEW e \in transcript', e \notin transcript, NEW u \in Turns
               PROVE  base[u] <= e.seq
    BY DEF StoresAboveHistory
  <2> USE DEF storeVars, loopVars, turnVars, patchVars, compactVars, operatorVars
  <2>1. ~cleared
    BY Zenon DEF Next, vars, TurnStep, Reject, ReadHistory, EnsureSession, CreateSession,
       PromptTooLarge, AppendUser, StartRound, ModelReturns, AppendAnswer,
       AppendRequest, StartTool, InvokeTool, AppendResult, EndBatch, ReadUsage,
       SaveUsage, Decide, Cancel, ResetSession, DeleteSession, PatchRead,
       PatchWrite, CompactRead, CompactClear, CompactAppend, ClearRows, DeleteRows
  <2>2. \E t \in Turns : next[t] = e.seq /\ Insertable(next[t])
    <3>1. ASSUME NEW t \in Turns, TurnStep(t) PROVE next[t] = e.seq /\ Insertable(next[t])
      <4>1. \E r, b, s : Append(t, r, b, s)
        BY <3>1 DEF TurnStep, Reject, ReadHistory, EnsureSession, CreateSession,
           PromptTooLarge, AppendUser, StartRound, ModelReturns, AppendAnswer,
           AppendRequest, StartTool, InvokeTool, AppendResult, EndBatch, ReadUsage,
           SaveUsage
      <4> QED BY <4>1 DEF Append
    <3>2. ~CompactAppend
      BY <2>1 DEF IInv, IRows, CompactionClears, CompactAppend
    <3> QED
      BY <3>1, <3>2 DEF Next, vars, Decide, Cancel, ResetSession, DeleteSession,
         PatchRead, PatchWrite, CompactRead, CompactClear, ClearRows, DeleteRows
  <2>3. PICK t \in Turns : next[t] = e.seq /\ \A f \in transcript : f.seq # next[t]
    BY <2>2 DEF Insertable
  <2>4. ~(next[t] \in 1..(next[u] - 1))
    BY <2>1, <2>3 DEF IInv, IRows, NoGap
  <2>5. base[u] <= next[u] /\ base[u] \in Nat /\ next[u] \in Nat /\ next[t] \in Nat \ {0}
    BY DEF IInv, IRows, Counters, ITyped, TypeOK
  <2> QED
    BY <2>3, <2>4, <2>5
<1> QED
  BY <1>1, Invariance, PTL DEF Spec, HistoryStable

-----------------------------------------------------------------------------
(* What was executed and what is recorded.                                 *)

Recorded(t) == {e \in transcript : e.turn = t /\ e.ran}

\* A turn has recorded every call it executed but the one whose result it holds; a turn that
\* failed may have lost that one.
Missing(t, recorded) ==
  /\ pc[t] = "result" => ran[t] = recorded + 1
  /\ pc[t] \in {"err", "conflict"} => ran[t] \in {recorded, recorded + 1}
  /\ pc[t] \notin {"result", "err", "conflict"} => ran[t] = recorded

Executed ==
  /\ IsFiniteSet(transcript)
  /\ ~cleared => \A t \in Turns : Missing(t, Cardinality(Recorded(t)))

\* The number of recorded calls is a number.
LEMMA RecordedCounts ==
  ASSUME IsFiniteSet(transcript), NEW t
  PROVE  IsFiniteSet(Recorded(t)) /\ Cardinality(Recorded(t)) \in Nat
<1>1. Recorded(t) \subseteq transcript BY DEF Recorded
<1> QED BY <1>1, FS_Subset, FS_CardinalityType

\* A step that stores nothing and executes nothing, and leaves a turn that holds a result alone.
LEMMA NothingRecorded ==
  ASSUME ITyped, Executed, transcript' = transcript, ran' = ran, cleared' = cleared,
         \A t \in Turns : pc'[t] = pc[t] \/ (pc[t] \notin {"result", "err", "conflict"} /\ pc'[t] # "result")
  PROVE  Executed'
<1> SUFFICES ASSUME ~cleared, NEW t \in Turns
             PROVE  Missing(t, Cardinality(Recorded(t)))'
  BY DEF Executed
<1>1. Recorded(t)' = Recorded(t) BY DEF Recorded
<1>2. Missing(t, Cardinality(Recorded(t))) BY DEF Executed
<1> QED BY <1>1, <1>2 DEF Missing

\* An append stores the result a turn holds, if it holds one, or ends the turn.
LEMMA AppendRecords ==
  ASSUME ITyped, Executed, NEW t \in Turns, NEW r \in Roles, NEW b \in BOOLEAN,
         NEW s \in Steps, s \notin {"result", "err", "conflict"}, Append(t, r, b, s),
         b <=> pc[t] = "result", pc[t] \notin {"err", "conflict"}, ran' = ran, cleared' = cleared
  PROVE  Executed'
<1> DEFINE row == [seq |-> next[t], turn |-> t, role |-> r, ran |-> b]
<1>0. /\ pc \in [Turns -> Steps] /\ ran \in [Turns -> Nat]
      /\ row.seq = next[t] /\ row.turn = t /\ row.ran = b
  BY DEF ITyped, TypeOK
<1>1. \E x \in Steps : pc' = [pc EXCEPT ![t] = x] /\ x \in {s, "err", "conflict"}
  BY DEF Append, Goto, Steps, Final
<1>2. \/ transcript' = transcript /\ \E x \in {"err", "conflict"} : pc' = [pc EXCEPT ![t] = x]
      \/ row \notin transcript /\ transcript' = transcript \cup {row}
  BY DEF Append, Goto, Insertable
<1> HIDE DEF row
<1>3. IsFiniteSet(transcript)'
  <2>1. IsFiniteSet(transcript \cup {row}) BY FS_AddElement DEF Executed
  <2> QED BY <1>2, <2>1 DEF Executed
<1>4. ASSUME ~cleared, NEW u \in Turns PROVE Missing(u, Cardinality(Recorded(u)))'
  <2>1. Missing(u, Cardinality(Recorded(u))) /\ Cardinality(Recorded(u)) \in Nat
    BY <1>4, RecordedCounts DEF Executed
  <2>2. CASE u = t /\ b /\ row \notin transcript /\ transcript' = transcript \cup {row}
    <3>1. Recorded(t)' = Recorded(t) \cup {row} /\ row \notin Recorded(t)
      BY <1>0, <2>2 DEF Recorded
    <3>2. IsFiniteSet(Recorded(t)) BY RecordedCounts DEF Executed
    <3>3. Cardinality(Recorded(t) \cup {row}) = Cardinality(Recorded(t)) + 1
      BY <3>1, <3>2, FS_AddElement
    <3> QED BY <1>0, <1>1, <2>1, <2>2, <3>1, <3>3 DEF Missing
  <2>3. CASE Recorded(u)' = Recorded(u) /\ (u # t \/ ~b)
    BY <1>0, <1>1, <2>1, <2>3 DEF Missing
  <2>4. CASE transcript' = transcript /\ \E x \in {"err", "conflict"} : pc' = [pc EXCEPT ![t] = x]
    <3>1. Recorded(u)' = Recorded(u) BY <2>4 DEF Recorded
    <3> QED BY <1>0, <2>1, <2>4, <3>1 DEF Missing
  <2>5. u # t \/ ~b => Recorded(u)' = Recorded(u) \/ transcript' = transcript
    BY <1>0, <1>2 DEF Recorded
  <2> QED BY <1>2, <2>2, <2>3, <2>4, <2>5
<1> QED BY <1>3, <1>4 DEF Executed

LEMMA ExecutedStep == IInv /\ Executed /\ [Next]_vars => Executed'
<1> SUFFICES ASSUME IInv, Executed, [Next]_vars PROVE Executed'
  OBVIOUS
<1>0. ITyped /\ pc \in [Turns -> Steps] /\ ran \in [Turns -> Nat]
  BY DEF IInv, ITyped, TypeOK
<1> USE DEF storeVars, loopVars, turnVars, patchVars, compactVars, operatorVars
<1>1. ASSUME NEW t \in Turns, TurnStep(t) PROVE Executed'
  <2>1. CASE Reject(t) \/ EnsureSession(t) \/ CreateSession(t) \/ PromptTooLarge(t) \/ ReadHistory(t)
    BY <1>0, <2>1, NothingRecorded DEF Reject, EnsureSession, CreateSession, PromptTooLarge, ReadHistory, Goto, Upsert
  <2>2. CASE StartRound(t) \/ StartTool(t) \/ EndBatch(t)
    BY <1>0, <2>2, NothingRecorded DEF StartRound, StartTool, EndBatch, Goto
  <2>3. CASE ModelReturns(t)
    BY <1>0, <2>3, NothingRecorded DEF ModelReturns, Goto
  <2>4. CASE ReadUsage(t) \/ SaveUsage(t)
    BY <1>0, <2>4, NothingRecorded DEF ReadUsage, SaveUsage, Goto, Upsert
  <2>5. CASE AppendUser(t)
    BY <1>0, <2>5, AppendRecords DEF AppendUser, Roles, Steps
  <2>6. CASE AppendAnswer(t)
    BY <1>0, <2>6, AppendRecords DEF AppendAnswer, Roles, Steps
  <2>7. CASE AppendRequest(t)
    BY <1>0, <2>7, AppendRecords DEF AppendRequest, Roles, Steps
  <2>8. CASE AppendResult(t)
    BY <1>0, <2>8, AppendRecords DEF AppendResult, Roles, Steps
  <2>9. CASE InvokeTool(t)
    <3>1. /\ transcript' = transcript /\ cleared' = cleared /\ pc[t] = "invoke"
          /\ ran' = [ran EXCEPT ![t] = @ + 1]
          /\ \E x \in {"result", "err"} : pc' = [pc EXCEPT ![t] = x]
      BY <2>9 DEF InvokeTool, Goto
    <3>2. ASSUME ~cleared, NEW u \in Turns PROVE Missing(u, Cardinality(Recorded(u)))'
      <4>1. Missing(u, Cardinality(Recorded(u))) /\ Cardinality(Recorded(u)) \in Nat
        BY <3>2, RecordedCounts DEF Executed
      <4>2. Recorded(u)' = Recorded(u) BY <3>1 DEF Recorded
      <4> QED BY <1>0, <3>1, <4>1, <4>2 DEF Missing
    <3> QED BY <3>1, <3>2 DEF Executed
  <2> QED
    BY <1>1, <2>1, <2>2, <2>3, <2>4, <2>5, <2>6, <2>7, <2>8, <2>9 DEF TurnStep
<1>2. ASSUME NEW t \in Turns, Decide(t) \/ Cancel(t) PROVE Executed'
  BY <1>0, <1>2, NothingRecorded DEF Decide, Cancel, Goto
<1>3. CASE ResetSession \/ DeleteSession \/ CompactClear
  BY <1>3, FS_EmptySet DEF ResetSession, DeleteSession, CompactClear, ClearRows, DeleteRows, Executed
<1>4. CASE PatchRead \/ PatchWrite \/ CompactRead
  BY <1>0, <1>4, NothingRecorded DEF PatchRead, PatchWrite, CompactRead, Upsert
<1>5. CASE CompactAppend
  \* The transcript has been emptied before.
  <2>1. cleared /\ cleared' BY <1>5 DEF CompactAppend, IInv, IRows, CompactionClears
  <2>2. transcript' = transcript \/ \E row : transcript' = transcript \cup {row}
    BY <1>5 DEF CompactAppend
  <2>3. \A row : IsFiniteSet(transcript \cup {row}) BY FS_AddElement DEF Executed
  <2> QED BY <2>1, <2>2, <2>3 DEF Executed
<1>6. CASE UNCHANGED vars
  BY <1>0, <1>6, NothingRecorded DEF vars
<1> QED
  BY <1>1, <1>2, <1>3, <1>4, <1>5, <1>6 DEF Next

\* However a turn ends, by an answer, a conflict over a sequence number, a failing store, a leak
\* or a cancellation, at most one call it executed is missing from the transcript, unless
\* an operator emptied it.
THEOREM OneLostResult == Spec => []AtMostOneLostResult
<1>1. Init => Executed
  <2> SUFFICES ASSUME Init PROVE Executed OBVIOUS
  <2>1. \A t : Recorded(t) = {} BY DEF Init, Recorded
  <2> QED BY <2>1, FS_EmptySet DEF Init, Executed, Missing
<1>2. IInv /\ Executed => AtMostOneLostResult
  <2> SUFFICES ASSUME IInv, Executed, ~cleared, NEW t \in Turns
               PROVE  LET recorded == Cardinality({e \in RowsOf(t) : e.ran}) IN
                      /\ recorded <= ran[t] /\ ran[t] <= recorded + 1
                      /\ ran[t] = recorded + 1 => pc[t] \in {"result", "err", "conflict"}
    BY DEF AtMostOneLostResult
  <2>1. {e \in RowsOf(t) : e.ran} = Recorded(t) BY DEF RowsOf, Recorded
  <2>2. Missing(t, Cardinality(Recorded(t))) /\ Cardinality(Recorded(t)) \in Nat
    BY RecordedCounts DEF Executed
  <2>3. pc[t] \in Steps /\ ran[t] \in Nat BY DEF IInv, ITyped, TypeOK
  <2> DEFINE recorded == Cardinality(Recorded(t))
  <2>4. /\ recorded <= ran[t] /\ ran[t] <= recorded + 1
        /\ ran[t] = recorded + 1 => pc[t] \in {"result", "err", "conflict"}
    <3> HIDE DEF recorded
    <3> QED BY <2>2, <2>3 DEF Missing, recorded
  <2> QED BY <2>1, <2>4
<1> QED
  BY <1>1, <1>2, Invariance, ExecutedStep, PTL DEF Spec
=============================================================================
