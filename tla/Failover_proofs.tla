--------------------------- MODULE Failover_proofs ---------------------------
(***************************************************************************)
(* Proofs about what stands between a turn and the models and tools, for   *)
(* any number of calls, providers, retries and callers: the breakers'      *)
(* counters keep their bounds, a caller is never shown deltas of two       *)
(* attempts, the cost guard is overrun by no more than the calls under     *)
(* way, the approval level of the tools binds, and no request carries a    *)
(* token that expired elsewhere than in the queue of a lock. At the end,   *)
(* for streams of any length and chunks cut anywhere: the answer of a      *)
(* stream is what the server wrote, and the next request carries its       *)
(* calls and their results.                                                *)
(***************************************************************************)
EXTENDS Failover, CopilotToken, CostGuard, ToolCalls, ProviderStreams, FoldLemmas,
  FiniteSetTheorems, WellFoundedInduction, TLAPS

\* The numbers the proofs need of the constants.
LEMMA Numbers ==
  /\ N \in Nat /\ Recovery \in Nat /\ MaxRetries \in Nat
  /\ Threshold \in Nat /\ Threshold > 0 /\ Needed \in Nat /\ Needed > 0
  BY FailoverConstants DEF FailoverConstants

\* What the breaker operations keep of TypeOK.
BreakerOK ==
  /\ st \in [Providers -> {"closed", "open", "half"}]
  /\ fails \in [Providers -> 0..Threshold] /\ succ \in [Providers -> 0..(Needed - 1)]
  /\ age \in [Providers -> 0..Recovery]
  /\ \A p \in Providers : st[p] = "closed" => fails[p] < Threshold

\* check_allowed keeps the bounds of every breaker.
LEMMA CheckKeepsBounds ==
  ASSUME NEW p \in Providers, BreakerOK, MaybeHalfOpen(p)
  PROVE  BreakerOK'
  BY Numbers DEF BreakerOK, MaybeHalfOpen, Elapsed, breaker

\* record_success keeps the bounds of every breaker: half_open_successes stays
\* below what closes it, and closing clears consecutive_failures.
LEMMA SuccessKeepsBounds ==
  ASSUME NEW p \in Providers, BreakerOK, RecordSuccess(p)
  PROVE  BreakerOK'
<1>1. CASE st[p] = "closed" BY Numbers, <1>1 DEF BreakerOK, RecordSuccess, breaker
<1>2. CASE st[p] = "open" BY Numbers, <1>2 DEF BreakerOK, RecordSuccess, breaker
<1>3. CASE st[p] = "half"
  <2>1. CASE succ[p] + 1 >= Needed BY Numbers, <1>3, <2>1 DEF BreakerOK, RecordSuccess
  <2>2. CASE ~(succ[p] + 1 >= Needed)
    <3>1. succ' = [succ EXCEPT ![p] = succ[p] + 1] /\ UNCHANGED <<st, fails, age>>
      BY <1>3, <2>2 DEF RecordSuccess
    <3>2. succ[p] + 1 \in 0..(Needed - 1) BY Numbers, <2>2 DEF BreakerOK
    <3> QED BY <3>1, <3>2 DEF BreakerOK
  <2> QED BY <2>1, <2>2
<1> QED BY <1>1, <1>2, <1>3 DEF BreakerOK

\* record_failure keeps the bounds: the failure that reaches the threshold opens.
LEMMA FailureKeepsBounds ==
  ASSUME NEW p \in Providers, BreakerOK, RecordFailure(p)
  PROVE  BreakerOK'
  BY Numbers DEF BreakerOK, RecordFailure, Open, breaker

-----------------------------------------------------------------------------

\* The call's part of TypeOK.
CallOK ==
  /\ pc \in [Calls -> {"idle", "next", "call", "sleep", "done"}]
  /\ pos \in [Calls -> 1..(N + 1)] /\ att \in [Calls -> 0..MaxRetries]
  /\ \A c \in Calls : pc[c] \in {"call", "sleep"} => pos[c] <= N
  /\ \A c \in Calls : pc[c] = "sleep" => att[c] < MaxRetries

\* The call's flag.
FlagsOK == stream \in [Calls -> BOOLEAN]

\* The attempts there can be.
Attempts == Providers \X (0..MaxRetries)

\* What a caller was shown comes from attempts.
ShownOK == shown \in [Calls -> SUBSET Attempts]

\* Only a provider's call in flight with deltas for its caller waits for room.
HeldOK ==
  /\ held \in [Calls -> BOOLEAN]
  /\ \A c \in Calls : held[c] => pc[c] = "call" /\ stream[c] /\ shown[c] # {}

\* The type invariant splits into the breakers' part and the calls' parts.
LEMMA TypeParts == TypeOK <=> BreakerOK /\ CallOK /\ FlagsOK /\ ShownOK /\ HeldOK
  BY DEF TypeOK, BreakerOK, CallOK, FlagsOK, ShownOK, HeldOK, Attempts

\* Every step keeps the breakers' part.
LEMMA BreakersInductive == TypeOK /\ [Next]_vars => BreakerOK'
<1> SUFFICES ASSUME BreakerOK, CallOK, FlagsOK, [Next]_vars PROVE BreakerOK'
  BY TypeParts
<1>1. CASE UNCHANGED breaker BY <1>1 DEF breaker, BreakerOK
<1>2. CASE Clock BY Numbers, <1>2 DEF Clock, BreakerOK
<1>3. ASSUME NEW c \in Calls, Consider(c) PROVE BreakerOK'
  <2>1. pos[c] \in Providers BY Numbers, <1>3 DEF Consider, CallOK, Providers
  <2>2. CASE MaybeHalfOpen(pos[c]) BY <2>1, <2>2, CheckKeepsBounds
  <2> QED BY <1>1, <1>3, <2>2 DEF Consider
<1>4. ASSUME NEW c \in Calls, Succeeds(c) PROVE BreakerOK'
  <2>1. pos[c] \in Providers BY Numbers, <1>4 DEF Succeeds, Joined, CallOK, Providers
  <2> QED BY <1>4, <2>1, SuccessKeepsBounds DEF Succeeds
<1>5. ASSUME NEW c \in Calls, NEW transient \in Errors, Fails(c, transient) PROVE BreakerOK'
  <2>1. pos[c] \in Providers BY Numbers, <1>5 DEF Fails, Joined, CallOK, Providers
  <2>2. CASE RecordFailure(pos[c]) BY <2>1, <2>2, FailureKeepsBounds
  <2> QED BY <1>1, <1>5, <2>2 DEF Fails, breaker
<1>6. ASSUME NEW c \in Calls,
             AllTried(c) \/ Retry(c) \/ Begin(c) \/ Again(c) \/ Delta(c) \/ Taken(c) \/ Drop(c)
      PROVE  BreakerOK'
  BY <1>1, <1>6 DEF AllTried, Retry, Begin, Again, Delta, Taken, Drop
<1> QED BY <1>1, <1>2, <1>3, <1>4, <1>5, <1>6 DEF Next, Step, Provider, vars

\* Every step keeps the calls' part: a call in flight is at a provider, a call that
\* waits to retry has a retry left.
LEMMA CallsInductive == TypeOK /\ [Next]_vars => CallOK'
<1> SUFFICES ASSUME CallOK, [Next]_vars PROVE CallOK'
  BY TypeParts
<1>1. CASE UNCHANGED <<pc, pos, att>> BY <1>1 DEF CallOK
<1>2. ASSUME NEW c \in Calls, End(c) PROVE CallOK' BY <1>2 DEF End, CallOK
<1>3. ASSUME NEW c \in Calls, pos[c] <= N, NextProvider(c) PROVE CallOK'
  BY Numbers, <1>3 DEF NextProvider, CallOK
<1>4. ASSUME NEW c \in Calls, Begin(c) PROVE CallOK'
  BY Numbers, <1>4 DEF Begin, CallOK
<1>5. ASSUME NEW c \in Calls, Again(c) PROVE CallOK' BY <1>5 DEF Again, CallOK
<1>6. ASSUME NEW c \in Calls, Consider(c) PROVE CallOK'
  <2>1. CASE NextProvider(c) BY <1>3, <1>6, <2>1 DEF Consider
  <2>2. CASE pc' = [pc EXCEPT ![c] = "call"] /\ UNCHANGED <<pos, att>>
    BY <1>6, <2>2 DEF Consider, CallOK
  <2> QED BY <1>6, <2>1, <2>2 DEF Consider
<1>7. ASSUME NEW c \in Calls, NEW transient \in Errors, Fails(c, transient) PROVE CallOK'
  <2>1. pos[c] <= N /\ pc[c] = "call" BY <1>7 DEF Fails, Joined, CallOK
  <2>2. CASE att[c] < MaxRetries /\ pc' = [pc EXCEPT ![c] = "sleep"] /\ UNCHANGED <<pos, att>>
    BY <2>1, <2>2 DEF CallOK
  <2> QED BY <1>2, <1>3, <1>7, <2>1, <2>2 DEF Fails
<1>8. ASSUME NEW c \in Calls, Retry(c) PROVE CallOK'
  <2>1. att[c] + 1 \in 0..MaxRetries BY Numbers, <1>8 DEF Retry, CallOK
  <2> QED BY <1>8, <2>1 DEF Retry, CallOK
<1>9. ASSUME NEW c \in Calls, AllTried(c) \/ Succeeds(c) \/ Drop(c) PROVE CallOK'
  BY <1>2, <1>9 DEF AllTried, Succeeds, Drop
<1>10. ASSUME NEW c \in Calls, Delta(c) \/ Taken(c) PROVE CallOK' BY <1>1, <1>10 DEF Delta, Taken
<1>11. CASE Clock BY <1>1, <1>11 DEF Clock
<1> QED
  BY <1>1, <1>4, <1>5, <1>6, <1>7, <1>8, <1>9, <1>10, <1>11 DEF Next, Step, Provider, vars

\* Every step keeps the flags' part.
LEMMA FlagsInductive == TypeOK /\ [Next]_vars => FlagsOK'
<1> SUFFICES ASSUME FlagsOK, [Next]_vars PROVE FlagsOK'
  BY TypeParts
<1>1. CASE UNCHANGED stream BY <1>1 DEF FlagsOK
<1>2. ASSUME NEW c \in Calls, Begin(c) PROVE FlagsOK' BY <1>2 DEF Begin, FlagsOK
<1>3. ASSUME NEW c \in Calls, Consider(c) PROVE FlagsOK' BY <1>1, <1>3 DEF Consider
<1>4. ASSUME NEW c \in Calls, NEW transient \in Errors, Fails(c, transient) PROVE FlagsOK'
  BY <1>1, <1>4 DEF Fails
<1>5. ASSUME NEW c \in Calls,
             AllTried(c) \/ Succeeds(c) \/ Retry(c) \/ Again(c) \/ Delta(c) \/ Taken(c) \/ Drop(c)
      PROVE  FlagsOK'
  BY <1>1, <1>5 DEF AllTried, Succeeds, Retry, Again, Delta, Taken, Drop
<1>6. CASE Clock BY <1>1, <1>6 DEF Clock
<1> QED BY <1>1, <1>2, <1>3, <1>4, <1>5, <1>6 DEF Next, Step, Provider, vars

\* Every step keeps what was shown among the attempts.
LEMMA AttemptsInductive == TypeOK /\ [Next]_vars => ShownOK'
<1> SUFFICES ASSUME CallOK, ShownOK, [Next]_vars PROVE ShownOK'
  BY TypeParts
<1>1. CASE UNCHANGED shown BY <1>1 DEF ShownOK
<1>2. ASSUME NEW c \in Calls, Begin(c) PROVE ShownOK' BY <1>2 DEF Begin, ShownOK
<1>3. ASSUME NEW c \in Calls, Delta(c) PROVE ShownOK'
  <2>1. <<pos[c], att[c]>> \in Attempts
    BY Numbers, <1>3 DEF Delta, CallOK, Attempts, Providers
  <2> QED BY <1>3, <2>1 DEF Delta, ShownOK
<1>4. ASSUME NEW c \in Calls, NEW transient \in Errors, Fails(c, transient) PROVE ShownOK'
  BY <1>1, <1>4 DEF Fails
<1>5. ASSUME NEW c \in Calls,
             AllTried(c) \/ Consider(c) \/ Succeeds(c) \/ Retry(c) \/ Again(c) \/ Taken(c) \/ Drop(c)
      PROVE  ShownOK'
  BY <1>1, <1>5 DEF AllTried, Consider, Succeeds, Retry, Again, Taken, Drop
<1>6. CASE Clock BY <1>1, <1>6 DEF Clock
<1> QED BY <1>1, <1>2, <1>3, <1>4, <1>5, <1>6 DEF Next, Step, Provider, vars

\* Every step keeps what waits for room: a call does not go on while its deltas wait.
LEMMA HeldInductive == TypeOK /\ [Next]_vars => HeldOK'
<1> SUFFICES ASSUME CallOK, FlagsOK, ShownOK, HeldOK, [Next]_vars PROVE HeldOK'
  BY TypeParts
<1> USE DEF CallOK, FlagsOK, ShownOK, HeldOK
<1>1. CASE UNCHANGED <<pc, stream, shown, held>> BY <1>1
<1>2. ASSUME NEW c \in Calls, ~held[c], UNCHANGED held,
             \E s : pc' = [pc EXCEPT ![c] = s],
             \A d \in Calls \ {c} : stream'[d] = stream[d] /\ shown'[d] = shown[d]
      PROVE  HeldOK'
  BY <1>2
<1>3. ASSUME NEW c \in Calls, Begin(c) \/ Again(c) \/ AllTried(c) \/ Consider(c) \/ Retry(c) PROVE HeldOK'
  <2>1. ~held[c] /\ UNCHANGED held BY <1>3 DEF Begin, Again, AllTried, Consider, Retry
  <2>2. \E s : pc' = [pc EXCEPT ![c] = s]
    BY <1>3 DEF Begin, Again, AllTried, Consider, Retry, End, NextProvider
  <2>3. \A d \in Calls \ {c} : stream'[d] = stream[d] /\ shown'[d] = shown[d]
    BY <1>3 DEF Begin, Again, AllTried, Consider, Retry
  <2> QED BY <1>2, <2>1, <2>2, <2>3
<1>4. ASSUME NEW c \in Calls, Succeeds(c) \/ \E transient \in Errors : Fails(c, transient) PROVE HeldOK'
  <2>1. ~held[c] /\ UNCHANGED <<held, stream, shown>> BY <1>4 DEF Succeeds, Fails, Joined
  <2>2. \E s : pc' = [pc EXCEPT ![c] = s] BY <1>4 DEF Succeeds, Fails, End, NextProvider
  <2> QED BY <1>2, <2>1, <2>2
<1>5. ASSUME NEW c \in Calls, Delta(c) PROVE HeldOK'
  <2>1. PICK full \in BOOLEAN : held' = [held EXCEPT ![c] = full] BY <1>5 DEF Delta
  <2>2. /\ pc[c] = "call" /\ stream[c] /\ UNCHANGED <<pc, stream>>
        /\ shown' = [shown EXCEPT ![c] = shown[c] \cup {<<pos[c], att[c]>>}]
    BY <1>5 DEF Delta
  <2> QED BY <2>1, <2>2
<1>6. ASSUME NEW c \in Calls, Taken(c) PROVE HeldOK' BY <1>6 DEF Taken
<1>7. ASSUME NEW c \in Calls, Drop(c) PROVE HeldOK' BY <1>7 DEF Drop, End
<1>8. CASE Clock BY <1>1, <1>8 DEF Clock
<1> QED BY <1>1, <1>3, <1>4, <1>5, <1>6, <1>7, <1>8 DEF Next, Step, Provider, vars

\* Every step keeps the type invariant.
LEMMA TypeInductive == TypeOK /\ [Next]_vars => TypeOK'
<1>1. BreakerOK' /\ CallOK' /\ FlagsOK' /\ ShownOK' /\ HeldOK' => TypeOK'
  BY DEF TypeOK, BreakerOK, CallOK, FlagsOK, ShownOK, HeldOK, Attempts
<1> QED BY <1>1, BreakersInductive, CallsInductive, FlagsInductive, AttemptsInductive, HeldInductive

\* Types, and the bounds of the breakers' counters: a closed breaker is below its
\* failure threshold whatever order the results of concurrent calls arrive in.
THEOREM BreakersBounded == Spec => []TypeOK
<1>1. Init => TypeOK
  <2>1. Init => BreakerOK BY Numbers DEF Init, BreakerOK
  <2>2. Init => CallOK BY Numbers DEF Init, CallOK
  <2>3. Init => FlagsOK /\ ShownOK /\ HeldOK BY DEF Init, FlagsOK, ShownOK, HeldOK
  <2> QED BY <2>1, <2>2, <2>3, TypeParts
<1> QED BY <1>1, TypeInductive, PTL DEF Spec

-----------------------------------------------------------------------------

\* Every step keeps OneAttemptShown: it is its own inductive invariant, because an
\* attempt that has shown something can only end the call.
LEMMA ShownInductive == TypeOK /\ OneAttemptShown /\ [Next]_vars => OneAttemptShown'
<1> SUFFICES ASSUME CallOK, ShownOK, OneAttemptShown, [Next]_vars PROVE OneAttemptShown'
  BY TypeParts
<1> USE DEF CallOK, ShownOK, OneAttemptShown
<1>1. CASE UNCHANGED <<pc, pos, att, shown>> BY <1>1
<1>2. ASSUME NEW c \in Calls, End(c), UNCHANGED shown PROVE OneAttemptShown'
  BY <1>2 DEF End
<1>3. ASSUME NEW c \in Calls, Begin(c) \/ Again(c) PROVE OneAttemptShown'
  BY <1>3 DEF Begin, Again
<1>4. ASSUME NEW c \in Calls, shown[c] = {}, UNCHANGED shown,
             \/ NextProvider(c)
             \/ \E s \in {"call", "sleep"} : pc' = [pc EXCEPT ![c] = s] /\ UNCHANGED <<pos, att>>
      PROVE  OneAttemptShown'
  BY <1>4 DEF NextProvider
<1>5. ASSUME NEW c \in Calls, Consider(c) PROVE OneAttemptShown'
  <2>1. shown[c] = {} BY <1>5 DEF Consider
  <2> QED BY <1>4, <1>5, <2>1 DEF Consider
<1>6. ASSUME NEW c \in Calls, Delta(c) PROVE OneAttemptShown'
  <2>1. shown'[c] = {<<pos[c], att[c]>>} BY <1>6 DEF Delta, Streamed
  <2> QED BY <1>6, <2>1 DEF Delta
<1>7. ASSUME NEW c \in Calls, NEW transient \in Errors, Fails(c, transient)
      PROVE  OneAttemptShown'
  <2>1. CASE Streamed(c) BY <1>2, <1>7, <2>1 DEF Fails
  <2>2. CASE ~Streamed(c)
    <3>1. shown[c] = {} BY <1>7, <2>2 DEF Fails, Joined, Streamed
    <3> QED BY <1>4, <1>7, <2>2, <3>1 DEF Fails
  <2> QED BY <2>1, <2>2
<1>8. ASSUME NEW c \in Calls, Retry(c) PROVE OneAttemptShown'
  <2>1. shown[c] = {} BY <1>8 DEF Retry
  <2> QED BY <1>8, <2>1 DEF Retry
<1>9. ASSUME NEW c \in Calls, AllTried(c) \/ Succeeds(c) \/ Drop(c) PROVE OneAttemptShown'
  BY <1>2, <1>9 DEF AllTried, Succeeds, Drop
<1>10. CASE Clock BY <1>1, <1>10 DEF Clock
<1>11. ASSUME NEW c \in Calls, Taken(c) PROVE OneAttemptShown' BY <1>1, <1>11 DEF Taken
<1> QED BY <1>1, <1>3, <1>5, <1>6, <1>7, <1>8, <1>9, <1>10, <1>11 DEF Next, Step, Provider, vars

\* However many calls share the chain and whatever their providers do, what one
\* caller is shown comes from one attempt of one provider.
THEOREM NoMixedAnswer == Spec => []OneAttemptShown
<1>1. Init => OneAttemptShown BY DEF Init, OneAttemptShown
<1> QED BY <1>1, BreakersBounded, ShownInductive, PTL DEF Spec

----------------------------------------------------------------------------
(* The cost guard.                                                          *)

LEMMA LeastNumber ==
  ASSUME NEW S \in SUBSET Nat, S # {}
  PROVE  \E m \in S : \A n \in S : m <= n
<1>1. PICK m \in S : \A n \in S : ~(<<n, m>> \in OpToRel(<, Nat)) BY NatLessThanWellFounded, WFMin
<1>2. \A n \in S : ~(n < m) BY <1>1 DEF OpToRel
<1> QED BY <1>2

\* What is left of the window: all from the first time that is recent.
LEMMA WindowFront ==
  ASSUME NEW w \in Seq(Nat), NEW t \in Nat
  PROVE  \E k \in 1..(Len(w) + 1) :
           /\ actions_this_hour(w, t) \in Seq(Nat) /\ Len(actions_this_hour(w, t)) = Len(w) + 1 - k
           /\ (k <= Len(w) => w[k] + 1 >= t) /\ \A i \in 1..(k - 1) : ~(w[i] + 1 >= t)
<1> DEFINE recent == {i \in 1..Len(w) : w[i] + 1 >= t}
<1>0. Len(w) \in Nat /\ recent \in SUBSET Nat OBVIOUS
<1>1. CASE recent = {}
  <2>1. actions_this_hour(w, t) = SubSeq(w, Len(w) + 1, Len(w)) BY <1>1 DEF actions_this_hour
  <2>2. SubSeq(w, Len(w) + 1, Len(w)) \in Seq(Nat) /\ Len(SubSeq(w, Len(w) + 1, Len(w))) = 0 BY <1>0
  <2>3. \A i \in 1..((Len(w) + 1) - 1) : ~(w[i] + 1 >= t) BY <1>0, <1>1
  <2>4. Len(w) + 1 \in 1..(Len(w) + 1) /\ Len(w) + 1 - (Len(w) + 1) = 0 /\ ~(Len(w) + 1 <= Len(w)) BY <1>0
  <2> QED BY <2>1, <2>2, <2>3, <2>4
<1>2. CASE recent # {}
  <2>1. \E i \in recent : \A j \in recent : i <= j
    <3> HIDE DEF recent
    <3> QED BY <1>0, <1>2, LeastNumber
  <2>2. PICK k : k = CHOOSE i \in recent : \A j \in recent : i <= j OBVIOUS
  <2>3. k \in recent /\ \A j \in recent : k <= j
    <3> HIDE DEF recent
    <3> QED BY <2>1, <2>2
  <2>4. actions_this_hour(w, t) = SubSeq(w, k, Len(w)) BY <1>2, <2>2 DEF actions_this_hour
  <2>5. k \in 1..Len(w) /\ w[k] + 1 >= t BY <2>3
  <2>6. SubSeq(w, k, Len(w)) \in Seq(Nat) /\ Len(SubSeq(w, k, Len(w))) = Len(w) + 1 - k BY <1>0, <2>5
  <2>7. \A i \in 1..(k - 1) : ~(w[i] + 1 >= t)
    <3>1. ASSUME NEW i \in 1..(k - 1) PROVE i \in 1..Len(w) /\ ~(k <= i) BY <1>0, <2>5
    <3> QED BY <2>3, <3>1
  <2>8. k \in 1..(Len(w) + 1) /\ k <= Len(w) BY <1>0, <2>5
  <2>9. actions_this_hour(w, t) \in Seq(Nat) /\ Len(actions_this_hour(w, t)) = Len(w) + 1 - k BY <2>4, <2>6
  <2> HIDE DEF recent
  <2> QED BY <2>5, <2>7, <2>8, <2>9
<1> QED BY <1>1, <1>2

\* The window grows by what is recorded and by nothing else.
LEMMA WindowGrowth ==
  ASSUME NEW w \in Seq(Nat), NEW t \in Nat
  PROVE  /\ Len(actions_this_hour(w, t)) \in Nat /\ Len(actions_this_hour(w, t)) <= Len(w)
         /\ actions_this_hour(w, t) \in Seq(Nat)
         /\ Len(actions_this_hour(w, t + 1)) <= Len(actions_this_hour(w, t))
         /\ \A x \in Nat : Len(actions_this_hour(Append(w, x), t)) <= Len(actions_this_hour(w, t)) + 1
<1>0. Len(w) \in Nat /\ \A i \in 1..Len(w) : w[i] \in Nat OBVIOUS
<1>1. PICK k \in 1..(Len(w) + 1) :
           /\ actions_this_hour(w, t) \in Seq(Nat) /\ Len(actions_this_hour(w, t)) = Len(w) + 1 - k
           /\ (k <= Len(w) => w[k] + 1 >= t) /\ \A i \in 1..(k - 1) : ~(w[i] + 1 >= t)
  BY WindowFront
<1>2. Len(actions_this_hour(w, t + 1)) <= Len(actions_this_hour(w, t))
  <2>0. t + 1 \in Nat OBVIOUS
  <2>1. PICK u \in 1..(Len(w) + 1) :
           /\ actions_this_hour(w, t + 1) \in Seq(Nat) /\ Len(actions_this_hour(w, t + 1)) = Len(w) + 1 - u
           /\ (u <= Len(w) => w[u] + 1 >= t + 1) /\ \A i \in 1..(u - 1) : ~(w[i] + 1 >= t + 1)
    BY <2>0, WindowFront, Zenon
  <2>2. ASSUME u < k PROVE FALSE
    <3>1. u \in 1..(k - 1) /\ u <= Len(w) /\ w[u] \in Nat BY <1>0, <2>2
    <3>2. ~(w[u] + 1 >= t) BY <1>1, <3>1
    <3>3. w[u] + 1 >= t + 1 BY <2>1, <3>1
    <3> QED BY <3>1, <3>2, <3>3
  <2> QED BY <1>0, <1>1, <2>1, <2>2
<1>3. ASSUME NEW x \in Nat PROVE Len(actions_this_hour(Append(w, x), t)) <= Len(actions_this_hour(w, t)) + 1
  <2>1. Append(w, x) \in Seq(Nat) /\ Len(Append(w, x)) = Len(w) + 1 /\ \A i \in 1..Len(w) : Append(w, x)[i] = w[i] OBVIOUS
  <2>a. PICK v : v = Append(w, x) OBVIOUS
  <2>b. v \in Seq(Nat) BY <2>1, <2>a
  <2>c. PICK u \in 1..(Len(v) + 1) :
           /\ actions_this_hour(v, t) \in Seq(Nat) /\ Len(actions_this_hour(v, t)) = Len(v) + 1 - u
           /\ (u <= Len(v) => v[u] + 1 >= t) /\ \A i \in 1..(u - 1) : ~(v[i] + 1 >= t)
    BY <2>b, WindowFront, Zenon
  <2>2. /\ Len(actions_this_hour(Append(w, x), t)) = (Len(w) + 1) + 1 - u /\ u \in 1..((Len(w) + 1) + 1)
        /\ (u <= Len(w) + 1 => Append(w, x)[u] + 1 >= t)
    BY <2>1, <2>a, <2>c
  <2>3. ASSUME u < k PROVE FALSE
    <3>1. u \in 1..(k - 1) /\ u \in 1..Len(w) /\ u <= Len(w) + 1 BY <1>0, <2>3
    <3> QED BY <1>1, <2>1, <2>2, <3>1
  <2> QED BY <1>0, <1>1, <2>2, <2>3
<1> QED BY <1>0, <1>1, <1>2, <1>3

CgPcs == {"idle", "daily", "hourly", "call", "window"}
CgAt(pcs) == {c \in CgCallers : cgPc[c] \in pcs}

\* How the callers at some steps change when one of them goes on.
LEMMA CallerMoves ==
  ASSUME cgPc \in [CgCallers -> CgPcs], NEW pcs, NEW c \in CgCallers, NEW next \in CgPcs, Goes(c, next)
  PROVE  /\ cgPc' \in [CgCallers -> CgPcs] /\ Cardinality(CgAt(pcs)) \in Nat /\ Cardinality(CgAt(pcs)') \in Nat
         /\ Cardinality(CgCallers) \in Nat /\ Cardinality(CgAt(pcs)') <= Cardinality(CgCallers)
         /\ (cgPc[c] \in pcs /\ next \notin pcs => Cardinality(CgAt(pcs)) = Cardinality(CgAt(pcs)') + 1)
         /\ ((cgPc[c] \in pcs <=> next \in pcs) => CgAt(pcs)' = CgAt(pcs))
<1>1. cgPc' \in [CgCallers -> CgPcs] /\ cgPc'[c] = next /\ \A d \in CgCallers : d # c => cgPc'[d] = cgPc[d] BY DEF Goes
<1>2. PICK A, B : A = CgAt(pcs) /\ B = CgAt(pcs)' OBVIOUS
<1>3. A \subseteq CgCallers /\ B \subseteq CgCallers BY <1>2 DEF CgAt
<1>4. IsFiniteSet(CgCallers) /\ IsFiniteSet(A) /\ IsFiniteSet(B) BY <1>3, CgConstants, FS_Subset DEF CgConstants
<1>5. Cardinality(CgCallers) \in Nat /\ Cardinality(A) \in Nat /\ Cardinality(B) \in Nat BY <1>4, FS_CardinalityType
<1>6. Cardinality(B) <= Cardinality(CgCallers) BY <1>3, <1>4, FS_Subset
<1>7. ASSUME cgPc[c] \in pcs, next \notin pcs PROVE Cardinality(A) = Cardinality(B) + 1
  <2>1. A = B \cup {c} /\ c \notin B BY <1>1, <1>2, <1>7 DEF CgAt
  <2> QED BY <1>4, <2>1, FS_AddElement
<1>8. ASSUME cgPc[c] \in pcs <=> next \in pcs PROVE A = B BY <1>1, <1>2, <1>8 DEF CgAt
<1> QED BY <1>1, <1>2, <1>5, <1>6, <1>7, <1>8

\* The inductive invariant: what is spent leaves room for every caller that has passed the check
\* of the day, and the calls of the last hour leave room for those that have passed its check.
CgInv ==
  /\ cgNow \in Nat /\ cgSpent \in Nat /\ cgWindow \in Seq(Nat) /\ cgPc \in [CgCallers -> CgPcs]
  /\ cgSpent + Cardinality(CgAt({"hourly", "call"})) * CgMost <= (CgLimit - 1) + Cardinality(CgCallers) * CgMost
  /\ Len(actions_this_hour(cgWindow, cgNow)) + Cardinality(CgAt({"call", "window"})) <= (CgRate - 1) + Cardinality(CgCallers)

\* What the proof needs of the numbers.
LEMMA Costs ==
  /\ CgMost \in Nat /\ \A x \in CgCosts : x \in Nat /\ x <= CgMost
  /\ CgLimit - 1 \in Nat /\ CgRate - 1 \in Nat /\ CgLimit \in Nat /\ CgRate \in Nat /\ CgCosts # {}
<1>1. CgMost \in CgCosts /\ \A x \in CgCosts : x <= CgMost BY CgConstants DEF CgConstants, CgMost
<1> QED BY <1>1, CgConstants DEF CgConstants

LEMMA Products ==
  \A m, a, b \in Nat : a * m \in Nat /\ (a + 1) * m = a * m + m /\ (a <= b => a * m <= b * m)
<1> SUFFICES ASSUME NEW m \in Nat, NEW a \in Nat, NEW b \in Nat
             PROVE  a * m \in Nat /\ (a + 1) * m = a * m + m /\ (a <= b => a * m <= b * m)
  OBVIOUS
<1>1. a * m \in Nat /\ (a + 1) * m = a * m + m OBVIOUS
<1>2. ASSUME a <= b PROVE a * m <= b * m
  <2>1. b - a \in Nat /\ b = a + (b - a) BY <1>2
  <2>2. b * m = a * m + (b - a) * m BY <2>1
  <2>3. (b - a) * m \in Nat BY <2>1
  <2> QED BY <1>1, <2>2, <2>3
<1> QED BY <1>1, <1>2

\* Every step of a caller keeps the invariant.
LEMMA GuardKept == CgInv /\ [CgNext]_cgVars => CgInv'
<1> SUFFICES ASSUME CgInv, [CgNext]_cgVars PROVE CgInv'
  OBVIOUS
<1>t. cgNow \in Nat /\ cgSpent \in Nat /\ cgWindow \in Seq(Nat) /\ cgPc \in [CgCallers -> CgPcs] BY DEF CgInv
<1>n. CgMost \in Nat /\ CgLimit - 1 \in Nat /\ CgRate - 1 \in Nat BY Costs
<1>w. Len(actions_this_hour(cgWindow, cgNow)) \in Nat /\ actions_this_hour(cgWindow, cgNow) \in Seq(Nat) BY <1>t, WindowGrowth
<1>s. cgSpent + Cardinality(CgAt({"hourly", "call"})) * CgMost <= (CgLimit - 1) + Cardinality(CgCallers) * CgMost BY DEF CgInv
<1>h. Len(actions_this_hour(cgWindow, cgNow)) + Cardinality(CgAt({"call", "window"})) <= (CgRate - 1) + Cardinality(CgCallers) BY DEF CgInv
\* A caller that goes on without passing a check and without recording.
<1>0. ASSUME NEW c \in CgCallers, NEW next \in CgPcs, Goes(c, next), UNCHANGED <<cgNow, cgSpent, cgWindow>>,
             next \in {"hourly", "call"} <=> cgPc[c] \in {"hourly", "call"}, next \in {"call", "window"} <=> cgPc[c] \in {"call", "window"}
      PROVE  CgInv'
  <2>1. cgPc' \in [CgCallers -> CgPcs] /\ CgAt({"hourly", "call"})' = CgAt({"hourly", "call"}) BY <1>0, <1>t, CallerMoves
  <2>2. CgAt({"call", "window"})' = CgAt({"call", "window"}) BY <1>0, <1>t, CallerMoves
  <2> QED BY <1>0, <1>h, <1>s, <1>t, <2>1, <2>2 DEF CgInv
<1>1. CASE UNCHANGED cgVars BY <1>1 DEF cgVars, cgGuard, CgInv, CgAt
<1>2. CASE Hour
  <2>1. cgNow' = cgNow + 1 /\ UNCHANGED <<cgSpent, cgWindow, cgPc>> BY <1>2 DEF Hour, cgGuard
  <2>2. Len(actions_this_hour(cgWindow, cgNow + 1)) <= Len(actions_this_hour(cgWindow, cgNow)) BY <1>t, WindowGrowth
  <2>3. Len(actions_this_hour(cgWindow, cgNow + 1)) \in Nat /\ cgNow + 1 \in Nat BY <1>t, WindowGrowth
  <2>4. Cardinality(CgAt({"call", "window"})) \in Nat /\ Cardinality(CgCallers) \in Nat
    <3>1. IsFiniteSet(CgCallers) /\ CgAt({"call", "window"}) \subseteq CgCallers BY CgConstants DEF CgConstants, CgAt
    <3> QED BY <3>1, FS_Subset, FS_CardinalityType
  <2>5. Len(actions_this_hour(cgWindow, cgNow + 1)) + Cardinality(CgAt({"call", "window"})) <= (CgRate - 1) + Cardinality(CgCallers)
    BY <1>h, <1>n, <1>w, <2>2, <2>3, <2>4
  <2>6. CgAt({"call", "window"})' = CgAt({"call", "window"}) /\ CgAt({"hourly", "call"})' = CgAt({"hourly", "call"}) BY <2>1 DEF CgAt
  <2> QED BY <1>s, <1>t, <2>1, <2>3, <2>5, <2>6 DEF CgInv
<1>3. ASSUME NEW c \in CgCallers, check_allowed(c) PROVE CgInv'
  <2>1. PICK next \in {"idle", "daily"} : Goes(c, next) BY <1>3 DEF check_allowed
  <2>2. cgPc[c] = "idle" /\ UNCHANGED <<cgNow, cgSpent, cgWindow>> BY <1>3 DEF check_allowed, cgGuard
  <2> QED BY <1>0, <2>1, <2>2 DEF CgPcs
<1>4. ASSUME NEW c \in CgCallers, check_daily(c) PROVE CgInv'
  <2>1. cgPc[c] = "daily" /\ UNCHANGED <<cgNow, cgSpent, cgWindow>> BY <1>4 DEF check_daily
  <2>2. CASE Goes(c, "idle") BY <1>0, <2>1, <2>2 DEF CgPcs
  <2>3. CASE Goes(c, "hourly") /\ ~(cgSpent >= CgLimit)
    <3>1. /\ cgPc' \in [CgCallers -> CgPcs] /\ Cardinality(CgAt({"hourly", "call"})') \in Nat /\ Cardinality(CgCallers) \in Nat
          /\ Cardinality(CgAt({"hourly", "call"})') <= Cardinality(CgCallers)
      BY <1>t, <2>3, CallerMoves DEF CgPcs
    <3>2. CgAt({"call", "window"})' = CgAt({"call", "window"}) BY <1>t, <2>1, <2>3, CallerMoves DEF CgPcs
    <3>3. PICK k, n : k = Cardinality(CgAt({"hourly", "call"})') /\ n = Cardinality(CgCallers) OBVIOUS
    <3>4. k * CgMost \in Nat /\ n * CgMost \in Nat /\ k * CgMost <= n * CgMost BY <1>n, <3>1, <3>3, Products
    <3>5. cgSpent <= CgLimit - 1 BY <1>t, <2>3, Costs
    <3>6. cgSpent + k * CgMost <= (CgLimit - 1) + n * CgMost BY <1>n, <1>t, <3>4, <3>5
    <3> QED BY <1>h, <1>t, <2>1, <3>1, <3>2, <3>3, <3>6 DEF CgInv
  <2> QED BY <1>4, <2>2, <2>3 DEF check_daily
<1>5. ASSUME NEW c \in CgCallers, check_hourly(c) PROVE CgInv'
  <2>1. cgPc[c] = "hourly" /\ UNCHANGED <<cgNow, cgSpent>> /\ cgWindow' = actions_this_hour(cgWindow, cgNow) BY <1>5 DEF check_hourly
  <2>2. PICK next \in {"idle", "call"} : Goes(c, next) /\ (next = "call" => ~(Len(cgWindow') >= CgRate)) BY <1>5 DEF check_hourly
  <2>3. /\ cgWindow' \in Seq(Nat) /\ Len(actions_this_hour(cgWindow', cgNow)) \in Nat
        /\ Len(actions_this_hour(cgWindow', cgNow)) <= Len(cgWindow') /\ Len(cgWindow') \in Nat BY <1>t, <1>w, <2>1, WindowGrowth
  <2>4. /\ cgPc' \in [CgCallers -> CgPcs] /\ Cardinality(CgCallers) \in Nat
        /\ Cardinality(CgAt({"hourly", "call"})') \in Nat /\ Cardinality(CgAt({"hourly", "call"})) \in Nat
        /\ (next = "idle" => Cardinality(CgAt({"hourly", "call"})) = Cardinality(CgAt({"hourly", "call"})') + 1)
        /\ (next = "call" => CgAt({"hourly", "call"})' = CgAt({"hourly", "call"}))
    BY <1>t, <2>1, <2>2, CallerMoves DEF CgPcs
  <2>5. /\ Cardinality(CgAt({"call", "window"})) \in Nat /\ Cardinality(CgAt({"call", "window"})') \in Nat
        /\ Cardinality(CgAt({"call", "window"})') <= Cardinality(CgCallers)
        /\ (next = "idle" => CgAt({"call", "window"})' = CgAt({"call", "window"}))
    BY <1>t, <2>1, <2>2, CallerMoves DEF CgPcs
  <2>6. cgSpent + Cardinality(CgAt({"hourly", "call"})') * CgMost <= (CgLimit - 1) + Cardinality(CgCallers) * CgMost
    <3>1. CASE next = "call" BY <1>s, <2>4, <3>1
    <3>2. CASE next = "idle"
      <4>1. PICK k, j, n : k = Cardinality(CgAt({"hourly", "call"})') /\ j = Cardinality(CgAt({"hourly", "call"})) /\ n = Cardinality(CgCallers) OBVIOUS
      <4>2. k \in Nat /\ j = k + 1 /\ n \in Nat BY <2>4, <3>2, <4>1
      <4>3. k * CgMost \in Nat /\ j * CgMost = k * CgMost + CgMost /\ n * CgMost \in Nat BY <1>n, <4>2, Products
      <4>4. cgSpent + j * CgMost <= (CgLimit - 1) + n * CgMost BY <1>s, <4>1
      <4>5. cgSpent + k * CgMost <= (CgLimit - 1) + n * CgMost BY <1>n, <1>t, <4>3, <4>4
      <4> QED BY <4>1, <4>5
    <3> QED BY <2>2, <3>1, <3>2
  <2>7. Len(actions_this_hour(cgWindow', cgNow)) + Cardinality(CgAt({"call", "window"})') <= (CgRate - 1) + Cardinality(CgCallers)
    <3>1. CASE next = "idle"
      <4>1. Len(actions_this_hour(cgWindow', cgNow)) <= Len(actions_this_hour(cgWindow, cgNow)) BY <2>1, <2>3
      <4> QED BY <1>h, <1>n, <1>w, <2>3, <2>4, <2>5, <3>1, <4>1
    <3>2. CASE next = "call"
      <4>1. Len(cgWindow') <= CgRate - 1 BY <2>2, <2>3, <3>2, Costs
      <4> QED BY <1>n, <2>3, <2>4, <2>5, <4>1
    <3> QED BY <2>2, <3>1, <3>2
  <2> QED BY <1>t, <2>1, <2>3, <2>4, <2>6, <2>7 DEF CgInv
<1>6. ASSUME NEW c \in CgCallers, record_llm_call(c) PROVE CgInv'
  <2>1. cgPc[c] = "call" /\ Goes(c, "window") /\ UNCHANGED <<cgNow, cgWindow>> BY <1>6 DEF record_llm_call
  <2>2. PICK cost \in Nat : cost <= CgMost /\ cgSpent' \in {cost, cost + cgSpent}
    <3>1. \A model : \A cost \in model_cost(model) : cost \in Nat /\ cost <= CgMost BY Costs DEF model_cost
    <3>2. PICK cost \in UNION {model_cost(model) : model \in {"local", "listed", "unlisted"}} :
            cgSpent' = cost + (IF Today # cgDate THEN 0 ELSE cgSpent) BY <1>6 DEF record_llm_call
    <3>3. cost \in Nat /\ cost <= CgMost BY <3>1, <3>2
    <3>4. cgSpent' \in {cost, cost + cgSpent} BY <3>2, <3>3
    <3> QED BY <3>3, <3>4
  <2>3. cgSpent' \in Nat /\ cgSpent' <= cgSpent + CgMost BY <1>n, <1>t, <2>2
  <2>4. /\ cgPc' \in [CgCallers -> CgPcs] /\ Cardinality(CgCallers) \in Nat
        /\ Cardinality(CgAt({"hourly", "call"})') \in Nat
        /\ Cardinality(CgAt({"hourly", "call"})) = Cardinality(CgAt({"hourly", "call"})') + 1
    BY <1>t, <2>1, CallerMoves DEF CgPcs
  <2>5. CgAt({"call", "window"})' = CgAt({"call", "window"}) BY <1>t, <2>1, CallerMoves DEF CgPcs
  <2>6. cgSpent' + Cardinality(CgAt({"hourly", "call"})') * CgMost <= (CgLimit - 1) + Cardinality(CgCallers) * CgMost
    <3>1. PICK k, j, n : k = Cardinality(CgAt({"hourly", "call"})') /\ j = Cardinality(CgAt({"hourly", "call"})) /\ n = Cardinality(CgCallers) OBVIOUS
    <3>2. k \in Nat /\ j = k + 1 /\ n \in Nat BY <2>4, <3>1
    <3>3. k * CgMost \in Nat /\ j * CgMost = k * CgMost + CgMost /\ n * CgMost \in Nat BY <1>n, <3>2, Products
    <3>4. cgSpent + j * CgMost <= (CgLimit - 1) + n * CgMost BY <1>s, <3>1
    <3>5. cgSpent' + k * CgMost <= (CgLimit - 1) + n * CgMost BY <1>n, <1>t, <2>3, <3>3, <3>4
    <3> QED BY <3>1, <3>5
  <2> QED BY <1>h, <1>t, <2>1, <2>3, <2>4, <2>5, <2>6 DEF CgInv
<1>7. ASSUME NEW c \in CgCallers, record_action(c) PROVE CgInv'
  <2>1. cgPc[c] = "window" /\ Goes(c, "idle") /\ UNCHANGED <<cgNow, cgSpent>> /\ cgWindow' = Append(cgWindow, cgNow) BY <1>7 DEF record_action
  <2>2. /\ cgWindow' \in Seq(Nat) /\ Len(actions_this_hour(cgWindow', cgNow)) <= Len(actions_this_hour(cgWindow, cgNow)) + 1
    BY <1>t, <2>1, WindowGrowth
  <2>3. Len(actions_this_hour(cgWindow', cgNow)) \in Nat BY <1>t, <2>2, WindowGrowth
  <2>4. /\ cgPc' \in [CgCallers -> CgPcs] /\ Cardinality(CgCallers) \in Nat /\ Cardinality(CgAt({"call", "window"})') \in Nat
        /\ Cardinality(CgAt({"call", "window"})) = Cardinality(CgAt({"call", "window"})') + 1
    BY <1>t, <2>1, CallerMoves DEF CgPcs
  <2>5. CgAt({"hourly", "call"})' = CgAt({"hourly", "call"}) BY <1>t, <2>1, CallerMoves DEF CgPcs
  <2>6. Len(actions_this_hour(cgWindow', cgNow)) + Cardinality(CgAt({"call", "window"})') <= (CgRate - 1) + Cardinality(CgCallers)
    BY <1>h, <1>n, <1>w, <2>2, <2>3, <2>4
  <2> QED BY <1>s, <1>t, <2>1, <2>2, <2>4, <2>5, <2>6 DEF CgInv
<1>8. ASSUME NEW c \in CgCallers, Call_fails(c) PROVE CgInv'
  <2>1. cgPc[c] = "call" /\ Goes(c, "idle") /\ UNCHANGED <<cgNow, cgSpent, cgWindow>> BY <1>8 DEF Call_fails, cgGuard
  <2>2. /\ cgPc' \in [CgCallers -> CgPcs] /\ Cardinality(CgCallers) \in Nat
        /\ Cardinality(CgAt({"hourly", "call"})') \in Nat
        /\ Cardinality(CgAt({"hourly", "call"})) = Cardinality(CgAt({"hourly", "call"})') + 1
    BY <1>t, <2>1, CallerMoves DEF CgPcs
  <2>3. /\ Cardinality(CgAt({"call", "window"})') \in Nat
        /\ Cardinality(CgAt({"call", "window"})) = Cardinality(CgAt({"call", "window"})') + 1
    BY <1>t, <2>1, CallerMoves DEF CgPcs
  <2>4. cgSpent + Cardinality(CgAt({"hourly", "call"})') * CgMost <= (CgLimit - 1) + Cardinality(CgCallers) * CgMost
    <3>1. PICK k, j, n : k = Cardinality(CgAt({"hourly", "call"})') /\ j = Cardinality(CgAt({"hourly", "call"})) /\ n = Cardinality(CgCallers) OBVIOUS
    <3>2. k \in Nat /\ j = k + 1 /\ n \in Nat BY <2>2, <3>1
    <3>3. k * CgMost \in Nat /\ j * CgMost = k * CgMost + CgMost /\ n * CgMost \in Nat BY <1>n, <3>2, Products
    <3>4. cgSpent + j * CgMost <= (CgLimit - 1) + n * CgMost BY <1>s, <3>1
    <3>5. cgSpent + k * CgMost <= (CgLimit - 1) + n * CgMost BY <1>n, <1>t, <3>3, <3>4
    <3> QED BY <3>1, <3>5
  <2>5. Len(actions_this_hour(cgWindow, cgNow)) + Cardinality(CgAt({"call", "window"})') <= (CgRate - 1) + Cardinality(CgCallers)
    BY <1>h, <1>n, <1>w, <2>2, <2>3
  <2> QED BY <1>t, <2>1, <2>2, <2>4, <2>5 DEF CgInv
<1> QED BY <1>1, <1>2, <1>3, <1>4, <1>5, <1>6, <1>7, <1>8 DEF CgNext

\* The limits of the day and of the hour are exceeded by no more than the calls under way, for
\* any number of callers, any limits and any costs: check_allowed and the records of cost_guard.rs
\* take their locks one at a time and interleave.
THEOREM OverrunIsBounded == CgSpec => []OverrunBounded
<1>1. CgInit => CgInv
  <2> SUFFICES ASSUME CgInit PROVE CgInv OBVIOUS
  <2>1. cgNow = 0 /\ cgSpent = 0 /\ cgWindow = <<>> /\ cgPc = [c \in CgCallers |-> "idle"] BY DEF CgInit
  <2>2. CgAt({"hourly", "call"}) = {} /\ CgAt({"call", "window"}) = {} BY <2>1 DEF CgAt
  <2>3. Cardinality({}) = 0 /\ Cardinality(CgCallers) \in Nat BY CgConstants, FS_EmptySet, FS_CardinalityType DEF CgConstants
  <2>4. cgWindow \in Seq(Nat) /\ Len(cgWindow) = 0 BY <2>1
  <2>a. cgNow \in Nat BY <2>1
  <2>b. Len(actions_this_hour(cgWindow, cgNow)) \in Nat /\ Len(actions_this_hour(cgWindow, cgNow)) <= Len(cgWindow)
    BY <2>4, <2>a, WindowGrowth
  <2>5. Len(actions_this_hour(cgWindow, cgNow)) = 0 BY <2>4, <2>b
  <2>6. 0 * CgMost = 0 /\ Cardinality(CgCallers) * CgMost \in Nat BY <2>3, Costs, Products
  <2>7. 0 + 0 * CgMost <= (CgLimit - 1) + Cardinality(CgCallers) * CgMost BY <2>6, Costs
  <2>8. 0 + 0 <= (CgRate - 1) + Cardinality(CgCallers) BY <2>3, Costs
  <2> QED BY <2>1, <2>2, <2>3, <2>4, <2>5, <2>7, <2>8 DEF CgInv, CgPcs
<1>2. CgInv => OverrunBounded
  <2> SUFFICES ASSUME CgInv PROVE OverrunBounded OBVIOUS
  <2>1. IsFiniteSet(CgCallers) /\ CgAt({"hourly", "call"}) \subseteq CgCallers /\ CgAt({"call", "window"}) \subseteq CgCallers
    BY CgConstants DEF CgConstants, CgAt
  <2>2. PICK k, j, n : k = Cardinality(CgAt({"hourly", "call"})) /\ j = Cardinality(CgAt({"call", "window"})) /\ n = Cardinality(CgCallers) OBVIOUS
  <2>3. k \in Nat /\ j \in Nat /\ n \in Nat BY <2>1, <2>2, FS_Subset, FS_CardinalityType
  <2>4. k * CgMost \in Nat /\ n * CgMost \in Nat /\ CgLimit - 1 \in Nat /\ CgRate - 1 \in Nat BY <2>3, Costs, Products
  <2>5. Len(actions_this_hour(cgWindow, cgNow)) \in Nat /\ cgSpent \in Nat BY WindowGrowth DEF CgInv
  <2>6. cgSpent + k * CgMost <= (CgLimit - 1) + n * CgMost /\ Len(actions_this_hour(cgWindow, cgNow)) + j <= (CgRate - 1) + n
    BY <2>2 DEF CgInv
  <2>7. cgSpent <= (CgLimit - 1) + n * CgMost BY <2>4, <2>5, <2>6
  <2>8. Len(actions_this_hour(cgWindow, cgNow)) <= (CgRate - 1) + n BY <2>3, <2>4, <2>5, <2>6
  <2> QED BY <2>2, <2>7, <2>8 DEF OverrunBounded
<1> QED BY <1>1, <1>2, GuardKept, PTL DEF CgSpec

----------------------------------------------------------------------------
(* The approval level of the tools.                                         *)

\* The tools that only read the world change nothing of it but the canvas and the tabs.
LEMMA ReadingTools ==
  ASSUME NEW tool \in DOMAIN with_policy, with_policy[tool].risk = "read"
  PROVE  with_policy[tool].changes \in {"nothing", "canvas", "tabs"} /\ tool \notin {"file_write", "file_edit", "bash"}
<1> DEFINE reads == {"session_inspect", "canvas_get", "browser_extract", "browser_snapshot", "browser_wait",
                     "browser_sessions", "browser_screenshot", "browser_aria_snapshot", "web_fetch",
                     "web_search", "sessions_list", "sessions_history", "file_read", "cron_list", "config_get",
                     "agents_list", "memory_get", "memory_search", "pdf_read", "image_describe", "audio_transcribe"}
           draws == {"canvas_set", "canvas_append", "canvas_clear"}
           browses == {"browser_open", "browser_close"}
           acts == {"browser_click", "browser_type", "browser_press", "bash", "file_write", "file_edit", "message_send",
                    "message_react", "cron_add", "cron_remove"}
<1>1. DOMAIN with_policy = reads \cup draws \cup browses \cup acts BY DEF with_policy
<1>2. ASSUME tool \in acts PROVE with_policy[tool].risk # "read"
  BY <1>2 DEF with_policy, Tool, browser_click, browser_type, browser_press, bash, file_write, file_edit, message_send,
     message_react, cron_add, cron_remove
<1>3. ASSUME tool \in draws PROVE with_policy[tool].changes = "canvas"
  BY <1>3 DEF with_policy, Tool, canvas_set, canvas_append, canvas_clear
<1>4. ASSUME tool \in browses PROVE with_policy[tool].changes = "tabs"
  BY <1>4 DEF with_policy, Tool, browser_open, browser_close
<1>5. ASSUME tool \in reads PROVE with_policy[tool].changes = "nothing"
  BY <1>5 DEF with_policy, Tool, session_inspect, canvas_get, browser_extract, browser_snapshot, browser_wait,
     browser_sessions, browser_screenshot, browser_aria_snapshot, web_fetch, web_search, sessions_list,
     sessions_history, file_read, cron_list, config_get, agents_list, memory_get, memory_search, pdf_read, image_describe,
     audio_transcribe
<1> QED BY <1>1, <1>2, <1>3, <1>4, <1>5

\* What the tools with steps of their own change.
LEMMA OwnParts ==
  /\ {"file_write", "file_edit", "bash"} \subseteq DOMAIN with_policy
  /\ with_policy["file_write"].changes = "file" /\ with_policy["file_edit"].changes = "file"
  /\ with_policy["bash"].changes = "processes"
BY DEF with_policy, Tool, file_write, file_edit, bash

\* The inductive invariant: under the default level every call under way is of a tool that reads
\* or is approved by name, only an edit writes later than it began, and a command that runs was let through.
TlInv ==
  /\ tlOut \in [Outside -> {0, 1}] /\ DOMAIN tlCalls = TlTurns
  /\ tlPolicy.level = "read" =>
       /\ tlRunning # {} => "bash" \in tlPolicy.approved
       /\ \A t \in TlTurns : tlCalls[t].step # "idle" =>
            /\ tlCalls[t].tool \in DOMAIN with_policy
            /\ with_policy[tlCalls[t].tool].risk = "read" \/ tlCalls[t].tool \in tlPolicy.approved
            /\ tlCalls[t].step = "write" => tlCalls[t].tool = "file_edit"
            /\ tlCalls[t].step = "wait" => tlCalls[t].tool = "bash"

\* A part that may change under the default level, and that only such parts do.
MayChange(p) ==
  p \in {"canvas", "tabs"}
    \/ \E tool \in tlPolicy.approved \cap DOMAIN with_policy : with_policy[tool].changes = p
TlBound == tlPolicy.level = "read" => \A p \in Changed : MayChange(p)

\* Every step keeps the invariant, and under the default level changes no other part.
LEMMA ToolsKept == TlInv /\ [TlNext]_tlVars => TlInv' /\ TlBound
<1> SUFFICES ASSUME TlInv, [TlNext]_tlVars PROVE TlInv' /\ TlBound
  OBVIOUS
<1>t. tlOut \in [Outside -> {0, 1}] /\ DOMAIN tlCalls = TlTurns BY DEF TlInv
<1>p. ASSUME tlPolicy.level = "read", NEW t \in TlTurns, tlCalls[t].step # "idle"
      PROVE  /\ tlCalls[t].tool \in DOMAIN with_policy
             /\ with_policy[tlCalls[t].tool].changes \in {"nothing", "canvas", "tabs"} \/ tlCalls[t].tool \in tlPolicy.approved
             /\ tlCalls[t].tool \in {"file_write", "file_edit", "bash"} => tlCalls[t].tool \in tlPolicy.approved
             /\ tlCalls[t].step = "write" => tlCalls[t].tool = "file_edit"
             /\ tlCalls[t].step = "wait" => tlCalls[t].tool = "bash"
  <2>1. /\ tlCalls[t].tool \in DOMAIN with_policy
        /\ with_policy[tlCalls[t].tool].risk = "read" \/ tlCalls[t].tool \in tlPolicy.approved
        /\ tlCalls[t].step = "write" => tlCalls[t].tool = "file_edit"
        /\ tlCalls[t].step = "wait" => tlCalls[t].tool = "bash" BY <1>p DEF TlInv
  <2> QED BY <2>1, ReadingTools
\* What changes is what the step does not leave alone.
<1>f. ASSUME UNCHANGED <<tlOut, tlRunning>>, tlPolicy.level = "read" => MayChange("file") PROVE TlBound
  BY <1>f DEF TlBound, Changed
<1>c. ASSUME UNCHANGED <<tlOut, tlFile>>, tlPolicy.level = "read" => MayChange("processes") PROVE TlBound
  BY <1>c DEF TlBound, Changed
<1>u. ASSUME UNCHANGED <<tlOut, tlFile, tlRunning>> PROVE TlBound
  BY <1>u DEF TlBound, Changed
\* A call that ends, whatever the tool has changed of the world.
<1>r. ASSUME NEW t \in TlTurns, TlReturn(t), tlOut' \in [Outside -> {0, 1}], UNCHANGED <<tlPolicy, tlRunning>>
      PROVE  TlInv'
  <2>1. DOMAIN tlCalls' = TlTurns /\ \A u \in TlTurns : tlCalls'[u] = IF u = t THEN TlIdle ELSE tlCalls[u]
    BY <1>r, <1>t DEF TlReturn
  <2>2. TlIdle.step = "idle" BY DEF TlIdle
  <2> QED BY <1>r, <2>1, <2>2 DEF TlInv
<1>1. CASE UNCHANGED tlVars BY <1>1, <1>u DEF tlVars, TlInv
<1>2. ASSUME NEW t \in TlTurns, invoke_allowed(t) PROVE TlInv' /\ TlBound
  <2>1. UNCHANGED <<tlPolicy, tlFile, tlRunning, tlOut>> BY <1>2 DEF invoke_allowed, TlOthers
  <2>2. TlBound BY <1>u, <2>1
  <2>3. CASE UNCHANGED tlCalls BY <2>1, <2>2, <2>3 DEF TlInv
  <2>4. ASSUME NEW tool \in TlMenu[t], NEW arg, Permitted(tool, arg),
               tlCalls' = [tlCalls EXCEPT ![t] = [TlIdle EXCEPT !.tool = tool, !.step = "run"]]
        PROVE  TlInv'
    <3>1. PICK call : call = [TlIdle EXCEPT !.tool = tool, !.step = "run"] OBVIOUS
    <3>2. call.tool = tool /\ call.step = "run" BY <3>1 DEF TlIdle
    <3>3. DOMAIN tlCalls' = TlTurns /\ \A u \in TlTurns : tlCalls'[u] = IF u = t THEN call ELSE tlCalls[u] BY <1>t, <2>4, <3>1
    <3>4. tool \in DOMAIN with_policy /\ is_approved(tool) BY <2>4 DEF Permitted
    <3>5. tlPolicy.level = "read" => with_policy[tool].risk = "read" \/ tool \in tlPolicy.approved
      <4>1. with_policy[tool].risk \in {"read", "mutating", "destructive"}
        BY <3>4 DEF with_policy, Tool, session_inspect, canvas_get, canvas_set, canvas_append, canvas_clear, browser_open,
           browser_extract, browser_snapshot, browser_click, browser_type, browser_wait, browser_press, browser_sessions,
           browser_close, browser_screenshot, browser_aria_snapshot, bash, web_fetch, web_search, sessions_list,
           sessions_history, file_read, file_write, file_edit, message_send, message_react, cron_list, cron_add,
           cron_remove, config_get, agents_list, memory_get, memory_search, pdf_read, image_describe, audio_transcribe
      <4>2. Rank["read"] = 1 /\ Rank["mutating"] = 2 /\ Rank["destructive"] = 3 BY DEF Rank
      <4> QED BY <3>4, <4>1, <4>2 DEF is_approved, approves
    <3> QED BY <2>1, <3>2, <3>3, <3>4, <3>5 DEF TlInv
  <2>5. UNCHANGED tlCalls \/ \E tool \in TlMenu[t] : \E arg : Permitted(tool, arg)
            /\ tlCalls' = [tlCalls EXCEPT ![t] = [TlIdle EXCEPT !.tool = tool, !.step = "run"]]
    BY <1>2, Zenon DEF invoke_allowed
  <2>6. TlInv' BY <2>3, <2>4, <2>5, Zenon
  <2> QED BY <2>2, <2>6
<1>3. ASSUME NEW t \in TlTurns, Look(t) PROVE TlInv' /\ TlBound
  <2>1. TlReturn(t) /\ UNCHANGED <<tlPolicy, tlFile, tlRunning, tlOut>> BY <1>3 DEF Look, TlOthers
  <2> QED BY <1>r, <1>t, <1>u, <2>1
<1>4. ASSUME NEW t \in TlTurns, WriteFile(t) PROVE TlInv' /\ TlBound
  <2>1. TlReturn(t) /\ UNCHANGED <<tlPolicy, tlRunning, tlOut>> /\ tlCalls[t].step = "run" /\ tlCalls[t].tool = "file_write"
    BY <1>4 DEF WriteFile, TlOthers
  <2>2. tlPolicy.level = "read" => MayChange("file") BY <1>p, <2>1, OwnParts DEF MayChange
  <2> QED BY <1>r, <1>f, <1>t, <2>1, <2>2
<1>5. ASSUME NEW t \in TlTurns, ReadForEdit(t) PROVE TlInv' /\ TlBound
  <2>1. tlCalls[t].step = "run" /\ tlCalls[t].tool = "file_edit" /\ UNCHANGED <<tlPolicy, tlFile, tlRunning, tlOut>>
    BY <1>5 DEF ReadForEdit, TlOthers
  <2>2. TlBound BY <1>u, <2>1
  <2>3. CASE TlReturn(t) BY <1>r, <1>t, <2>1, <2>2, <2>3
  <2>4. CASE tlCalls' = [tlCalls EXCEPT ![t].step = "write", ![t].seen = tlFile]
    <3>1. PICK call : call = [[tlCalls[t] EXCEPT !.step = "write"] EXCEPT !.seen = tlFile] OBVIOUS
    <3>2. DOMAIN tlCalls' = TlTurns /\ \A u \in TlTurns : tlCalls'[u] = IF u = t THEN call ELSE tlCalls[u] BY <1>t, <2>4, <3>1
    <3>3. call.tool = tlCalls[t].tool /\ (call.step = "write" \/ call.step = tlCalls[t].step) BY <3>1
    <3> QED BY <2>1, <2>2, <3>2, <3>3 DEF TlInv
  <2> QED BY <1>5, <2>3, <2>4 DEF ReadForEdit
<1>6. ASSUME NEW t \in TlTurns, WriteEdited(t) PROVE TlInv' /\ TlBound
  <2>1. TlReturn(t) /\ UNCHANGED <<tlPolicy, tlRunning, tlOut>> /\ tlCalls[t].step = "write" BY <1>6 DEF WriteEdited, TlOthers
  <2>2. tlPolicy.level = "read" => MayChange("file") BY <1>p, <2>1, OwnParts DEF MayChange
  <2> QED BY <1>r, <1>f, <1>t, <2>1, <2>2
<1>7. ASSUME NEW t \in TlTurns, execute_command(t) PROVE TlInv' /\ TlBound
  <2>1. /\ UNCHANGED <<tlPolicy, tlFile, tlOut>>
        /\ tlCalls[t].step = "wait" \/ (tlCalls[t].step = "run" /\ tlCalls[t].tool = "bash")
    BY <1>7 DEF execute_command, TlOthers
  <2>2. tlPolicy.level = "read" => tlCalls[t].tool = "bash" /\ "bash" \in tlPolicy.approved BY <1>p, <2>1
  <2>3. TlBound BY <1>c, <2>1, <2>2, OwnParts DEF MayChange
  <2>4. CASE TlReturn(t) /\ UNCHANGED tlRunning BY <1>r, <1>t, <2>1, <2>3, <2>4
  <2>5. CASE tlRunning' = tlRunning \cup {t} /\ TlStep(t, "wait")
    <3>1. PICK call : call = [tlCalls[t] EXCEPT !.step = "wait"] OBVIOUS
    <3>2. DOMAIN tlCalls' = TlTurns /\ \A u \in TlTurns : tlCalls'[u] = IF u = t THEN call ELSE tlCalls[u]
      BY <1>t, <2>5, <3>1 DEF TlStep
    <3>3. call.tool = tlCalls[t].tool /\ (call.step = "wait" \/ call.step = tlCalls[t].step) BY <3>1
    <3> QED BY <2>1, <2>2, <2>3, <3>2, <3>3 DEF TlInv
  <2> QED BY <1>7, <2>4, <2>5 DEF execute_command
<1>8. ASSUME NEW t \in TlTurns, CommandEnds(t) PROVE TlInv' /\ TlBound
  <2>1. t \in tlRunning /\ UNCHANGED <<tlPolicy, tlCalls, tlFile, tlOut>> BY <1>8 DEF CommandEnds, TlOthers
  <2>2. tlPolicy.level = "read" => "bash" \in tlPolicy.approved BY <2>1 DEF TlInv
  <2>3. TlBound BY <1>c, <2>1, <2>2, OwnParts DEF MayChange
  <2> QED BY <2>1, <2>2, <2>3 DEF TlInv
<1>9. ASSUME NEW t \in TlTurns, ChangeService(t) PROVE TlInv' /\ TlBound
  <2>1. PICK part : /\ part = with_policy[tlCalls[t].tool].changes /\ part \in Outside
                    /\ (UNCHANGED tlOut \/ tlOut' = [tlOut EXCEPT ![part] = 1 - @])
    BY <1>9 DEF ChangeService
  <2>2. tlCalls[t].step = "run" /\ TlReturn(t) /\ UNCHANGED <<tlPolicy, tlFile, tlRunning>> BY <1>9 DEF ChangeService, TlOthers
  <2>3. tlPolicy.level = "read" => MayChange(part) BY <1>p, <2>1, <2>2 DEF Outside, MayChange
  <2>4. tlOut' \in [Outside -> {0, 1}] /\ \A p \in Outside : p # part => tlOut'[p] = tlOut[p] BY <1>t, <2>1
  <2>5. TlBound BY <2>2, <2>3, <2>4 DEF TlBound, Changed
  <2> QED BY <1>r, <2>2, <2>4, <2>5
<1> QED BY <1>1, <1>2, <1>3, <1>4, <1>5, <1>6, <1>7, <1>8, <1>9 DEF TlNext

\* With the default approval level no sequence of calls of however many turns writes a file, starts
\* a command, sends to a channel, acts on a page or touches the schedule, but through a tool that is
\* approved by name (invoke_allowed, is_approved and the risk levels of the built-in tools).
THEOREM DefaultLevelBinds == TlSpec => ApprovalIsBinding
<1>1. TlInit => TlInv
  <2> SUFFICES ASSUME TlInit PROVE TlInv OBVIOUS
  <2>1. tlOut = [p \in Outside |-> 0] /\ tlCalls = [t \in TlTurns |-> TlIdle] /\ tlRunning = {} BY DEF TlInit
  <2>2. TlIdle.step = "idle" BY DEF TlIdle
  <2> QED BY <2>1, <2>2 DEF TlInv
<1>2. TlInv /\ [TlNext]_tlVars =>
        [tlPolicy.level = "read" =>
           \A p \in Changed : p \in {"canvas", "tabs"}
             \/ \E tool \in tlPolicy.approved \cap DOMAIN with_policy : with_policy[tool].changes = p]_tlVars
  BY ToolsKept DEF TlBound, MayChange
<1>3. TlInv /\ [TlNext]_tlVars => TlInv' BY ToolsKept
<1> QED BY <1>1, <1>2, <1>3, PTL DEF TlSpec, ApprovalIsBinding

-----------------------------------------------------------------------------
(* The Copilot token.                                                      *)

USE CpConstants DEF CpConstants

CpTypeOK ==
  /\ cpNow \in Nat \ {0} /\ cpFile \in Nat /\ cpInner \in [tok : Nat, exp : Nat]
  /\ cpPc \in [CpCalls -> {"idle", "look", "exchange", "wrote", "lock", "ready", "request"}]
  /\ cpAsked \in [CpCalls -> Nat] /\ cpSince \in [CpCalls -> Nat]
  /\ \A c \in CpCalls : cpSince[c] <= cpNow
  /\ cpTok \in [CpCalls -> Nat] /\ cpExp \in [CpCalls -> Nat] /\ cpSent \in [CpCalls -> Nat]

\* A token that was given out in an exchange that c could be in, or one that is too old for it
\* to have been found: what two exchanges that overlap write is never far apart.
NotFarFrom(c, tok) == tok + CpExchange >= cpSince[c] + CpLife

\* The expiry that is kept with a token is at most two exchanges after its own: a call that
\* reads the file finds what a call of its time has written.
Kept(tok, exp) == exp <= tok + 2 * CpExchange

CpExchanges == \A c \in CpCalls : cpPc[c] = "exchange" =>
  /\ cpNow <= cpSince[c] + CpExchange
  /\ cpFile <= cpSince[c] + CpMargin \/ NotFarFrom(c, cpFile)

CpWritten == \A c \in CpCalls : cpPc[c] = "wrote" =>
  /\ cpTok[c] > cpNow + CpMargin /\ cpFile > cpNow + CpMargin /\ Kept(cpTok[c], cpFile)
  /\ \A d \in CpCalls : cpPc[d] = "exchange" => NotFarFrom(d, cpTok[c])

\* A token is installed alive, and one that is to be used lives or was dead before the call asked.
CpWaiting == \A c \in CpCalls :
  /\ cpPc[c] = "lock" => cpTok[c] > cpNow /\ Kept(cpTok[c], cpExp[c])
  /\ cpPc[c] = "look" => cpInner.tok > cpNow \/ cpInner.tok <= cpAsked[c]
  /\ cpPc[c] = "ready" => cpInner.tok > cpNow

\* The part of the invariant about tokens.
CpAlive == CpExchanges /\ CpWritten /\ CpWaiting /\ Kept(cpInner.tok, cpInner.exp) /\ TokensAreAlive

CpInv ==
  /\ CpTypeOK
  /\ ~cpLost => CpAlive

LEMMA CpStep == CpInv /\ [CpNext]_cpVars => CpInv'
<1> SUFFICES ASSUME CpInv, [CpNext]_cpVars PROVE CpInv' OBVIOUS
<1> USE DEF None, Start
<1>t. CpTypeOK /\ (~cpLost => CpAlive) BY DEF CpInv
<1>q. CpTypeOK' /\ (~cpLost' => CpAlive') => CpInv' BY DEF CpInv
<1> USE DEF cpLoginVars, cpCall
<1>1. CASE request_device_code \/ poll_for_access_token
  BY <1>1, <1>t, <1>q DEF request_device_code, poll_for_access_token, CpTypeOK, CpAlive, CpExchanges, CpWritten,
     CpWaiting, TokensAreAlive, Kept, NotFarFrom
<1>2. CASE Restarts
  BY <1>2, <1>t, <1>q DEF Restarts, CpTypeOK, CpAlive, CpExchanges, CpWritten, CpWaiting, TokensAreAlive, Kept, NotFarFrom
<1>3. CASE Time
  <2>1. /\ cpNow' = cpNow + 1 /\ UNCHANGED <<cpFile, cpInner, cpCall>> /\ (cpLost => cpLost')
        /\ \A c \in CpCalls : cpPc[c] # "wrote" /\ (cpPc[c] = "exchange" => cpNow - cpSince[c] < CpExchange)
    BY <1>3 DEF Time
  <2>2. CpTypeOK' BY <1>t, <2>1 DEF CpTypeOK
  <2>3. ASSUME ~cpLost' PROVE CpAlive'
    <3>1. ~cpLost /\ CpAlive BY <1>t, <2>1, <2>3
    <3>2. \A c \in CpCalls : ~EndsWaiting(c, cpNow + 1) BY <1>3, <2>1, <2>3 DEF Time
    <3>3. CpExchanges' /\ CpWritten' BY <1>t, <2>1, <3>1 DEF CpTypeOK, CpAlive, CpExchanges, CpWritten, NotFarFrom
    <3>4. CpWaiting' BY <1>t, <2>1, <3>1, <3>2 DEF CpTypeOK, CpAlive, CpWaiting, EndsWaiting, Kept
    <3>5. TokensAreAlive' BY <1>t, <2>1 DEF CpTypeOK, TokensAreAlive
    <3> QED BY <2>1, <3>1, <3>3, <3>4, <3>5 DEF CpAlive, Kept
  <2> QED BY <1>q, <2>2, <2>3
<1>4. ASSUME NEW c \in CpCalls, Asks(c) PROVE CpInv'
  <2>1. cpPc' = [cpPc EXCEPT ![c] = "look"] BY <1>4 DEF Asks, Moves
  <2> QED
    BY <1>4, <1>t, <1>q, <2>1 DEF Asks, CpTypeOK, CpAlive, CpExchanges, CpWritten, CpWaiting, TokensAreAlive, Kept, NotFarFrom
<1>5. ASSUME NEW c \in CpCalls, ensure_provider(c) PROVE CpInv'
  <2>1. CASE Moves(c, "ready") /\ Valid(cpInner.exp, cpAsked[c])
              /\ cpAsked' = [cpAsked EXCEPT ![c] = None] /\ UNCHANGED <<cpSince, cpTok>>
    <3>1. cpPc' = [cpPc EXCEPT ![c] = "ready"] BY <2>1 DEF Moves
    <3>2. ~cpLost => cpInner.tok > cpNow
      BY <1>5, <1>t, <2>1 DEF ensure_provider, Valid, CpTypeOK, CpAlive, CpWaiting, Kept
    <3> QED
      BY <1>5, <1>t, <1>q, <2>1, <3>1, <3>2 DEF ensure_provider, CpTypeOK, CpAlive, CpExchanges, CpWritten, CpWaiting, TokensAreAlive, Kept, NotFarFrom
  <2>2. CASE Valid(cpFile, cpNow) /\ Moves(c, "wrote") /\ cpTok' = [cpTok EXCEPT ![c] = cpFile] /\ UNCHANGED <<cpSince, cpAsked>>
    <3>1. cpPc' = [cpPc EXCEPT ![c] = "wrote"] BY <2>2 DEF Moves
    <3> QED
      BY <1>5, <1>t, <1>q, <2>2, <3>1 DEF ensure_provider, Valid, CpTypeOK, CpAlive, CpExchanges, CpWritten, CpWaiting, TokensAreAlive, Kept, NotFarFrom
  <2>3. CASE /\ ~(cpFile # None /\ Valid(cpFile, cpNow)) /\ Moves(c, "exchange")
             /\ cpSince' = [cpSince EXCEPT ![c] = cpNow] /\ UNCHANGED <<cpTok, cpAsked>>
    <3>1. cpPc' = [cpPc EXCEPT ![c] = "exchange"] BY <2>3 DEF Moves
    <3>2. cpFile <= cpNow + CpMargin BY <1>t, <2>3 DEF Valid, CpTypeOK
    <3>3. ~cpLost => \A d \in CpCalls : cpPc[d] # "wrote" BY <1>t, <3>2 DEF CpAlive, CpWritten, CpTypeOK
    <3> QED
      BY <1>5, <1>t, <1>q, <2>3, <3>1, <3>2, <3>3 DEF ensure_provider, CpTypeOK, CpAlive, CpExchanges, CpWritten, CpWaiting, TokensAreAlive, Kept, NotFarFrom
  <2> QED BY <1>5, <2>1, <2>2, <2>3 DEF ensure_provider
<1>6. ASSUME NEW c \in CpCalls, resolve_copilot_api_token(c) PROVE CpInv'
  <2>1. cpPc' = [cpPc EXCEPT ![c] = "wrote"] /\ cpPc[c] = "exchange" BY <1>6 DEF resolve_copilot_api_token, Moves
  <2>2. PICK given \in cpSince[c]..cpNow, written \in BOOLEAN :
          /\ cpTok' = [cpTok EXCEPT ![c] = given + CpLife]
          /\ cpFile' = IF written THEN given + CpLife ELSE cpFile
          /\ cpLost' = (cpLost \/ ~written)
    BY <1>6 DEF resolve_copilot_api_token
  <2>3. given \in Nat /\ given <= cpNow /\ cpSince[c] <= given BY <1>t, <2>2 DEF CpTypeOK
  <2>4. CpTypeOK'
    BY <1>6, <1>t, <2>1, <2>2, <2>3 DEF resolve_copilot_api_token, CpTypeOK
  <2>5. ASSUME ~cpLost' PROVE CpAlive'
    <3> DEFINE tok == given + CpLife
    <3>1. ~cpLost /\ cpFile' = tok /\ CpAlive BY <1>t, <2>2, <2>5
    <3>2. cpNow <= cpSince[c] + CpExchange BY <2>1, <3>1 DEF CpAlive, CpExchanges
    <3>3. tok > cpNow + CpMargin /\ tok <= cpNow + CpLife /\ tok + CpExchange >= cpNow + CpLife
      BY <1>t, <2>3, <3>2 DEF CpTypeOK
    <3>4. UNCHANGED <<cpNow, cpInner, cpAsked, cpExp, cpSent>> /\ cpSince' = [cpSince EXCEPT ![c] = None]
      BY <1>6 DEF resolve_copilot_api_token
    <3>0. cpTok' = [cpTok EXCEPT ![c] = tok] /\ tok \in Nat BY <2>2, <2>3
    <3> HIDE DEF tok
    <3>5. CpExchanges' BY <1>t, <2>1, <3>0, <3>1, <3>3, <3>4 DEF CpTypeOK, CpAlive, CpExchanges, NotFarFrom
    <3>6. CpWritten'
      <4> SUFFICES ASSUME NEW d \in CpCalls, cpPc'[d] = "wrote"
                   PROVE  /\ cpTok'[d] > cpNow + CpMargin /\ Kept(cpTok'[d], tok)
                          /\ \A e \in CpCalls : cpPc'[e] = "exchange" => cpTok'[d] + CpExchange >= cpSince'[e] + CpLife
        BY <1>t, <3>0, <3>1, <3>3, <3>4 DEF CpWritten, Kept, NotFarFrom, CpTypeOK
      <4>1. CASE d = c BY <1>t, <2>1, <3>0, <3>3, <3>4, <4>1 DEF CpTypeOK, Kept, NotFarFrom
      <4>2. CASE d # c
        BY <1>t, <2>1, <3>0, <3>1, <3>2, <3>3, <3>4, <4>2 DEF CpTypeOK, CpAlive, CpWritten, Kept, NotFarFrom
      <4> QED BY <4>1, <4>2
    <3>7. CpWaiting' BY <1>t, <2>1, <3>0, <3>1, <3>4 DEF CpTypeOK, CpAlive, CpWaiting, Kept
    <3>8. TokensAreAlive' BY <1>t, <2>1, <3>1, <3>4 DEF CpTypeOK, CpAlive, TokensAreAlive
    <3> QED BY <3>1, <3>4, <3>5, <3>6, <3>7, <3>8 DEF CpAlive, Kept
  <2> QED BY <1>q, <2>4, <2>5
<1>7. ASSUME NEW c \in CpCalls, read_token_cache(c) PROVE CpInv'
  <2>1. cpPc' = [cpPc EXCEPT ![c] = "lock"] BY <1>7 DEF read_token_cache, Moves
  <2>2. CpTypeOK' BY <1>7, <1>t, <2>1 DEF read_token_cache, CpTypeOK
  <2>3. ~cpLost => cpFile # None /\ cpTok[c] > cpNow /\ Kept(cpTok[c], cpFile)
    BY <1>7, <1>t DEF read_token_cache, CpTypeOK, CpAlive, CpWritten
  <2> QED
    BY <1>7, <1>t, <1>q, <2>1, <2>2, <2>3 DEF read_token_cache, CpTypeOK, CpAlive, CpExchanges, CpWritten, CpWaiting, TokensAreAlive, Kept, NotFarFrom
<1>8. ASSUME NEW c \in CpCalls, Install(c) PROVE CpInv'
  <2>1. cpPc' = [cpPc EXCEPT ![c] = "ready"] BY <1>8 DEF Install, Moves
  <2> QED
    BY <1>8, <1>t, <1>q, <2>1 DEF Install, CpTypeOK, CpAlive, CpExchanges, CpWritten, CpWaiting, TokensAreAlive, Kept, NotFarFrom
<1>9. ASSUME NEW c \in CpCalls, Complete(c) PROVE CpInv'
  <2>1. cpPc' = [cpPc EXCEPT ![c] = "request"] BY <1>9 DEF Complete, Moves
  <2> QED
    BY <1>9, <1>t, <1>q, <2>1 DEF Complete, CpTypeOK, CpAlive, CpExchanges, CpWritten, CpWaiting, TokensAreAlive, Kept, NotFarFrom
<1>10. ASSUME NEW c \in CpCalls, Returns(c) PROVE CpInv'
  <2>1. cpPc' = [cpPc EXCEPT ![c] = "idle"] BY <1>10 DEF Returns, Moves
  <2> QED
    BY <1>10, <1>t, <1>q, <2>1 DEF Returns, CpTypeOK, CpAlive, CpExchanges, CpWritten, CpWaiting, TokensAreAlive, Kept, NotFarFrom
<1>11. CASE UNCHANGED cpVars
  BY <1>11, <1>t, <1>q DEF cpVars, CpTypeOK, CpAlive, CpExchanges, CpWritten, CpWaiting, TokensAreAlive, Kept, NotFarFrom
<1> QED BY <1>1, <1>2, <1>3, <1>4, <1>5, <1>6, <1>7, <1>8, <1>9, <1>10, <1>11 DEF CpNext

\* No request of copilot.rs is sent with an expired token unless a token file could not be written
\* or a token expired while a call waited for the lock: for any number of calls and any times
\* with a margin (60 s) of at least two exchanges (15 s each).
THEOREM TokensLive == CpSpec => []TokensAreAlive
<1>1. CpInit => CpInv
  BY DEF CpInit, CpInv, CpAlive, CpTypeOK, CpExchanges, CpWritten, CpWaiting, TokensAreAlive, Kept, None, Start
<1>2. CpSpec => []CpInv BY <1>1, CpStep, PTL DEF CpSpec
<1>3. CpInv /\ ~cpLost => TokensAreAlive BY DEF CpInv, CpAlive
<1>4. cpLost => TokensAreAlive BY DEF TokensAreAlive
<1> QED BY <1>2, <1>3, <1>4, PTL

(***************************************************************************)
(* The streams of the providers (ProviderStreams).                         *)
(***************************************************************************)
HIDE CpConstants DEF CpConstants

\* What the server writes, what is gathered of it and what is shown.
Both == {"id", "name"}
Types == {"text", "message_start", "message_delta", "message_stop", "error", "start", "part", "end",
          "usage", "comment", "stop", "tool_calls", "[DONE]", "call"}
Events == [t : Types, i : Indexes, has : SUBSET Both, arg : BOOLEAN]
Gathered == [has : SUBSET Both, args : Seq(Nat), started : BOOLEAN, ended : BOOLEAN]
GatheredCalls == UNION {[S -> Gathered] : S \in SUBSET Indexes}
States == [content : Seq(Nat), calls : GatheredCalls, done : BOOLEAN]
Told == {"text", "start", "part", "end", "done"}
ShownDeltas == [d : Told, i : Indexes, n : Nat]
Accs == [st : States, out : Seq(ShownDeltas), err : BOOLEAN]

\* What the server keeps to: Anthropic's blocks start once, with id and name, before their parts.
Served ==
  /\ psSaid \in Seq(Events)
  /\ psKind = "anthropic" =>
       \A n \in DOMAIN psSaid :
         /\ psSaid[n].t \notin {"call", "[DONE]"}
         /\ psSaid[n].t = "part" => \E l \in 1..(n - 1) : psSaid[l].t = "start" /\ psSaid[l].i = psSaid[n].i
         /\ psSaid[n].t = "start" =>
              psSaid[n].has = Both /\ \A l \in 1..(n - 1) : ~(psSaid[l].t = "start" /\ psSaid[l].i = psSaid[n].i)
  /\ psKind # "anthropic" => \A n \in DOMAIN psSaid : psSaid[n].t \notin {"start", "part", "message_stop"}

\* The parts of a call from its announcement on.
Announced(i, m) == {n \in Parts(i, m) : Known(i, n) = Both}

\* A state and what was shown say what the first m events say.
Says(state, out, m) ==
  /\ InTurn(state.content, Texts(m)) /\ ShownInTurn(out, "text", 0, Texts(m))
  /\ DOMAIN state.calls = Begun(m)
  /\ \A i \in Begun(m) :
       /\ InTurn(state.calls[i].args, Parts(i, m)) /\ state.calls[i].has = Known(i, m)
       /\ state.calls[i].started <=> Known(i, m) = Both
  /\ \A i \in Indexes :
       /\ ShownInTurn(out, "part", i, Announced(i, m))
       /\ Known(i, m) = Both => \E k \in Nat : Deltas(out, "start", i) = {k}
       /\ Known(i, m) # Both => Deltas(out, "start", i) = {}

\* A part of the arguments.
IsPart(e) == e.t = "part" \/ (e.t = "call" /\ e.arg)
IsText(e) == e.t = "text"
IsHead(e) == e.t \in {"start", "call"}

\* The sets of the first events, with one more event.
LEMMA SetsNext ==
  ASSUME NEW m \in Nat, NEW n, n = m + 1
  PROVE  /\ Texts(n) = IF IsText(psSaid[n]) THEN Texts(m) \cup {n} ELSE Texts(m)
         /\ \A i : /\ Parts(i, n) = IF psSaid[n].i = i /\ IsPart(psSaid[n]) THEN Parts(i, m) \cup {n} ELSE Parts(i, m)
                   /\ Heads(i, n) = IF psSaid[n].i = i /\ IsHead(psSaid[n]) THEN Heads(i, m) \cup {n} ELSE Heads(i, m)
                   /\ Known(i, n) = IF psSaid[n].i = i /\ IsHead(psSaid[n]) THEN Known(i, m) \cup psSaid[n].has
                                    ELSE Known(i, m)
                   /\ Announced(i, n) = IF psSaid[n].i = i /\ IsPart(psSaid[n]) /\ Known(i, n) = Both
                                        THEN Announced(i, m) \cup {n} ELSE Announced(i, m)
<1>1. \A k : k \in 1..n <=> k \in 1..m \/ k = n
  <2>1. \A k \in 1..n : k \in 1..m \/ k = n OBVIOUS
  <2>2. n \in 1..n /\ \A k \in 1..m : k \in 1..n OBVIOUS
  <2> QED BY <2>1, <2>2
<1>2. Texts(n) = IF IsText(psSaid[n]) THEN Texts(m) \cup {n} ELSE Texts(m) BY <1>1 DEF Texts, IsText
<1>3. \A i : /\ Parts(i, n) = IF psSaid[n].i = i /\ IsPart(psSaid[n]) THEN Parts(i, m) \cup {n} ELSE Parts(i, m)
             /\ Heads(i, n) = IF psSaid[n].i = i /\ IsHead(psSaid[n]) THEN Heads(i, m) \cup {n} ELSE Heads(i, m)
  <2>1. \A i : Parts(i, n) = IF psSaid[n].i = i /\ IsPart(psSaid[n]) THEN Parts(i, m) \cup {n} ELSE Parts(i, m)
    BY <1>1 DEF Parts, IsPart
  <2>2. \A i : Heads(i, n) = IF psSaid[n].i = i /\ IsHead(psSaid[n]) THEN Heads(i, m) \cup {n} ELSE Heads(i, m)
    BY <1>1 DEF Heads, IsHead
  <2> QED BY <2>1, <2>2
<1>4. \A i : Known(i, n) = IF psSaid[n].i = i /\ IsHead(psSaid[n]) THEN Known(i, m) \cup psSaid[n].has ELSE Known(i, m)
  <2> SUFFICES ASSUME NEW i
               PROVE  Known(i, n) = IF psSaid[n].i = i /\ IsHead(psSaid[n]) THEN Known(i, m) \cup psSaid[n].has
                                    ELSE Known(i, m)
    OBVIOUS
  <2>1. CASE psSaid[n].i = i /\ IsHead(psSaid[n])
    <3>1. Heads(i, n) = Heads(i, m) \cup {n} BY <1>3, <2>1
    <3> QED BY <2>1, <3>1 DEF Known
  <2>2. CASE ~(psSaid[n].i = i /\ IsHead(psSaid[n])) BY <1>3, <2>2 DEF Known
  <2> QED BY <2>1, <2>2
<1>5. \A i : Announced(i, n) = IF psSaid[n].i = i /\ IsPart(psSaid[n]) /\ Known(i, n) = Both
                               THEN Announced(i, m) \cup {n} ELSE Announced(i, m)
  BY <1>3 DEF Announced
<1> QED BY <1>2, <1>3, <1>4, <1>5

\* One more number in turn.
LEMMA InTurnNext ==
  ASSUME NEW ns \in Seq(Nat), NEW S, InTurn(ns, S), NEW n \in Nat, \A x \in S : x < n
  PROVE  InTurn(Append(ns, n), S \cup {n})
<1> DEFINE app == Append(ns, n)
           L == Len(ns)
<1>1. L \in Nat /\ DOMAIN ns = 1..L /\ DOMAIN app = 1..(L + 1) /\ app[L + 1] = n /\ \A k \in 1..L : app[k] = ns[k] OBVIOUS
<1>2. \A k \in 1..L : ns[k] \in S /\ ns[k] < n BY <1>1 DEF InTurn, ToSet
<1>3. \A k \in 1..(L + 1) : k \in 1..L \/ k = L + 1 BY <1>1
<1>4. L + 1 \in 1..(L + 1) /\ \A k \in 1..L : k \in 1..(L + 1) /\ k < L + 1 BY <1>1
<1>5. \A k, l \in 1..L : k < l => ns[k] < ns[l] BY <1>1 DEF InTurn
<1>6. \A k \in 1..L : ~(L + 1 < k) BY <1>1
<1>7. ~(L + 1 < L + 1) BY <1>1
<1> HIDE DEF app, L
<1>8. \A k, l \in DOMAIN app : k < l => app[k] < app[l] BY <1>1, <1>2, <1>3, <1>5, <1>6, <1>7
<1>9. ToSet(app) = S \cup {n}
  <2>1. ToSet(ns) = {ns[k] : k \in 1..L} /\ ToSet(app) = {app[k] : k \in 1..(L + 1)} BY <1>1 DEF ToSet
  <2>2. ToSet(ns) = S BY DEF InTurn
  <2>3. \A x \in ToSet(app) : x \in S \cup {n} BY <1>1, <1>2, <1>3, <2>1
  <2>4. \A x \in S : x \in ToSet(app)
    <3> SUFFICES ASSUME NEW x \in S PROVE x \in ToSet(app) OBVIOUS
    <3>1. PICK k \in 1..L : x = ns[k] BY <2>1, <2>2
    <3> QED BY <1>1, <1>4, <2>1, <3>1
  <2>5. n \in ToSet(app) BY <1>1, <1>4, <2>1
  <2> QED BY <2>3, <2>4, <2>5
<1> QED BY <1>8, <1>9 DEF InTurn, app

\* One more delta.
LEMMA DeltaNext ==
  ASSUME NEW S, NEW out \in Seq(S), NEW x
  PROVE  /\ \A d, i : Deltas(Append(out, x), d, i) =
                        IF x.d = d /\ x.i = i THEN Deltas(out, d, i) \cup {Len(out) + 1} ELSE Deltas(out, d, i)
         /\ \A d, i : \A k \in Deltas(out, d, i) : k \in 1..Len(out) /\ Append(out, x)[k] = out[k]
         /\ Append(out, x)[Len(out) + 1] = x
<1> DEFINE app == Append(out, x)
           L == Len(out)
<1>1. L \in Nat /\ DOMAIN out = 1..L /\ DOMAIN app = 1..(L + 1) /\ app[L + 1] = x /\ \A k \in 1..L : app[k] = out[k] OBVIOUS
<1>2. \A k : k \in 1..(L + 1) <=> k \in 1..L \/ k = L + 1 BY <1>1
<1>3. L + 1 \notin 1..L BY <1>1
<1> HIDE DEF app, L
<1>4. \A d, i : Deltas(app, d, i) = IF x.d = d /\ x.i = i THEN Deltas(out, d, i) \cup {L + 1} ELSE Deltas(out, d, i)
  BY <1>1, <1>2, <1>3 DEF Deltas
<1>5. \A d, i : \A k \in Deltas(out, d, i) : k \in 1..L /\ app[k] = out[k] BY <1>1 DEF Deltas
<1> QED BY <1>1, <1>4, <1>5 DEF app, L

\* A delta of another kind or call changes nothing.
LEMMA OtherDelta ==
  ASSUME NEW S, NEW out \in Seq(S), NEW x, NEW d, NEW i, ~(x.d = d /\ x.i = i)
  PROVE  /\ Deltas(Append(out, x), d, i) = Deltas(out, d, i)
         /\ \A E : ShownInTurn(out, d, i, E) => ShownInTurn(Append(out, x), d, i, E)
<1> DEFINE app == Append(out, x)
<1>1. Deltas(app, d, i) = Deltas(out, d, i) /\ \A k \in Deltas(out, d, i) : app[k] = out[k] BY DeltaNext
<1> HIDE DEF app
<1>2. \A E : ShownInTurn(out, d, i, E) => ShownInTurn(app, d, i, E) BY <1>1 DEF ShownInTurn
<1> QED BY <1>1, <1>2 DEF app

\* A delta of a later event.
LEMMA LaterDelta ==
  ASSUME NEW S, NEW out \in Seq(S), NEW x, NEW E, ShownInTurn(out, x.d, x.i, E), x.n \in Nat,
         \A y \in E : y < x.n
  PROVE  ShownInTurn(Append(out, x), x.d, x.i, E \cup {x.n})
<1> DEFINE app == Append(out, x)
           L == Len(out)
           D == Deltas(out, x.d, x.i)
<1>1. /\ Deltas(app, x.d, x.i) = D \cup {L + 1} /\ app[L + 1] = x
      /\ \A k \in D : k \in 1..L /\ app[k] = out[k]
  BY DeltaNext
<1>2. {out[k].n : k \in D} = E /\ \A k, l \in D : k < l => out[k].n < out[l].n BY DEF ShownInTurn
<1>3. L \in Nat /\ \A k \in 1..L : ~(L + 1 < k) /\ ~(L + 1 < L + 1) OBVIOUS
<1> HIDE DEF app, L, D
<1>4. \A k \in D : out[k].n < x.n BY <1>2
<1>5. {app[k].n : k \in D \cup {L + 1}} = E \cup {x.n} BY <1>1, <1>2
<1>6. \A k, l \in D \cup {L + 1} : k < l => app[k].n < app[l].n
  <2> SUFFICES ASSUME NEW k \in D \cup {L + 1}, NEW l \in D \cup {L + 1}, k < l PROVE app[k].n < app[l].n OBVIOUS
  <2>1. k \in D
    <3>1. ~(L + 1 < L + 1) BY <1>3
    <3> QED BY <1>1, <1>3, <3>1
  <2>2. CASE l \in D BY <1>1, <1>2, <2>1, <2>2
  <2>3. CASE l = L + 1 BY <1>1, <1>4, <2>1, <2>3
  <2> QED BY <2>2, <2>3
<1> QED BY <1>1, <1>5, <1>6 DEF ShownInTurn, app

\* The numbers of the first events, and of their parts.
LEMMA NumbersBefore ==
  ASSUME NEW m \in Nat
  PROVE  /\ \A x \in Texts(m) : x \in 1..m
         /\ \A i : /\ \A x \in Parts(i, m) : x \in 1..m
                   /\ \A x \in Announced(i, m) : x \in 1..m
                   /\ i \in Indexes => (i \in Begun(m) <=> Heads(i, m) # {})
                   /\ Heads(i, m) = {} => Known(i, m) = {}
BY DEF Texts, Parts, Announced, Begun, Known

\* An appended element, as a concatenation.
LEMMA AsAppend ==
  ASSUME NEW S, NEW s \in Seq(S), NEW x \in S
  PROVE  s \o <<x>> = Append(s, x) /\ s \o <<>> = s /\ s \in Seq(S) /\ Append(s, x) \in Seq(S)
OBVIOUS

\* What has been gathered.
LEMMA AccTyped ==
  ASSUME NEW a \in Accs
  PROVE  /\ a.out \in Seq(ShownDeltas) /\ a.st \in States /\ a.err \in BOOLEAN
         /\ a.st.content \in Seq(Nat) /\ a.st.done \in BOOLEAN /\ DOMAIN a.st.calls \subseteq Indexes
         /\ \A j \in DOMAIN a.st.calls : /\ a.st.calls[j] \in Gathered /\ a.st.calls[j].args \in Seq(Nat)
                                         /\ a.st.calls[j].has \in SUBSET Both
                                         /\ a.st.calls[j].started \in BOOLEAN /\ a.st.calls[j].ended \in BOOLEAN
<1>1. a.out \in Seq(ShownDeltas) /\ a.st \in States /\ a.err \in BOOLEAN BY DEF Accs
<1>2. a.st.content \in Seq(Nat) /\ a.st.done \in BOOLEAN /\ a.st.calls \in GatheredCalls BY <1>1 DEF States
<1>3. PICK S \in SUBSET Indexes : a.st.calls \in [S -> Gathered] BY <1>2 DEF GatheredCalls
<1>4. DOMAIN a.st.calls = S /\ \A j \in S : a.st.calls[j] \in Gathered BY <1>3
<1>5. \A g \in Gathered : g.args \in Seq(Nat) /\ g.has \in SUBSET Both /\ g.started \in BOOLEAN /\ g.ended \in BOOLEAN
  BY DEF Gathered
<1> QED BY <1>1, <1>2, <1>4, <1>5

\* The kinds of deltas.
LEMMA ToldIs == "text" \in Told /\ "start" \in Told /\ "part" \in Told /\ "end" \in Told /\ "done" \in Told
BY DEF Told

\* A delta that is shown.
LEMMA ShowsTyped ==
  ASSUME NEW d \in Told, NEW i \in Indexes, NEW n \in Nat
  PROVE  Shows(d, i, n) \in ShownDeltas /\ Shows(d, i, 0) \in ShownDeltas
BY DEF ShownDeltas, Shows

\* What a call's event shows: first that the call starts, then a part of its arguments.
Started(out, i, starts) == IF starts THEN Append(out, Shows("start", i, 0)) ELSE out
PartShown(out, i, n, shows) == IF shows THEN Append(out, Shows("part", i, n)) ELSE out

\* The event of a call.
LEMMA CallApplied ==
  ASSUME NEW m \in Nat, NEW n, n = m + 1, NEW a \in Accs, NEW b \in Accs, NEW i \in Indexes,
         psSaid[n].i = i, ~IsText(psSaid[n]), i \in Begun(n), i \notin Begun(m) => Parts(i, m) = {},
         Says(a.st, a.out, m), b.st.content = a.st.content,
         DOMAIN b.st.calls = DOMAIN a.st.calls \cup {i},
         \A j \in DOMAIN a.st.calls : j # i => b.st.calls[j] = a.st.calls[j],
         b.st.calls[i].has = Known(i, n), b.st.calls[i].started <=> Known(i, n) = Both,
         b.st.calls[i].args = IF IsPart(psSaid[n]) THEN Append(CallAt(a.st, i).args, n) ELSE CallAt(a.st, i).args,
         b.out = PartShown(Started(a.out, i, Known(i, n) = Both /\ Known(i, m) # Both), i, n,
                           IsPart(psSaid[n]) /\ Known(i, n) = Both)
  PROVE  Says(b.st, b.out, n)
<1> DEFINE starts == Known(i, n) = Both /\ Known(i, m) # Both
           shows == IsPart(psSaid[n]) /\ Known(i, n) = Both
           mid == Started(a.out, i, starts)
<1>0. n \in Nat /\ n > m /\ \A x \in 1..m : x < n OBVIOUS
<1>A. /\ Texts(n) = IF IsText(psSaid[n]) THEN Texts(m) \cup {n} ELSE Texts(m)
      /\ \A j : /\ Parts(j, n) = IF psSaid[n].i = j /\ IsPart(psSaid[n]) THEN Parts(j, m) \cup {n} ELSE Parts(j, m)
                /\ Heads(j, n) = IF psSaid[n].i = j /\ IsHead(psSaid[n]) THEN Heads(j, m) \cup {n} ELSE Heads(j, m)
                /\ Known(j, n) = IF psSaid[n].i = j /\ IsHead(psSaid[n]) THEN Known(j, m) \cup psSaid[n].has
                                 ELSE Known(j, m)
                /\ Announced(j, n) = IF psSaid[n].i = j /\ IsPart(psSaid[n]) /\ Known(j, n) = Both
                                     THEN Announced(j, m) \cup {n} ELSE Announced(j, m)
  <2>1. n = m + 1 /\ m \in Nat OBVIOUS
  <2> QED BY ONLY <2>1, SetsNext
<1>1. /\ Texts(n) = Texts(m)
      /\ \A j : j # i => /\ Parts(j, n) = Parts(j, m) /\ Heads(j, n) = Heads(j, m)
                         /\ Known(j, n) = Known(j, m) /\ Announced(j, n) = Announced(j, m)
      /\ Parts(i, n) = IF IsPart(psSaid[n]) THEN Parts(i, m) \cup {n} ELSE Parts(i, m)
      /\ Announced(i, n) = IF shows THEN Announced(i, m) \cup {n} ELSE Announced(i, m)
  BY <1>A
<1>2. Known(i, m) \subseteq Known(i, n) /\ Heads(i, m) \subseteq Heads(i, n)
  <2>1. /\ Known(i, n) = Known(i, m) \cup psSaid[n].has \/ Known(i, n) = Known(i, m)
        /\ Heads(i, n) = Heads(i, m) \cup {n} \/ Heads(i, n) = Heads(i, m)
    BY <1>A
  <2> QED BY <2>1
<1>3. Begun(n) = Begun(m) \cup {i} BY <1>1, <1>2 DEF Begun
<1>4. /\ a.out \in Seq(ShownDeltas) /\ a.st.content \in Seq(Nat) /\ \A j \in DOMAIN a.st.calls : a.st.calls[j].args \in Seq(Nat)
      /\ Shows("start", i, 0) \in ShownDeltas /\ Shows("part", i, n) \in ShownDeltas
  <2>1. Shows("start", i, 0) \in ShownDeltas /\ Shows("part", i, n) \in ShownDeltas BY <1>0, ToldIs, ShowsTyped
  <2> QED BY <2>1, AccTyped
<1>5. mid \in Seq(ShownDeltas) BY <1>4, AsAppend DEF Started
<1>6. /\ Shows("start", i, 0).d = "start" /\ Shows("start", i, 0).i = i
      /\ Shows("part", i, n).d = "part" /\ Shows("part", i, n).i = i /\ Shows("part", i, n).n = n
  BY DEF Shows
<1>7. /\ \A d, j : ~(d = "start" /\ j = i) =>
           /\ Deltas(mid, d, j) = Deltas(a.out, d, j)
           /\ \A E : ShownInTurn(a.out, d, j, E) => ShownInTurn(mid, d, j, E)
      /\ \A d, j : ~(d = "part" /\ j = i) =>
           /\ Deltas(b.out, d, j) = Deltas(mid, d, j)
           /\ \A E : ShownInTurn(mid, d, j, E) => ShownInTurn(b.out, d, j, E)
  <2>1. \A d, j : ~(d = "start" /\ j = i) =>
           /\ Deltas(mid, d, j) = Deltas(a.out, d, j)
           /\ \A E : ShownInTurn(a.out, d, j, E) => ShownInTurn(mid, d, j, E)
    <3>1. \A d, j : ~(d = "start" /\ j = i) =>
           /\ Deltas(Append(a.out, Shows("start", i, 0)), d, j) = Deltas(a.out, d, j)
           /\ \A E : ShownInTurn(a.out, d, j, E) => ShownInTurn(Append(a.out, Shows("start", i, 0)), d, j, E)
      BY <1>4, <1>6, OtherDelta
    <3> QED BY <3>1 DEF Started
  <2>2. \A d, j : ~(d = "part" /\ j = i) =>
           /\ Deltas(b.out, d, j) = Deltas(mid, d, j)
           /\ \A E : ShownInTurn(mid, d, j, E) => ShownInTurn(b.out, d, j, E)
    <3> HIDE DEF mid
    <3>1. \A d, j : ~(d = "part" /\ j = i) =>
           /\ Deltas(Append(mid, Shows("part", i, n)), d, j) = Deltas(mid, d, j)
           /\ \A E : ShownInTurn(mid, d, j, E) => ShownInTurn(Append(mid, Shows("part", i, n)), d, j, E)
      BY <1>5, <1>6, OtherDelta
    <3>2. b.out = PartShown(mid, i, n, shows) BY DEF mid
    <3> QED BY <3>1, <3>2 DEF PartShown
  <2> QED BY <2>1, <2>2
<1>8. b.out = PartShown(mid, i, n, shows) OBVIOUS
<1> HIDE DEF mid
<1>9. InTurn(b.st.content, Texts(n)) /\ ShownInTurn(b.out, "text", 0, Texts(n)) BY <1>1, <1>7 DEF Says
<1>10. DOMAIN b.st.calls = Begun(n) BY <1>3 DEF Says
<1>11. ASSUME NEW j \in Begun(n)
       PROVE  /\ InTurn(b.st.calls[j].args, Parts(j, n)) /\ b.st.calls[j].has = Known(j, n)
              /\ b.st.calls[j].started <=> Known(j, n) = Both
  <2>1. CASE j # i
    <3>1. j \in Begun(m) /\ b.st.calls[j] = a.st.calls[j] BY <1>3, <2>1 DEF Says
    <3> QED BY <1>1, <2>1, <3>1 DEF Says
  <2>2. CASE j = i
    <3>1. CallAt(a.st, i).args \in Seq(Nat) /\ InTurn(CallAt(a.st, i).args, Parts(i, m))
      <4>1. CASE i \in Begun(m) BY <1>4, <4>1 DEF Says, CallAt
      <4>2. CASE i \notin Begun(m)
        <5>1. CallAt(a.st, i).args = <<>> /\ Parts(i, m) = {} BY <4>2 DEF Says, CallAt, NewCall
        <5> QED BY <5>1 DEF InTurn, ToSet
      <4> QED BY <4>1, <4>2
    <3>2. \A x \in Parts(i, m) : x < n BY <1>0, NumbersBefore
    <3>3. InTurn(Append(CallAt(a.st, i).args, n), Parts(i, m) \cup {n}) BY <1>0, <3>1, <3>2, InTurnNext
    <3> QED BY <1>1, <2>2, <3>1, <3>3
  <2> QED BY <2>1, <2>2
<1>12. ASSUME NEW j \in Indexes
       PROVE  /\ ShownInTurn(b.out, "part", j, Announced(j, n))
              /\ Known(j, n) = Both => \E k \in Nat : Deltas(b.out, "start", j) = {k}
              /\ Known(j, n) # Both => Deltas(b.out, "start", j) = {}
  <2>0. /\ ShownInTurn(a.out, "part", j, Announced(j, m))
        /\ Known(j, m) = Both => \E k \in Nat : Deltas(a.out, "start", j) = {k}
        /\ Known(j, m) # Both => Deltas(a.out, "start", j) = {}
    BY DEF Says
  <2>1. CASE j # i BY <1>1, <1>7, <2>0, <2>1
  <2>2. CASE j = i
    <3>1. ShownInTurn(mid, "part", i, Announced(i, m)) BY <1>7, <2>0, <2>2
    <3>2. ShownInTurn(b.out, "part", i, Announced(i, n))
      <4>1. CASE shows
        <5>1. \A x \in Announced(i, m) : x < n BY <1>0, NumbersBefore
        <5>2. ShownInTurn(Append(mid, Shows("part", i, n)), "part", i, Announced(i, m) \cup {n})
          <6> DEFINE x == Shows("part", i, n)
          <6>1. /\ ShownInTurn(mid, x.d, x.i, Announced(i, m)) /\ x.n \in Nat /\ \A y \in Announced(i, m) : y < x.n
                /\ x.d = "part" /\ x.i = i /\ x.n = n
            BY <1>0, <1>6, <3>1, <5>1
          <6> HIDE DEF x
          <6>2. ShownInTurn(Append(mid, x), x.d, x.i, Announced(i, m) \cup {x.n}) BY <1>5, <6>1, LaterDelta
          <6> QED BY <6>1, <6>2 DEF x
        <5> QED BY <1>1, <1>8, <4>1, <5>2 DEF PartShown
      <4>2. CASE ~shows BY <1>1, <1>8, <3>1, <4>2 DEF PartShown
      <4> QED BY <4>1, <4>2
    <3>3. Deltas(b.out, "start", i) = Deltas(mid, "start", i) BY <1>7
    <3>4. CASE starts
      <4>1. Deltas(a.out, "start", i) = {} BY <2>0, <2>2, <3>4
      <4>2. Deltas(mid, "start", i) = {Len(a.out) + 1}
        <5>1. Deltas(Append(a.out, Shows("start", i, 0)), "start", i) = Deltas(a.out, "start", i) \cup {Len(a.out) + 1}
          <6> DEFINE x == Shows("start", i, 0)
          <6>1. x.d = "start" /\ x.i = i BY <1>6
          <6> HIDE DEF x
          <6>2. a.out \in Seq(ShownDeltas) BY <1>4
          <6>3. Deltas(Append(a.out, x), x.d, x.i) = Deltas(a.out, x.d, x.i) \cup {Len(a.out) + 1} BY ONLY <6>2, DeltaNext
          <6> QED BY <6>1, <6>3 DEF x
        <5> QED BY <3>4, <4>1, <5>1 DEF mid, Started
      <4>3. Len(a.out) + 1 \in Nat BY <1>4
      <4> QED BY <2>2, <3>2, <3>3, <3>4, <4>2, <4>3
    <3>5. CASE ~starts
      <4>1. Deltas(mid, "start", i) = Deltas(a.out, "start", i) BY <3>5 DEF mid, Started
      <4>2. Known(i, n) = Both <=> Known(i, m) = Both
        <5>1. Known(i, n) \subseteq Both
          <6>1. Known(i, n) = b.st.calls[i].has /\ i \in DOMAIN b.st.calls OBVIOUS
          <6> QED BY <6>1, AccTyped
        <5> QED BY <1>2, <3>5, <5>1
      <4> QED BY <2>0, <2>2, <3>2, <3>3, <4>1, <4>2
    <3> QED BY <3>4, <3>5
  <2> QED BY <2>1, <2>2
<1> QED BY <1>9, <1>10, <1>11, <1>12 DEF Says

\* What of the deltas says what was gathered: all but the ends.
Telling == {"text", "start", "part"}
SameShown(out, out2) ==
  \A d \in Telling, i \in Indexes : /\ Deltas(out2, d, i) = Deltas(out, d, i)
                                  /\ \A k \in Deltas(out, d, i) : out2[k] = out[k]

\* Further deltas of other kinds tell nothing.
LEMMA MoreShown ==
  ASSUME NEW out \in Seq(ShownDeltas), NEW more \in Seq(ShownDeltas), \A k \in 1..Len(more) : more[k].d \notin Telling
  PROVE  SameShown(out, out \o more)
<1> DEFINE all == out \o more
<1>1. /\ Len(out) \in Nat /\ DOMAIN out = 1..Len(out) /\ DOMAIN all = 1..(Len(out) + Len(more))
      /\ \A k \in 1..Len(out) : all[k] = out[k] /\ k \in 1..(Len(out) + Len(more))
  OBVIOUS
<1>2. \A k \in 1..(Len(out) + Len(more)) : k \notin 1..Len(out) => k - Len(out) \in 1..Len(more) /\ all[k] = more[k - Len(out)]
  OBVIOUS
<1> HIDE DEF all
<1>3. \A k \in DOMAIN all : k \notin DOMAIN out => all[k].d \notin Telling BY <1>1, <1>2
<1> SUFFICES ASSUME NEW d \in Telling, NEW i \in Indexes
             PROVE  Deltas(all, d, i) = Deltas(out, d, i) /\ \A k \in Deltas(out, d, i) : all[k] = out[k]
  BY DEF SameShown, all
<1> QED BY <1>1, <1>3 DEF Deltas

\* An event without text, id, name or arguments.
LEMMA QuietApplied ==
  ASSUME NEW m \in Nat, NEW n, n = m + 1, NEW a \in Accs, NEW b \in Accs,
         ~IsText(psSaid[n]), ~IsPart(psSaid[n]), ~IsHead(psSaid[n]),
         Says(a.st, a.out, m), b.st.content = a.st.content, SameShown(a.out, b.out),
         DOMAIN b.st.calls = DOMAIN a.st.calls,
         \A i \in DOMAIN a.st.calls : /\ b.st.calls[i].args = a.st.calls[i].args /\ b.st.calls[i].has = a.st.calls[i].has
                                     /\ b.st.calls[i].started = a.st.calls[i].started
  PROVE  Says(b.st, b.out, n)
<1>1. /\ Texts(n) = Texts(m)
      /\ \A j : /\ Parts(j, n) = Parts(j, m) /\ Heads(j, n) = Heads(j, m) /\ Known(j, n) = Known(j, m)
                /\ Announced(j, n) = Announced(j, m)
  BY SetsNext
<1>2. Begun(n) = Begun(m) BY <1>1 DEF Begun
<1>3. \A d \in Telling, i \in Indexes : /\ Deltas(b.out, d, i) = Deltas(a.out, d, i)
                                       /\ \A E : ShownInTurn(a.out, d, i, E) => ShownInTurn(b.out, d, i, E)
  BY DEF SameShown, ShownInTurn
<1>4. "text" \in Telling /\ "part" \in Telling /\ "start" \in Telling /\ 0 \in Indexes BY DEF Telling, Indexes
<1>5. InTurn(b.st.content, Texts(n)) /\ ShownInTurn(b.out, "text", 0, Texts(n)) BY <1>1, <1>3, <1>4 DEF Says
<1>6. \A i \in Begun(n) :
        /\ InTurn(b.st.calls[i].args, Parts(i, n)) /\ b.st.calls[i].has = Known(i, n)
        /\ b.st.calls[i].started <=> Known(i, n) = Both
  BY <1>1, <1>2 DEF Says
<1>7. \A i \in Indexes :
        /\ ShownInTurn(b.out, "part", i, Announced(i, n))
        /\ Known(i, n) = Both => \E k \in Nat : Deltas(b.out, "start", i) = {k}
        /\ Known(i, n) # Both => Deltas(b.out, "start", i) = {}
  BY <1>1, <1>3, <1>4 DEF Says
<1> QED BY <1>2, <1>5, <1>6, <1>7 DEF Says

\* A text.
LEMMA TextApplied ==
  ASSUME NEW m \in Nat, NEW n, n = m + 1, NEW a \in Accs, NEW b,
         IsText(psSaid[n]), Says(a.st, a.out, m), b = Text(a, n)
  PROVE  b \in Accs /\ Says(b.st, b.out, n)
<1> DEFINE x == Shows("text", 0, n)
<1>0. n \in Nat /\ \A y \in 1..m : y < n OBVIOUS
<1>1. ~IsPart(psSaid[n]) /\ ~IsHead(psSaid[n]) BY DEF IsText, IsPart, IsHead
<1>2. /\ Texts(n) = Texts(m) \cup {n}
      /\ \A j : /\ Parts(j, n) = Parts(j, m) /\ Heads(j, n) = Heads(j, m) /\ Known(j, n) = Known(j, m)
                /\ Announced(j, n) = Announced(j, m)
  BY <1>1, SetsNext
<1>3. Begun(n) = Begun(m) BY <1>2 DEF Begun
<1>4. x \in ShownDeltas /\ x.d = "text" /\ x.i = 0 /\ x.n = n
  <2>1. 0 \in Indexes BY DEF Indexes
  <2> QED BY <1>0, <2>1, ToldIs, ShowsTyped DEF Shows
<1>5. a.out \in Seq(ShownDeltas) /\ a.st \in States /\ a.err \in BOOLEAN /\ a.st.content \in Seq(Nat) /\ a.st.calls \in GatheredCalls
      /\ a.st.done \in BOOLEAN
  BY AccTyped DEF States
<1>6. b = [a EXCEPT !.st = [a.st EXCEPT !.content = Append(@, n)], !.out = Append(@, x)]
  <2>1. a.out \o <<x>> = Append(a.out, x) BY <1>4, <1>5, AsAppend
  <2> QED BY <2>1 DEF Text, Sent
<1>7. /\ b.st = [a.st EXCEPT !.content = Append(a.st.content, n)] /\ b.out = Append(a.out, x) /\ b.err = a.err
      /\ b.st.content = Append(a.st.content, n) /\ b.st.calls = a.st.calls /\ b.st.done = a.st.done
  BY <1>5, <1>6 DEF Accs, States
<1>8. b \in Accs
  <2>1. b.st \in States
    <3>1. Append(a.st.content, n) \in Seq(Nat) BY <1>0, <1>5
    <3> QED BY <1>5, <1>7, <3>1 DEF States
  <2>2. b.out \in Seq(ShownDeltas) BY <1>4, <1>5, <1>7, AsAppend
  <2>3. b = [st |-> b.st, out |-> b.out, err |-> b.err] BY <1>6 DEF Accs
  <2> QED BY <1>5, <1>7, <2>1, <2>2, <2>3 DEF Accs
<1> HIDE DEF x
<1>9. InTurn(b.st.content, Texts(n)) /\ ShownInTurn(b.out, "text", 0, Texts(n))
  <2>1. \A y \in Texts(m) : y < n BY <1>0, NumbersBefore
  <2>2. InTurn(b.st.content, Texts(n))
    <3>1. InTurn(a.st.content, Texts(m)) BY DEF Says
    <3>2. InTurn(Append(a.st.content, n), Texts(m) \cup {n}) BY <1>0, <1>5, <2>1, <3>1, InTurnNext
    <3> QED BY <1>2, <1>7, <3>2
  <2>3. ShownInTurn(Append(a.out, x), x.d, x.i, Texts(m) \cup {x.n})
    <3>1. ShownInTurn(a.out, x.d, x.i, Texts(m)) /\ x.n \in Nat /\ \A y \in Texts(m) : y < x.n BY <1>0, <1>4, <2>1 DEF Says
    <3> QED BY <1>5, <3>1, LaterDelta
  <2> QED BY <1>2, <1>4, <1>7, <2>2, <2>3
<1>10. \A d, i : d # "text" =>
        /\ Deltas(b.out, d, i) = Deltas(a.out, d, i)
        /\ \A E : ShownInTurn(a.out, d, i, E) => ShownInTurn(b.out, d, i, E)
  <2> SUFFICES ASSUME NEW d, NEW i, ~(x.d = d /\ x.i = i)
               PROVE  /\ Deltas(b.out, d, i) = Deltas(a.out, d, i)
                      /\ \A E : ShownInTurn(a.out, d, i, E) => ShownInTurn(b.out, d, i, E)
    BY <1>4
  <2>1. /\ Deltas(Append(a.out, x), d, i) = Deltas(a.out, d, i)
        /\ \A E : ShownInTurn(a.out, d, i, E) => ShownInTurn(Append(a.out, x), d, i, E)
    BY <1>5, OtherDelta
  <2> QED BY <1>7, <2>1
<1>11. \A i \in Begun(n) :
        /\ InTurn(b.st.calls[i].args, Parts(i, n)) /\ b.st.calls[i].has = Known(i, n)
        /\ b.st.calls[i].started <=> Known(i, n) = Both
  BY <1>2, <1>3, <1>7 DEF Says
<1>12. \A i \in Indexes :
        /\ ShownInTurn(b.out, "part", i, Announced(i, n))
        /\ Known(i, n) = Both => \E k \in Nat : Deltas(b.out, "start", i) = {k}
        /\ Known(i, n) # Both => Deltas(b.out, "start", i) = {}
  BY <1>2, <1>10 DEF Says
<1> QED BY <1>3, <1>7, <1>8, <1>9, <1>11, <1>12 DEF Says

\* A state with a call put into it.
Put(a, i, g, out) == [a EXCEPT !.st = [a.st EXCEPT !.calls = With(a.st.calls, i, g)], !.out = out]

\* What is gathered, with a call put into it.
LEMMA PutIs ==
  ASSUME NEW a \in Accs, NEW i \in Indexes, NEW g \in Gathered, NEW out \in Seq(ShownDeltas), NEW b, b = Put(a, i, g, out)
  PROVE  /\ b \in Accs /\ b.err = a.err /\ b.out = out /\ b.st.content = a.st.content /\ b.st.done = a.st.done
         /\ DOMAIN b.st.calls = DOMAIN a.st.calls \cup {i} /\ b.st.calls[i] = g
         /\ \A j \in DOMAIN a.st.calls : j # i => b.st.calls[j] = a.st.calls[j]
<1> DEFINE f == With(a.st.calls, i, g)
<1>1. /\ DOMAIN f = DOMAIN a.st.calls \cup {i} /\ f[i] = g /\ \A j \in DOMAIN a.st.calls : j # i => f[j] = a.st.calls[j]
      /\ f \in GatheredCalls
  <2>1. DOMAIN f = DOMAIN a.st.calls \cup {i} /\ f[i] = g /\ \A j \in DOMAIN a.st.calls : j # i => f[j] = a.st.calls[j]
    BY DEF With
  <2>2. DOMAIN f \in SUBSET Indexes /\ \A j \in DOMAIN f : f[j] \in Gathered BY <2>1, AccTyped
  <2>3. f = [j \in DOMAIN f |-> f[j]] BY DEF With
  <2>4. f \in [DOMAIN f -> Gathered]
    <3> HIDE DEF f
    <3> QED BY <2>2, <2>3
  <2> HIDE DEF f
  <2> QED BY <2>1, <2>2, <2>4 DEF GatheredCalls
<1>2. b = [a EXCEPT !.st = [a.st EXCEPT !.calls = f], !.out = out] BY DEF Put
<1> HIDE DEF f
<1>3. /\ b.st = [a.st EXCEPT !.calls = f] /\ b.out = out /\ b.err = a.err
      /\ b.st.content = a.st.content /\ b.st.calls = f /\ b.st.done = a.st.done
  BY <1>2 DEF Accs, States
<1>4. b \in Accs
  <2>1. b.st \in States BY <1>1, <1>3, AccTyped DEF States
  <2>2. b = [st |-> b.st, out |-> b.out, err |-> b.err] BY <1>2 DEF Accs
  <2> QED BY <1>3, <2>1, <2>2, AccTyped DEF Accs
<1> QED BY <1>1, <1>3, <1>4

\* The calls of a state that says what the first events say.
LEMMA CallSaid ==
  ASSUME NEW m \in Nat, NEW a \in Accs, Says(a.st, a.out, m), NEW i \in Indexes
  PROVE  /\ CallAt(a.st, i) \in Gathered /\ CallAt(a.st, i).has = Known(i, m)
         /\ CallAt(a.st, i).started <=> Known(i, m) = Both
<1>1. CASE i \in DOMAIN a.st.calls BY <1>1, AccTyped DEF Says, CallAt
<1>2. CASE i \notin DOMAIN a.st.calls
  <2>1. Known(i, m) = {} BY <1>2, NumbersBefore DEF Says
  <2>2. CallAt(a.st, i) = NewCall BY <1>2 DEF CallAt
  <2>3. NewCall \in Gathered /\ NewCall.has = {} /\ NewCall.started = FALSE
    <3>1. {} \in SUBSET Both /\ <<>> \in Seq(Nat) OBVIOUS
    <3> QED BY <3>1 DEF NewCall, Gathered
  <2> QED BY <2>1, <2>2, <2>3 DEF Both
<1> QED BY <1>1, <1>2

\* Before a call's first id, name or start there are no parts of it.
LEMMA PartsOfBegun ==
  ASSUME Served, NEW m \in 0..Len(psSaid), NEW i \in Indexes, i \notin Begun(m)
  PROVE  Parts(i, m) = {}
<1> SUFFICES ASSUME NEW n \in Parts(i, m) PROVE FALSE OBVIOUS
<1>1. m \in Nat /\ psSaid \in Seq(Events) /\ \A k \in 1..m : k \in DOMAIN psSaid /\ \A l \in 1..(k - 1) : l \in 1..m
  <2>1. psSaid \in Seq(Events) BY DEF Served
  <2> QED BY <2>1
<1>2. Heads(i, m) = {} BY <1>1, NumbersBefore
<1>3. n \in 1..m /\ psSaid[n].i = i BY DEF Parts
<1>4. psSaid[n].t # "call" BY <1>2, <1>3 DEF Heads
<1>5. psSaid[n].t = "part" BY <1>4 DEF Parts
<1>6. psKind = "anthropic" BY <1>1, <1>3, <1>5 DEF Served
<1>7. PICK l \in 1..(n - 1) : psSaid[l].t = "start" /\ psSaid[l].i = psSaid[n].i
  <2>1. n \in DOMAIN psSaid BY <1>1, <1>3
  <2> QED BY <1>5, <1>6, <2>1 DEF Served
<1>8. l \in Heads(i, m) BY <1>1, <1>3, <1>7 DEF Heads
<1> QED BY <1>2, <1>8

\* The event at hand.
LEMMA EventAt ==
  ASSUME Served, NEW m \in Nat, NEW n \in DOMAIN psSaid, n = m + 1
  PROVE  /\ psSaid[n] \in Events /\ n \in Nat /\ m \in 0..Len(psSaid)
         /\ psSaid[n].i \in Indexes /\ psSaid[n].has \in SUBSET Both /\ psSaid[n].arg \in BOOLEAN /\ psSaid[n].t \in Types
         /\ \A l \in 1..m : l \in 1..(n - 1)
<1>1. psSaid \in Seq(Events) BY DEF Served
<1>2. psSaid[n] \in Events /\ n \in 1..Len(psSaid) /\ Len(psSaid) \in Nat BY <1>1
<1>3. n \in Nat /\ m \in 0..Len(psSaid) /\ \A l \in 1..m : l \in 1..(n - 1) BY <1>2
<1>4. psSaid[n].i \in Indexes /\ psSaid[n].has \in SUBSET Both /\ psSaid[n].arg \in BOOLEAN /\ psSaid[n].t \in Types
  BY <1>2 DEF Events
<1> QED BY <1>2, <1>3, <1>4

\* What an event leads to: an error, the end of the answer, or one more event said.
Follows(a, b, n) ==
  /\ b \in Accs
  /\ ~b.err /\ IsEnd(n) => b.st.done /\ Says(b.st, b.out, n - 1)
  /\ ~b.err /\ ~IsEnd(n) => ~b.st.done /\ Says(b.st, b.out, n)

\* Indexes in order are those of the set.
LEMMA InOrderIs ==
  ASSUME NEW S \in SUBSET Indexes
  PROVE  InOrder(S) \in Seq(S) /\ ToSet(InOrder(S)) = S /\ Len(InOrder(S)) = Cardinality(S)
<1>0. /\ Cardinality({}) = 0 /\ Cardinality({0}) = 1 /\ Cardinality({1}) = 1 /\ Cardinality({0, 1}) = 2
      /\ {j \in {0} : j <= 0} = {0} /\ {j \in {1} : j <= 1} = {1}
      /\ {j \in {0, 1} : j <= 0} = {0} /\ {j \in {0, 1} : j <= 1} = {0, 1}
  <2>1. Cardinality({}) = 0 BY FS_EmptySet
  <2>2. Cardinality({0}) = 1 /\ Cardinality({1}) = 1 BY FS_Singleton
  <2>3. Cardinality({0, 1}) = 2
    <3>1. IsFiniteSet({0}) /\ 1 \notin {0} BY FS_Singleton
    <3>2. Cardinality({0} \cup {1}) = Cardinality({0}) + 1 BY <3>1, FS_AddElement
    <3>3. {0} \cup {1} = {0, 1} OBVIOUS
    <3> QED BY <2>2, <3>2, <3>3
  <2>4. /\ {j \in {0} : j <= 0} = {0} /\ {j \in {1} : j <= 1} = {1}
        /\ {j \in {0, 1} : j <= 0} = {0} /\ {j \in {0, 1} : j <= 1} = {0, 1}
    OBVIOUS
  <2> QED BY <2>1, <2>2, <2>3, <2>4
<1>1. CASE S = {}
  <2>1. InOrder(S) = <<>> BY <1>0, <1>1 DEF InOrder
  <2>2. <<>> \in Seq({}) /\ Len(<<>>) = 0 /\ ToSet(<<>>) = {} BY DEF ToSet
  <2> QED BY <1>0, <1>1, <2>1, <2>2
<1>2. ASSUME NEW x \in {0, 1}, S = {x} PROVE InOrder(S) \in Seq(S) /\ ToSet(InOrder(S)) = S /\ Len(InOrder(S)) = Cardinality(S)
  <2>1. Cardinality({x}) = 1 /\ {j \in {x} : j <= x} = {x} BY <1>0
  <2>2. \A k \in 1..1 : (CHOOSE i \in {x} : Cardinality({j \in {x} : j <= i}) = k) = x
    <3> SUFFICES ASSUME NEW k \in 1..1 PROVE (CHOOSE i \in {x} : Cardinality({j \in {x} : j <= i}) = k) = x OBVIOUS
    <3>1. \E i \in {x} : Cardinality({j \in {x} : j <= i}) = k BY <2>1
    <3> QED BY <3>1
  <2>3. InOrder(S) = [k \in 1..1 |-> x] BY <1>2, <2>1, <2>2 DEF InOrder
  <2> DEFINE one == [k \in 1..1 |-> x]
  <2>4. one \in Seq({x}) /\ Len(one) = 1 OBVIOUS
  <2>5. ToSet(one) = {x}
    <3>1. DOMAIN one = 1..1 /\ 1 \in 1..1 /\ \A k \in 1..1 : one[k] = x OBVIOUS
    <3> HIDE DEF one
    <3> QED BY <3>1 DEF ToSet
  <2> HIDE DEF one
  <2>6. InOrder(S) = one BY <2>3 DEF one
  <2> QED BY <1>2, <2>1, <2>4, <2>5, <2>6
<1>3. CASE S = {0, 1}
  <2> DEFINE At(k) == CHOOSE i \in {0, 1} : Cardinality({j \in {0, 1} : j <= i}) = k
  <2>1. \A k \in 1..2 : \E i \in {0, 1} : Cardinality({j \in {0, 1} : j <= i}) = k
    <3>1. \A k \in 1..2 : k = 1 \/ k = 2 OBVIOUS
    <3> QED BY <1>0, <3>1
  <2>2. \A k \in 1..2 : At(k) \in {0, 1} /\ Cardinality({j \in {0, 1} : j <= At(k)}) = k BY <2>1
  <2>3. At(1) = 0 /\ At(2) = 1
    <3> HIDE DEF At
    <3>1. 1 \in 1..2 /\ 2 \in 1..2 /\ 1 # 2 OBVIOUS
    <3> QED BY <1>0, <2>2, <3>1
  <2>4. InOrder(S) = [k \in 1..2 |-> At(k)] BY <1>0, <1>3 DEF InOrder
  <2> HIDE DEF At
  <2>5. InOrder(S) \in Seq({0, 1}) /\ Len(InOrder(S)) = 2 BY <2>2, <2>4
  <2>6. ToSet(InOrder(S)) = {At(k) : k \in 1..2} BY <2>4 DEF ToSet
  <2>7. \A k \in 1..2 : k = 1 \/ k = 2 OBVIOUS
  <2>8. 1 \in 1..2 /\ 2 \in 1..2 OBVIOUS
  <2>9. {At(k) : k \in 1..2} = {0, 1} BY <2>3, <2>7, <2>8
  <2> QED BY <1>0, <1>3, <2>5, <2>6, <2>9
<1> QED BY <1>1, <1>2, <1>3 DEF Indexes

\* A text, whatever the provider.
LEMMA TextFollows ==
  ASSUME NEW m \in Nat, NEW n, n = m + 1, NEW a \in Accs, NEW b, ~a.st.done,
         IsText(psSaid[n]), Says(a.st, a.out, m), b = Text(a, n)
  PROVE  Follows(a, b, n)
<1>1. b \in Accs /\ Says(b.st, b.out, n) BY TextApplied
<1>2. b.st.done = a.st.done
  <2>1. b = [a EXCEPT !.st = [a.st EXCEPT !.content = Append(@, n)], !.out = @ \o <<Shows("text", 0, n)>>]
    BY DEF Text, Sent
  <2>2. b.st = [a.st EXCEPT !.content = Append(@, n)] BY <2>1 DEF Accs
  <2> QED BY <2>2, AccTyped DEF States
<1>3. ~IsEnd(n) BY DEF IsText, IsEnd
<1> QED BY <1>1, <1>2, <1>3 DEF Follows

\* An event that changes nothing.
LEMMA NothingFollows ==
  ASSUME NEW m \in Nat, NEW n, n = m + 1, NEW a \in Accs, ~a.st.done, Says(a.st, a.out, m),
         ~IsText(psSaid[n]), ~IsPart(psSaid[n]), ~IsHead(psSaid[n]), ~IsEnd(n)
  PROVE  Follows(a, a, n)
<1>1. SameShown(a.out, a.out) BY DEF SameShown
<1>2. Says(a.st, a.out, n) BY <1>1, QuietApplied
<1> QED BY <1>2 DEF Follows

\* The end of the answer.
LEMMA EndFollows ==
  ASSUME NEW m \in Nat, NEW n, n = m + 1, NEW a \in Accs, NEW b, Says(a.st, a.out, m),
         IsEnd(n), b = [a EXCEPT !.st.done = TRUE]
  PROVE  Follows(a, b, n)
<1>1. n - 1 = m OBVIOUS
<1>2. b.st = [a.st EXCEPT !.done = TRUE] /\ b.out = a.out /\ b.err = a.err BY DEF Accs
<1>3. b.st.content = a.st.content /\ b.st.calls = a.st.calls /\ b.st.done = TRUE /\ b.st \in States
  <2>1. a.st \in States BY AccTyped
  <2>2. b.st = [a.st EXCEPT !.done = TRUE] BY <1>2
  <2> QED BY ONLY <2>1, <2>2 DEF States
<1>4. b \in Accs
  <2>1. b = [st |-> b.st, out |-> b.out, err |-> b.err] BY DEF Accs
  <2> QED BY <1>2, <1>3, <2>1, AccTyped DEF Accs
<1>5. Says(b.st, b.out, m) BY <1>2, <1>3 DEF Says
<1> QED BY <1>1, <1>3, <1>4, <1>5 DEF Follows

\* An error.
LEMMA ErrorFollows ==
  ASSUME NEW a \in Accs, NEW n, NEW b, b = [a EXCEPT !.err = TRUE]
  PROVE  Follows(a, b, n)
<1>1. b.st = a.st /\ b.out = a.out /\ b.err = TRUE /\ b = [st |-> b.st, out |-> b.out, err |-> b.err] BY DEF Accs
<1>2. b \in Accs BY <1>1, AccTyped DEF Accs
<1> QED BY <1>1, <1>2 DEF Follows

\* What a call's event puts to the call, and what it shows.
PutBy(a, b, i, g, m, n) ==
  /\ g.has = Known(i, n) /\ (g.started <=> Known(i, n) = Both)
  /\ g.args = IF IsPart(psSaid[n]) THEN Append(CallAt(a.st, i).args, n) ELSE CallAt(a.st, i).args
  /\ b = Put(a, i, g, PartShown(Started(a.out, i, Known(i, n) = Both /\ Known(i, m) # Both), i, n,
                                IsPart(psSaid[n]) /\ Known(i, n) = Both))

\* A call's event: what it brings is put to the call, the start is shown once all is known.
LEMMA CallFollows ==
  ASSUME Served, NEW m \in Nat, NEW n \in DOMAIN psSaid, n = m + 1, NEW a \in Accs, NEW b, NEW i \in Indexes,
         ~a.st.done, ~IsText(psSaid[n]), ~IsEnd(n), psSaid[n].i = i, i \in Begun(n),
         Says(a.st, a.out, m), NEW g \in Gathered, PutBy(a, b, i, g, m, n)
  PROVE  Follows(a, b, n)
<1> DEFINE mid == Started(a.out, i, Known(i, n) = Both /\ Known(i, m) # Both)
           out == PartShown(mid, i, n, IsPart(psSaid[n]) /\ Known(i, n) = Both)
<1>1. n \in Nat /\ m \in 0..Len(psSaid) BY EventAt
<1>2. out \in Seq(ShownDeltas)
  <2>1. Shows("start", i, 0) \in ShownDeltas /\ Shows("part", i, n) \in ShownDeltas BY <1>1, ToldIs, ShowsTyped
  <2>2. a.out \in Seq(ShownDeltas) BY AccTyped
  <2>3. mid \in Seq(ShownDeltas) BY <2>1, <2>2, AsAppend DEF Started
  <2> HIDE DEF mid
  <2> QED BY <2>1, <2>3, AsAppend DEF PartShown
<1>3. b = Put(a, i, g, out) BY DEF PutBy
<1> HIDE DEF out
<1>4. /\ b \in Accs /\ b.err = a.err /\ b.out = out /\ b.st.content = a.st.content /\ b.st.done = a.st.done
      /\ DOMAIN b.st.calls = DOMAIN a.st.calls \cup {i} /\ b.st.calls[i] = g
      /\ \A j \in DOMAIN a.st.calls : j # i => b.st.calls[j] = a.st.calls[j]
  BY <1>2, <1>3, PutIs
<1>5. i \notin Begun(m) => Parts(i, m) = {} BY <1>1, PartsOfBegun
<1>6. Says(b.st, b.out, n) BY <1>4, <1>5, CallApplied DEF out, PutBy
<1> QED BY <1>4, <1>6 DEF Follows

\* One of Anthropic's events.
OfAnthropic == psKind = "anthropic"

\* One event of Anthropic's server: what is gathered tells one event more.
LEMMA AnthropicFollows ==
  ASSUME Served, OfAnthropic, NEW m \in Nat, NEW n \in DOMAIN psSaid, n = m + 1, NEW a \in Accs,
         ~a.st.done, Says(a.st, a.out, m)
  PROVE  Follows(a, anthropic_event(a, psSaid[n], n), n)
<1> DEFINE e == psSaid[n]
           i == e.i
           b == anthropic_event(a, e, n)
<1>1. /\ e \in Events /\ n \in Nat /\ m \in 0..Len(psSaid) /\ i \in Indexes /\ e.has \in SUBSET Both /\ e.t \in Types
      /\ \A l \in 1..m : l \in 1..(n - 1)
  BY EventAt
<1>2. /\ e.t \notin {"call", "[DONE]"}
      /\ e.t = "part" => \E l \in 1..(n - 1) : psSaid[l].t = "start" /\ psSaid[l].i = e.i
      /\ e.t = "start" => e.has = Both /\ \A l \in 1..(n - 1) : ~(psSaid[l].t = "start" /\ psSaid[l].i = e.i)
  BY DEF Served, OfAnthropic
<1>3. DOMAIN a.st.calls = Begun(m) BY DEF Says
<1>4. CallAt(a.st, i) \in Gathered /\ CallAt(a.st, i).has = Known(i, m) /\ (CallAt(a.st, i).started <=> Known(i, m) = Both)
  BY <1>1, CallSaid
<1>5. \A l \in 1..m : l \in DOMAIN psSaid
  <2>1. psSaid \in Seq(Events) BY DEF Served
  <2> QED BY <1>1, <2>1
<1>6. \A l \in Heads(i, m) : l \in 1..(n - 1) /\ psSaid[l].t = "start" /\ psSaid[l].has = Both
  <2>1. \A l \in Heads(i, m) : l \in 1..m /\ psSaid[l].t \in {"start", "call"} BY DEF Heads
  <2>2. \A l \in 1..m : psSaid[l].t # "call" /\ (psSaid[l].t = "start" => psSaid[l].has = Both) BY <1>5 DEF Served, OfAnthropic
  <2> QED BY <1>1, <2>1, <2>2
<1>7. i \in Begun(m) => Known(i, m) = Both
  <2>1. i \in Begun(m) => Heads(i, m) # {} BY <1>1, NumbersBefore
  <2> QED BY <1>6, <2>1 DEF Known
<1> HIDE DEF b, i
<1>8. CASE e.t = "text"
  <2>1. IsText(e) /\ b = Text(a, n) BY <1>8 DEF IsText, b, anthropic_event
  <2> QED BY <2>1, TextFollows DEF b
<1>9. CASE e.t = "start"
  <2> DEFINE g == [NewCall EXCEPT !.has = e.has, !.started = TRUE]
  <2>1. i \notin Begun(m)
    <3>1. \A l \in Heads(i, m) : psSaid[l].i = e.i BY DEF Heads, i
    <3>2. Heads(i, m) = {} BY <1>2, <1>6, <1>9, <3>1
    <3> QED BY <1>1, <3>2, NumbersBefore
  <2>2. ~IsText(e) /\ ~IsEnd(n) /\ IsHead(e) /\ ~IsPart(e) BY <1>9 DEF IsText, IsEnd, IsHead, IsPart
  <2>3. e.has = Both /\ Known(i, m) = {} /\ CallAt(a.st, i) = NewCall
    <3>1. Heads(i, m) = {} BY <1>1, <2>1, NumbersBefore
    <3> QED BY <1>2, <1>3, <1>9, <2>1, <3>1, NumbersBefore DEF CallAt
  <2>4. Known(i, n) = Both /\ Known(i, m) # Both
    <3>1. Known(i, n) = Known(i, m) \cup e.has
      <4>1. e.i = i BY DEF i
      <4> QED BY <2>2, <4>1, SetsNext
    <3> QED BY <2>3, <3>1 DEF Both
  <2>5. i \in Begun(n)
    <3>1. Heads(i, n) = Heads(i, m) \cup {n}
      <4>1. e.i = i BY DEF i
      <4> QED BY <2>2, <4>1, SetsNext
    <3> QED BY <1>1, <3>1, NumbersBefore
  <2>6. g \in Gathered /\ g.has = Both /\ g.started = TRUE /\ g.args = <<>> /\ CallAt(a.st, i).args = <<>>
    <3>1. <<>> \in Seq(Nat) /\ Both \in SUBSET Both OBVIOUS
    <3>2. NewCall \in Gathered /\ NewCall.args = <<>> BY <3>1 DEF NewCall, Gathered
    <3>3. g.has = Both /\ g.started = TRUE /\ g.args = NewCall.args BY <2>3, <3>2 DEF Gathered
    <3>4. g \in Gathered BY <1>1, <3>2 DEF Gathered
    <3> QED BY <2>3, <3>2, <3>3, <3>4
  <2>7. a.out \o <<Shows("start", i, 0)>> = Append(a.out, Shows("start", i, 0))
    <3>1. a.out \in Seq(ShownDeltas) /\ Shows("start", i, 0) \in ShownDeltas BY <1>1, ToldIs, ShowsTyped, AccTyped
    <3> QED BY <3>1, AsAppend
  <2>8. b = Put(a, i, g, Append(a.out, Shows("start", i, 0)))
    <3>1. i \notin DOMAIN a.st.calls BY <1>3, <2>1
    <3>2. b = [a EXCEPT !.st = [a.st EXCEPT !.calls = With(a.st.calls, i, g)], !.out = a.out \o <<Shows("start", i, 0)>>]
      <4>1. a.st \in [content : Seq(Nat), calls : GatheredCalls, done : BOOLEAN] /\ a = [st |-> a.st, out |-> a.out, err |-> a.err]
        BY AccTyped DEF Accs, States
      <4> QED BY <1>9, <3>1, <4>1 DEF b, i, anthropic_event, Sent
    <3> QED BY <2>7, <3>2 DEF Put
  <2>9. b = Put(a, i, g, PartShown(Started(a.out, i, Known(i, n) = Both /\ Known(i, m) # Both), i, n, IsPart(e) /\ Known(i, n) = Both))
    BY <2>2, <2>4, <2>8 DEF Started, PartShown
  <2> HIDE DEF g
  <2>10. e.i = i BY DEF i
  <2>11. PutBy(a, b, i, g, m, n) BY <2>2, <2>4, <2>6, <2>9 DEF PutBy
  <2>12. Follows(a, b, n) BY <1>1, <2>2, <2>5, <2>6, <2>10, <2>11, CallFollows
  <2> QED BY <2>12 DEF b
<1>10. CASE e.t = "part"
  <2> DEFINE g == [a.st.calls[i] EXCEPT !.args = Append(@, n)]
  <2>1. i \in Begun(m)
    <3>1. PICK l \in 1..(n - 1) : psSaid[l].t = "start" /\ psSaid[l].i = i BY <1>2, <1>10 DEF i
    <3>2. l \in 1..m BY <3>1
    <3>3. l \in Heads(i, m) BY <3>1, <3>2 DEF Heads
    <3> QED BY <1>1, <3>3, NumbersBefore
  <2>2. ~IsText(e) /\ ~IsEnd(n) /\ ~IsHead(e) /\ IsPart(e) BY <1>10 DEF IsText, IsEnd, IsHead, IsPart
  <2>3. Known(i, n) = Known(i, m) /\ Heads(i, n) = Heads(i, m) BY <2>2, SetsNext
  <2>4. Known(i, n) = Both /\ Known(i, m) = Both /\ i \in Begun(n)
    <3>1. i \in Begun(n) BY <1>1, <2>1, <2>3, NumbersBefore
    <3> QED BY <1>7, <2>1, <2>3, <3>1
  <2>5. a.st.calls[i] = CallAt(a.st, i) BY <1>3, <2>1 DEF CallAt
  <2>6. g \in Gathered /\ g.has = Both /\ g.started = TRUE /\ g.args = Append(CallAt(a.st, i).args, n)
    <3>1. a.st.calls[i] \in Gathered /\ a.st.calls[i].has = Both /\ a.st.calls[i].started = TRUE /\ a.st.calls[i].args \in Seq(Nat)
      BY <1>3, <1>4, <2>1, <2>4, <2>5, AccTyped
    <3>2. Append(a.st.calls[i].args, n) \in Seq(Nat) BY <1>1, <3>1
    <3> QED BY <2>5, <3>1, <3>2 DEF Gathered
  <2>7. a.out \o <<Shows("part", i, n)>> = Append(a.out, Shows("part", i, n))
    <3>1. a.out \in Seq(ShownDeltas) /\ Shows("part", i, n) \in ShownDeltas BY <1>1, ToldIs, ShowsTyped, AccTyped
    <3> QED BY <3>1, AsAppend
  <2>8. b = Put(a, i, g, Append(a.out, Shows("part", i, n)))
    <3>1. i \in DOMAIN a.st.calls BY <1>3, <2>1
    <3>2. b = [a EXCEPT !.st = [a.st EXCEPT !.calls[i].args = Append(@, n)], !.out = a.out \o <<Shows("part", i, n)>>]
      BY <1>10, <3>1 DEF b, i, anthropic_event, Sent, Accs
    <3>3. [a.st EXCEPT !.calls[i].args = Append(@, n)] = [a.st EXCEPT !.calls = [a.st.calls EXCEPT ![i] = g]] OBVIOUS
    <3>4. [a.st.calls EXCEPT ![i] = g] = With(a.st.calls, i, g)
      <4>1. DOMAIN a.st.calls \cup {i} = DOMAIN a.st.calls BY <3>1
      <4> HIDE DEF g
      <4> QED BY <4>1 DEF With
    <3> QED BY <2>7, <3>2, <3>3, <3>4 DEF Put
  <2>9. b = Put(a, i, g, PartShown(Started(a.out, i, Known(i, n) = Both /\ Known(i, m) # Both), i, n, IsPart(e) /\ Known(i, n) = Both))
    BY <2>2, <2>4, <2>8 DEF Started, PartShown
  <2> HIDE DEF g
  <2>10. e.i = i BY DEF i
  <2>11. /\ g.has = Known(i, n) /\ (g.started <=> Known(i, n) = Both)
         /\ g.args = IF IsPart(e) THEN Append(CallAt(a.st, i).args, n) ELSE CallAt(a.st, i).args
    BY <2>2, <2>4, <2>6
  <2>12. g \in Gathered /\ i \in Indexes /\ i \in Begun(n) BY <1>1, <2>4, <2>6
  <2>13. PutBy(a, b, i, g, m, n) BY <2>9, <2>11 DEF PutBy
  <2>14. Follows(a, b, n) BY <2>2, <2>10, <2>12, <2>13, CallFollows
  <2> QED BY <2>14 DEF b
<1>11. CASE e.t = "end"
  <2>1. ~IsText(e) /\ ~IsEnd(n) /\ ~IsHead(e) /\ ~IsPart(e) BY <1>11 DEF IsText, IsEnd, IsHead, IsPart
  <2>2. CASE i \in DOMAIN a.st.calls /\ ~a.st.calls[i].ended
    <3> DEFINE g == [a.st.calls[i] EXCEPT !.ended = TRUE]
               x == Shows("end", i, 0)
    <3>1. /\ a.st.calls[i] \in Gathered /\ g \in Gathered /\ g.has = a.st.calls[i].has
          /\ g.args = a.st.calls[i].args /\ g.started = a.st.calls[i].started
      BY <2>2, AccTyped DEF Gathered
    <3>2. a.out \in Seq(ShownDeltas) /\ x \in ShownDeltas /\ x.d = "end" BY <1>1, ToldIs, ShowsTyped, AccTyped DEF Shows
    <3>3. <<x>> \in Seq(ShownDeltas) /\ Len(<<x>>) = 1 /\ \A k \in 1..1 : <<x>>[k] = x
      <4> HIDE DEF x
      <4> QED BY <3>2
    <3>4. SameShown(a.out, a.out \o <<x>>) /\ a.out \o <<x>> \in Seq(ShownDeltas)
      <4>1. \A k \in 1..Len(<<x>>) : <<x>>[k].d \notin Telling BY <3>2, <3>3 DEF Telling
      <4> HIDE DEF x
      <4>2. a.out \in Seq(ShownDeltas) /\ <<x>> \in Seq(ShownDeltas) BY <3>2, <3>3
      <4>3. a.out \o <<x>> \in Seq(ShownDeltas) BY <4>2
      <4> QED BY <4>1, <4>2, <4>3, MoreShown
    <3>5. b = Put(a, i, g, a.out \o <<x>>)
      <4>1. b = [a EXCEPT !.st = [a.st EXCEPT !.calls[i].ended = TRUE], !.out = a.out \o <<x>>]
        BY <1>11, <2>2 DEF b, i, anthropic_event, Sent, Accs
      <4>2. [a.st EXCEPT !.calls[i].ended = TRUE] = [a.st EXCEPT !.calls = [a.st.calls EXCEPT ![i] = g]] OBVIOUS
      <4>3. [a.st.calls EXCEPT ![i] = g] = With(a.st.calls, i, g)
        <5>1. DOMAIN a.st.calls \cup {i} = DOMAIN a.st.calls BY <2>2
        <5> HIDE DEF g
        <5> QED BY <5>1 DEF With
      <4> QED BY <4>1, <4>2, <4>3 DEF Put
    <3> HIDE DEF g, x
    <3>6. /\ b \in Accs /\ b.err = a.err /\ b.out = a.out \o <<x>> /\ b.st.content = a.st.content /\ b.st.done = a.st.done
          /\ DOMAIN b.st.calls = DOMAIN a.st.calls \cup {i} /\ b.st.calls[i] = g
          /\ \A j \in DOMAIN a.st.calls : j # i => b.st.calls[j] = a.st.calls[j]
      <4>1. a.out \o <<x>> \in Seq(ShownDeltas) /\ g \in Gathered /\ i \in Indexes BY <1>1, <3>1, <3>4
      <4> DEFINE out == a.out \o <<x>>
      <4>2. b = Put(a, i, g, out) BY <3>5
      <4> HIDE DEF out
      <4>3. out \in Seq(ShownDeltas) BY <4>1 DEF out
      <4>4. /\ b \in Accs /\ b.err = a.err /\ b.out = out /\ b.st.content = a.st.content /\ b.st.done = a.st.done
            /\ DOMAIN b.st.calls = DOMAIN a.st.calls \cup {i} /\ b.st.calls[i] = g
            /\ \A j \in DOMAIN a.st.calls : j # i => b.st.calls[j] = a.st.calls[j]
        BY <4>1, <4>2, <4>3, PutIs
      <4> QED BY <4>4 DEF out
    <3>7. /\ DOMAIN b.st.calls = DOMAIN a.st.calls /\ SameShown(a.out, b.out)
          /\ \A j \in DOMAIN a.st.calls : /\ b.st.calls[j].args = a.st.calls[j].args /\ b.st.calls[j].has = a.st.calls[j].has
                                          /\ b.st.calls[j].started = a.st.calls[j].started
      BY <2>2, <3>1, <3>4, <3>6
    <3>8. Says(b.st, b.out, n) BY <2>1, <3>6, <3>7, QuietApplied
    <3> QED BY <2>1, <3>6, <3>8 DEF Follows, b
  <2>3. CASE ~(i \in DOMAIN a.st.calls /\ ~a.st.calls[i].ended)
    <3>1. b = a BY <1>11, <2>3 DEF b, i, anthropic_event
    <3> QED BY <2>1, <3>1, NothingFollows DEF b
  <2> QED BY <2>2, <2>3
<1>12. CASE e.t = "message_stop"
  <2>1. b = [a EXCEPT !.st.done = TRUE] /\ IsEnd(n) BY <1>12 DEF b, anthropic_event, IsEnd
  <2> QED BY <2>1, EndFollows DEF b
<1>13. CASE e.t = "error"
  <2>1. b = [a EXCEPT !.err = TRUE] BY <1>13 DEF b, anthropic_event
  <2> QED BY <2>1, ErrorFollows DEF b
<1>14. CASE e.t \notin {"text", "start", "part", "end", "message_stop", "error"}
  <2>1. b = a BY <1>14 DEF b, anthropic_event
  <2>2. ~IsText(e) /\ ~IsEnd(n) /\ ~IsHead(e) /\ ~IsPart(e) BY <1>2, <1>14 DEF IsText, IsEnd, IsHead, IsPart
  <2> QED BY <2>1, <2>2, NothingFollows DEF b
<1> QED BY <1>8, <1>9, <1>10, <1>11, <1>12, <1>13, <1>14 DEF b

\* The calls that end, in order.
LEMMA EndsTyped ==
  ASSUME NEW open \in SUBSET Indexes, NEW ends, ends = [k \in 1..Cardinality(open) |-> Shows("end", InOrder(open)[k], 0)]
  PROVE  ends \in Seq(ShownDeltas) /\ \A k \in 1..Len(ends) : ends[k].d \notin Telling
<1>1. InOrder(open) \in Seq(open) /\ Len(InOrder(open)) = Cardinality(open) BY InOrderIs
<1>2. Cardinality(open) \in Nat /\ \A k \in 1..Cardinality(open) : InOrder(open)[k] \in Indexes BY <1>1
<1>3. \A j \in Indexes : Shows("end", j, 0) \in ShownDeltas /\ Shows("end", j, 0).d = "end"
  <2>1. 0 \in Nat OBVIOUS
  <2> QED BY <2>1, ToldIs, ShowsTyped DEF Shows
<1>4. \A k \in 1..Cardinality(open) : ends[k] \in ShownDeltas /\ ends[k].d = "end" BY <1>2, <1>3
<1>5. ends \in Seq(ShownDeltas) /\ Len(ends) = Cardinality(open)
  <2>1. ends = [k \in 1..Cardinality(open) |-> ends[k]] OBVIOUS
  <2> QED BY ONLY <1>2, <1>4, <2>1
<1> QED BY <1>4, <1>5 DEF Telling

\* An event that ends calls.
LEMMA EndsFollow ==
  ASSUME NEW m \in Nat, NEW n, n = m + 1, NEW a \in Accs, ~a.st.done, Says(a.st, a.out, m),
         ~IsText(psSaid[n]), ~IsPart(psSaid[n]), ~IsHead(psSaid[n]), ~IsEnd(n),
         NEW S, NEW ends \in Seq(ShownDeltas), \A k \in 1..Len(ends) : ends[k].d \notin Telling,
         NEW b, b = Sent(a, [a.st EXCEPT !.calls = Ended(@, S)], ends)
  PROVE  Follows(a, b, n)
<1> DEFINE f == Ended(a.st.calls, S)
           out == a.out \o ends
<1>1. a.st \in States /\ a.out \in Seq(ShownDeltas) BY AccTyped
<1>2. out \in Seq(ShownDeltas) /\ SameShown(a.out, out) BY <1>1, MoreShown
<1>3. /\ DOMAIN f = DOMAIN a.st.calls /\ f \in GatheredCalls
      /\ \A i \in DOMAIN a.st.calls : /\ f[i].args = a.st.calls[i].args /\ f[i].has = a.st.calls[i].has
                                      /\ f[i].started = a.st.calls[i].started
  <2>1. DOMAIN f = DOMAIN a.st.calls BY DEF Ended
  <2>2. \A i \in DOMAIN a.st.calls : f[i] = IF i \in S THEN [a.st.calls[i] EXCEPT !.ended = TRUE] ELSE a.st.calls[i]
    BY DEF Ended
  <2>3. f = [i \in DOMAIN f |-> f[i]] BY DEF Ended
  <2> HIDE DEF f
  <2>4. \A i \in DOMAIN a.st.calls : /\ f[i].args = a.st.calls[i].args /\ f[i].has = a.st.calls[i].has
                                      /\ f[i].started = a.st.calls[i].started /\ f[i] \in Gathered
    <3> SUFFICES ASSUME NEW i \in DOMAIN a.st.calls
                 PROVE  /\ f[i].args = a.st.calls[i].args /\ f[i].has = a.st.calls[i].has
                        /\ f[i].started = a.st.calls[i].started /\ f[i] \in Gathered
      OBVIOUS
    <3>1. a.st.calls[i] \in Gathered BY AccTyped
    <3> QED BY <2>2, <3>1 DEF Gathered
  <2>5. DOMAIN f \in SUBSET Indexes /\ f \in [DOMAIN f -> Gathered] BY <2>1, <2>3, <2>4, AccTyped
  <2> QED BY <2>1, <2>4, <2>5 DEF GatheredCalls
<1>4. b = [a EXCEPT !.st = [a.st EXCEPT !.calls = f], !.out = out] BY DEF Sent
<1> HIDE DEF f, out
<1>5. b.st = [a.st EXCEPT !.calls = f] /\ b.out = out /\ b.err = a.err /\ b = [st |-> b.st, out |-> b.out, err |-> b.err]
  BY <1>4 DEF Accs
<1>6. b.st \in States /\ b.st.calls = f /\ b.st.content = a.st.content /\ b.st.done = a.st.done BY <1>1, <1>3, <1>5 DEF States
<1>7. b \in Accs BY <1>2, <1>5, <1>6, AccTyped DEF Accs
<1>8. Says(b.st, b.out, n) BY <1>2, <1>3, <1>5, <1>6, <1>7, QuietApplied
<1> QED BY <1>6, <1>7, <1>8 DEF Follows

\* One of OpenAI's.
LEMMA OpenaiFollows ==
  ASSUME Served, ~OfAnthropic, NEW m \in Nat, NEW n \in DOMAIN psSaid, n = m + 1, NEW a \in Accs,
         ~a.st.done, Says(a.st, a.out, m)
  PROVE  Follows(a, openai_event(a, psSaid[n], n), n)
<1> DEFINE e == psSaid[n]
           i == e.i
           b == openai_event(a, e, n)
           was == CallAt(a.st, i)
<1>1. /\ e \in Events /\ n \in Nat /\ m \in 0..Len(psSaid) /\ i \in Indexes /\ e.has \in SUBSET Both /\ e.t \in Types
      /\ e.arg \in BOOLEAN
  BY EventAt
<1>2. e.t \notin {"start", "part", "message_stop"} BY DEF Served, OfAnthropic
<1>3. was \in Gathered /\ was.has = Known(i, m) /\ (was.started <=> Known(i, m) = Both) BY <1>1, CallSaid
<1> HIDE DEF b, i, was
<1>4. CASE e.t = "text"
  <2>1. IsText(e) /\ b = Text(a, n) BY <1>4 DEF IsText, b, openai_event
  <2> QED BY <2>1, TextFollows DEF b
<1>5. CASE e.t = "call"
  <2> DEFINE has == was.has \cup e.has
             starts == ~was.started /\ has = {"id", "name"}
             g == [was EXCEPT !.has = has, !.started = @ \/ starts, !.args = IF e.arg THEN Append(@, n) ELSE @]
             d1 == IF starts THEN <<Shows("start", i, 0)>> ELSE <<>>
             d2 == IF e.arg /\ g.started THEN <<Shows("part", i, n)>> ELSE <<>>
  <2>1. ~IsText(e) /\ ~IsEnd(n) /\ IsHead(e) /\ (IsPart(e) <=> e.arg) BY <1>5 DEF IsText, IsEnd, IsHead, IsPart
  <2>2. b = [a EXCEPT !.st = [a.st EXCEPT !.calls = With(a.st.calls, i, g)], !.out = a.out \o (d1 \o d2)]
    BY <1>5 DEF b, i, was, openai_event, Sent, Accs
  <2>3. Known(i, n) = has /\ i \in Begun(n)
    <3>1. e.i = i BY DEF i
    <3>2. Known(i, n) = Known(i, m) \cup e.has /\ Heads(i, n) = Heads(i, m) \cup {n} BY <2>1, <3>1, SetsNext
    <3> QED BY <1>1, <1>3, <3>2, NumbersBefore
  <2>4. starts <=> Known(i, n) = Both /\ Known(i, m) # Both BY <1>3, <2>3 DEF Both
  <2>5. /\ g \in Gathered /\ g.has = Known(i, n) /\ (g.started <=> Known(i, n) = Both)
        /\ g.args = IF IsPart(e) THEN Append(was.args, n) ELSE was.args
    <3>1. was.args \in Seq(Nat) /\ was.started \in BOOLEAN /\ was.ended \in BOOLEAN /\ was.has \in SUBSET Both BY <1>3 DEF Gathered
    <3>2. has \in SUBSET Both /\ starts \in BOOLEAN /\ (IF e.arg THEN Append(was.args, n) ELSE was.args) \in Seq(Nat)
      BY <1>1, <3>1
    <3> HIDE DEF has, starts
    <3>3. /\ g.has = has /\ g.started = (was.started \/ starts) /\ g.args = IF e.arg THEN Append(was.args, n) ELSE was.args
          /\ g \in Gathered
      BY <1>3, <3>1, <3>2 DEF Gathered
    <3>4. Known(i, m) = Both => Known(i, n) = Both
      <4>1. Known(i, m) \subseteq Known(i, n) /\ Known(i, n) \subseteq Both BY <1>3, <2>3, <3>2 DEF has
      <4> QED BY <4>1
    <3> QED BY <1>3, <2>1, <2>3, <2>4, <3>3, <3>4
  <2>6. a.out \o (d1 \o d2) = PartShown(Started(a.out, i, starts), i, n, IsPart(e) /\ Known(i, n) = Both)
    <3>1. (e.arg /\ g.started) <=> (IsPart(e) /\ Known(i, n) = Both) BY <2>1, <2>5
    <3>2. a.out \in Seq(ShownDeltas) BY AccTyped
    <3>3. Shows("start", i, 0) \in ShownDeltas /\ Shows("part", i, n) \in ShownDeltas BY <1>1, ToldIs, ShowsTyped
    <3> DEFINE x == Shows("start", i, 0)
               y == Shows("part", i, n)
               shows == e.arg /\ g.started
    <3> HIDE DEF x, y, starts, shows
    <3>4. d1 = IF starts THEN <<x>> ELSE <<>> BY DEF x
    <3>5. d2 = IF shows THEN <<y>> ELSE <<>> BY DEF y, shows
    <3> HIDE DEF d1, d2
    <3>6. /\ a.out \o (<<x>> \o <<y>>) = Append(Append(a.out, x), y) /\ a.out \o (<<x>> \o <<>>) = Append(a.out, x)
          /\ a.out \o (<<>> \o <<y>>) = Append(a.out, y) /\ a.out \o (<<>> \o <<>>) = a.out
      BY <3>2, <3>3 DEF x, y
    <3>7. /\ Started(a.out, i, starts) = IF starts THEN Append(a.out, x) ELSE a.out
          /\ \A s : PartShown(s, i, n, shows) = IF shows THEN Append(s, y) ELSE s
      BY DEF Started, PartShown, x, y
    <3>8. a.out \o (d1 \o d2) = PartShown(Started(a.out, i, starts), i, n, shows)
      <4>1. CASE starts /\ shows BY <3>4, <3>5, <3>6, <3>7, <4>1
      <4>2. CASE starts /\ ~shows BY <3>4, <3>5, <3>6, <3>7, <4>2
      <4>3. CASE ~starts /\ shows BY <3>4, <3>5, <3>6, <3>7, <4>3
      <4>4. CASE ~starts /\ ~shows BY <3>4, <3>5, <3>6, <3>7, <4>4
      <4> QED BY <4>1, <4>2, <4>3, <4>4
    <3> QED BY <3>1, <3>8 DEF shows
  <2>7. b = Put(a, i, g, PartShown(Started(a.out, i, Known(i, n) = Both /\ Known(i, m) # Both), i, n, IsPart(e) /\ Known(i, n) = Both))
    <3>1. Started(a.out, i, starts) = Started(a.out, i, Known(i, n) = Both /\ Known(i, m) # Both) BY <2>4 DEF Started
    <3> HIDE DEF starts, g, d1, d2
    <3> QED BY <2>2, <2>6, <3>1 DEF Put
  <2> HIDE DEF g
  <2>8. e.i = i BY DEF i
  <2>9. PutBy(a, b, i, g, m, n) BY <2>5, <2>7 DEF PutBy, was
  <2>10. Follows(a, b, n) BY <1>1, <2>1, <2>3, <2>5, <2>8, <2>9, CallFollows
  <2> QED BY <2>10 DEF b
<1>6. CASE e.t = "tool_calls"
  <2> DEFINE open == {j \in DOMAIN a.st.calls : a.st.calls[j].started /\ ~a.st.calls[j].ended}
             ends == [k \in 1..Cardinality(open) |-> Shows("end", InOrder(open)[k], 0)]
  <2>1. ~IsText(e) /\ ~IsEnd(n) /\ ~IsHead(e) /\ ~IsPart(e) BY <1>6 DEF IsText, IsEnd, IsHead, IsPart
  <2>2. b = Sent(a, [a.st EXCEPT !.calls = Ended(@, open)], ends) BY <1>6 DEF b, openai_event
  <2>3. open \in SUBSET Indexes BY AccTyped
  <2> HIDE DEF open
  <2>4. ends \in Seq(ShownDeltas) /\ \A k \in 1..Len(ends) : ends[k].d \notin Telling BY <2>3, EndsTyped
  <2> HIDE DEF ends
  <2>5. Follows(a, b, n) BY <2>1, <2>2, <2>4, EndsFollow
  <2> QED BY <2>5 DEF b
<1>7. CASE e.t = "[DONE]"
  <2>1. b = [a EXCEPT !.st.done = TRUE] /\ IsEnd(n) BY <1>7 DEF b, openai_event, IsEnd
  <2> QED BY <2>1, EndFollows DEF b
<1>8. CASE e.t \notin {"text", "call", "tool_calls", "[DONE]"}
  <2>1. b = a BY <1>8 DEF b, openai_event
  <2>2. ~IsText(e) /\ ~IsEnd(n) /\ ~IsHead(e) /\ ~IsPart(e) BY <1>2, <1>8 DEF IsText, IsEnd, IsHead, IsPart
  <2> QED BY <2>1, <2>2, NothingFollows DEF b
<1> QED BY <1>4, <1>5, <1>6, <1>7, <1>8 DEF b

\* Whatever was gathered, an event leaves something gathered.
LEMMA SentTyped ==
  ASSUME NEW a \in Accs, NEW state \in States, NEW more \in Seq(ShownDeltas)
  PROVE  Sent(a, state, more) \in Accs
<1>1. a.out \in Seq(ShownDeltas) BY AccTyped
<1>2. a.out \o more \in Seq(ShownDeltas) BY <1>1
<1> DEFINE out == a.out \o more
<1>3. Sent(a, state, more) = [a EXCEPT !.st = state, !.out = out] BY DEF Sent
<1> HIDE DEF out
<1>4. out \in Seq(ShownDeltas) BY <1>2 DEF out
<1> QED BY <1>3, <1>4 DEF Accs

\* The calls that have been gathered.
LEMMA CallsTyped ==
  ASSUME NEW a \in Accs, NEW i \in Indexes, NEW g \in Gathered
  PROVE  /\ [a.st EXCEPT !.calls = With(@, i, g)] \in States
         /\ i \in DOMAIN a.st.calls => [a.st EXCEPT !.calls[i] = g] \in States
<1>1. a.st \in States /\ DOMAIN a.st.calls \in SUBSET Indexes /\ \A j \in DOMAIN a.st.calls : a.st.calls[j] \in Gathered
  BY AccTyped
<1>2. a.st.calls \in GatheredCalls BY <1>1 DEF States
<1>3. With(a.st.calls, i, g) \in GatheredCalls
  <2> DEFINE f == With(a.st.calls, i, g)
             D == DOMAIN a.st.calls \cup {i}
  <2>1. f = [j \in D |-> IF j = i THEN g ELSE a.st.calls[j]] BY DEF With
  <2>2. D \in SUBSET Indexes BY <1>1
  <2>3. \A j \in D : (IF j = i THEN g ELSE a.st.calls[j]) \in Gathered BY <1>1
  <2> HIDE DEF D
  <2>4. f \in [D -> Gathered] BY <2>1, <2>3
  <2> QED BY <2>2, <2>4 DEF GatheredCalls
<1>4. [a.st EXCEPT !.calls = With(@, i, g)] \in States BY <1>1, <1>3 DEF States
<1>5. ASSUME i \in DOMAIN a.st.calls PROVE [a.st EXCEPT !.calls[i] = g] \in States
  <2>1. [a.st.calls EXCEPT ![i] = g] = With(a.st.calls, i, g)
    <3>1. DOMAIN a.st.calls \cup {i} = DOMAIN a.st.calls BY <1>5
    <3> QED BY <3>1 DEF With
  <2>2. [a.st EXCEPT !.calls[i] = g] = [a.st EXCEPT !.calls = [a.st.calls EXCEPT ![i] = g]] OBVIOUS
  <2> QED BY <1>4, <2>1, <2>2
<1> QED BY <1>4, <1>5

\* Deltas put behind those shown.
LEMMA ShownTyped ==
  ASSUME NEW d \in Told, NEW i \in Indexes, NEW n \in Nat
  PROVE  <<Shows(d, i, n)>> \in Seq(ShownDeltas) /\ <<Shows(d, i, 0)>> \in Seq(ShownDeltas) /\ <<>> \in Seq(ShownDeltas)
<1>1. Shows(d, i, n) \in ShownDeltas /\ Shows(d, i, 0) \in ShownDeltas BY ShowsTyped
<1> QED BY <1>1

\* An event that shows no more than its own delta keeps the types.
LEMMA PlainTyped ==
  ASSUME NEW a \in Accs, NEW n \in Nat
  PROVE  [a EXCEPT !.st.done = TRUE] \in Accs /\ [a EXCEPT !.err = TRUE] \in Accs /\ Text(a, n) \in Accs
<1>1. a.st \in States /\ a.st.content \in Seq(Nat) BY AccTyped
<1>2. [a.st EXCEPT !.done = TRUE] \in States BY <1>1 DEF States
<1>3. [a EXCEPT !.st.done = TRUE] = [a EXCEPT !.st = [a.st EXCEPT !.done = TRUE]] BY DEF Accs
<1>4. [a EXCEPT !.st.done = TRUE] \in Accs BY <1>2, <1>3 DEF Accs
<1>5. [a EXCEPT !.err = TRUE] \in Accs BY DEF Accs
<1>6. Text(a, n) \in Accs
  <2>1. Append(a.st.content, n) \in Seq(Nat) BY <1>1
  <2>2. [a.st EXCEPT !.content = Append(@, n)] \in States BY <1>1, <2>1 DEF States
  <2>3. 0 \in Indexes BY DEF Indexes
  <2> QED BY <2>2, <2>3, ToldIs, ShownTyped, SentTyped DEF Text
<1> QED BY <1>4, <1>5, <1>6

\* apply_anthropic_event keeps the types.
LEMMA AnthropicTyped ==
  ASSUME NEW a \in Accs, NEW e \in Events, NEW n \in Nat
  PROVE  anthropic_event(a, e, n) \in Accs
<1> DEFINE b == anthropic_event(a, e, n)
<1>1. e.i \in Indexes /\ e.has \in SUBSET Both BY DEF Events
<1>2. a.st \in States /\ \A i \in DOMAIN a.st.calls : a.st.calls[i] \in Gathered /\ a.st.calls[i].args \in Seq(Nat) BY AccTyped
<1> HIDE DEF b
<1>3. CASE e.t = "text"
  <2>1. b = Text(a, n) BY <1>3 DEF b, anthropic_event
  <2> QED BY <2>1, PlainTyped DEF b
<1>4. CASE e.t = "start"
  <2> DEFINE g == [NewCall EXCEPT !.has = e.has, !.started = TRUE]
  <2>1. g \in Gathered
    <3>1. NewCall \in Gathered
      <4>1. {} \in SUBSET Both /\ <<>> \in Seq(Nat) OBVIOUS
      <4> QED BY <4>1 DEF NewCall, Gathered
    <3> QED BY <1>1, <3>1 DEF Gathered
  <2> HIDE DEF g
  <2>2. [a.st EXCEPT !.calls = With(@, e.i, g)] \in States BY <1>1, <2>1, CallsTyped
  <2>3. [a.st EXCEPT !.calls = IF e.i \in DOMAIN a.st.calls THEN @ ELSE With(@, e.i, g)] \in States
    <3>1. CASE e.i \in DOMAIN a.st.calls BY <1>2, <3>1 DEF States
    <3>2. CASE e.i \notin DOMAIN a.st.calls BY <2>2, <3>2
    <3> QED BY <3>1, <3>2
  <2>4. b = Sent(a, [a.st EXCEPT !.calls = IF e.i \in DOMAIN a.st.calls THEN @ ELSE With(@, e.i, g)], <<Shows("start", e.i, 0)>>)
    BY <1>4 DEF b, g, anthropic_event
  <2>5. <<Shows("start", e.i, 0)>> \in Seq(ShownDeltas) BY <1>1, ToldIs, ShownTyped
  <2> QED BY <2>3, <2>4, <2>5, SentTyped DEF b
<1>5. CASE e.t = "part" /\ e.i \in DOMAIN a.st.calls
  <2> DEFINE g == [a.st.calls[e.i] EXCEPT !.args = Append(@, n)]
  <2>1. g \in Gathered
    <3>1. a.st.calls[e.i] \in Gathered /\ a.st.calls[e.i].args \in Seq(Nat) BY <1>2, <1>5
    <3>2. Append(a.st.calls[e.i].args, n) \in Seq(Nat) BY <3>1
    <3> QED BY <3>1, <3>2 DEF Gathered
  <2>2. b = Sent(a, [a.st EXCEPT !.calls[e.i] = g], <<Shows("part", e.i, n)>>) BY <1>5 DEF b, anthropic_event
  <2> HIDE DEF g
  <2>3. [a.st EXCEPT !.calls[e.i] = g] \in States BY <1>1, <1>5, <2>1, CallsTyped
  <2>4. <<Shows("part", e.i, n)>> \in Seq(ShownDeltas) BY <1>1, ToldIs, ShownTyped
  <2> QED BY <2>2, <2>3, <2>4, SentTyped DEF b
<1>6. CASE e.t = "end" /\ e.i \in DOMAIN a.st.calls /\ ~a.st.calls[e.i].ended
  <2> DEFINE g == [a.st.calls[e.i] EXCEPT !.ended = TRUE]
  <2>1. g \in Gathered
    <3>1. a.st.calls[e.i] \in Gathered BY <1>2, <1>6
    <3> QED BY <3>1 DEF Gathered
  <2>2. b = Sent(a, [a.st EXCEPT !.calls[e.i] = g], <<Shows("end", e.i, 0)>>) BY <1>6 DEF b, anthropic_event
  <2> HIDE DEF g
  <2>3. [a.st EXCEPT !.calls[e.i] = g] \in States BY <1>1, <1>6, <2>1, CallsTyped
  <2>4. <<Shows("end", e.i, 0)>> \in Seq(ShownDeltas) BY <1>1, ToldIs, ShownTyped
  <2> QED BY <2>2, <2>3, <2>4, SentTyped DEF b
<1>7. CASE e.t = "message_stop"
  <2>1. b = [a EXCEPT !.st.done = TRUE] BY <1>7 DEF b, anthropic_event
  <2> QED BY <2>1, PlainTyped DEF b
<1>8. CASE e.t = "error"
  <2>1. b = [a EXCEPT !.err = TRUE] BY <1>8 DEF b, anthropic_event
  <2> QED BY <2>1, PlainTyped DEF b
<1>9. CASE /\ e.t \notin {"text", "start", "message_stop", "error"}
           /\ ~(e.t = "part" /\ e.i \in DOMAIN a.st.calls)
           /\ ~(e.t = "end" /\ e.i \in DOMAIN a.st.calls /\ ~a.st.calls[e.i].ended)
  <2>1. b = a BY <1>9 DEF b, anthropic_event
  <2> QED BY <2>1 DEF b
<1> QED BY <1>3, <1>4, <1>5, <1>6, <1>7, <1>8, <1>9 DEF b

\* ... and so do the calls that end.
LEMMA EndedTyped ==
  ASSUME NEW a \in Accs, NEW S
  PROVE  [a.st EXCEPT !.calls = Ended(@, S)] \in States
<1> DEFINE f == Ended(a.st.calls, S)
<1>1. DOMAIN f = DOMAIN a.st.calls BY DEF Ended
<1>2. \A i \in DOMAIN a.st.calls : f[i] = IF i \in S THEN [a.st.calls[i] EXCEPT !.ended = TRUE] ELSE a.st.calls[i]
  BY DEF Ended
<1>3. f = [i \in DOMAIN f |-> f[i]] BY DEF Ended
<1> HIDE DEF f
<1>4. \A i \in DOMAIN a.st.calls : f[i] \in Gathered
  <2> SUFFICES ASSUME NEW i \in DOMAIN a.st.calls PROVE f[i] \in Gathered OBVIOUS
  <2>1. a.st.calls[i] \in Gathered BY AccTyped
  <2> QED BY <1>2, <2>1 DEF Gathered
<1>5. DOMAIN f \in SUBSET Indexes /\ f \in [DOMAIN f -> Gathered] BY <1>1, <1>3, <1>4, AccTyped
<1>6. f \in GatheredCalls BY <1>5 DEF GatheredCalls
<1>7. a.st \in States BY AccTyped
<1> QED BY <1>6, <1>7 DEF f, States

\* apply_openai_event keeps the types.
LEMMA OpenaiTyped ==
  ASSUME NEW a \in Accs, NEW e \in Events, NEW n \in Nat
  PROVE  openai_event(a, e, n) \in Accs
<1> DEFINE b == openai_event(a, e, n)
           was == CallAt(a.st, e.i)
<1>1. e.i \in Indexes /\ e.has \in SUBSET Both /\ e.arg \in BOOLEAN BY DEF Events
<1>2. was \in Gathered
  <2>1. NewCall \in Gathered
    <3>1. {} \in SUBSET Both /\ <<>> \in Seq(Nat) OBVIOUS
    <3> QED BY <3>1 DEF NewCall, Gathered
  <2> QED BY <2>1, AccTyped DEF CallAt
<1> HIDE DEF b, was
<1>3. CASE e.t = "text"
  <2>1. b = Text(a, n) BY <1>3 DEF b, openai_event
  <2> QED BY <2>1, PlainTyped DEF b
<1>4. CASE e.t = "call"
  <2> DEFINE has == was.has \cup e.has
             starts == ~was.started /\ has = {"id", "name"}
             g == [was EXCEPT !.has = has, !.started = @ \/ starts, !.args = IF e.arg THEN Append(@, n) ELSE @]
             d1 == IF starts THEN <<Shows("start", e.i, 0)>> ELSE <<>>
             d2 == IF e.arg /\ g.started THEN <<Shows("part", e.i, n)>> ELSE <<>>
  <2>1. b = Sent(a, [a.st EXCEPT !.calls = With(@, e.i, g)], d1 \o d2) BY <1>4 DEF b, was, openai_event
  <2>2. g \in Gathered
    <3>1. was.args \in Seq(Nat) /\ was.started \in BOOLEAN /\ was.ended \in BOOLEAN /\ was.has \in SUBSET Both BY <1>2 DEF Gathered
    <3>2. has \in SUBSET Both /\ starts \in BOOLEAN /\ (IF e.arg THEN Append(was.args, n) ELSE was.args) \in Seq(Nat)
      BY <1>1, <3>1
    <3> HIDE DEF has, starts
    <3> QED BY <1>2, <3>1, <3>2 DEF Gathered
  <2>3. d1 \o d2 \in Seq(ShownDeltas)
    <3>1. /\ <<Shows("start", e.i, 0)>> \in Seq(ShownDeltas) /\ <<Shows("part", e.i, n)>> \in Seq(ShownDeltas)
          /\ <<>> \in Seq(ShownDeltas)
      BY <1>1, ToldIs, ShownTyped
    <3> HIDE DEF starts, g
    <3>2. d1 \in Seq(ShownDeltas) /\ d2 \in Seq(ShownDeltas) BY <3>1
    <3> HIDE DEF d1, d2
    <3> QED BY <3>2
  <2> HIDE DEF g, d1, d2
  <2>4. [a.st EXCEPT !.calls = With(@, e.i, g)] \in States BY <1>1, <2>2, CallsTyped
  <2> QED BY <2>1, <2>3, <2>4, SentTyped DEF b
<1>5. CASE e.t = "tool_calls"
  <2> DEFINE open == {j \in DOMAIN a.st.calls : a.st.calls[j].started /\ ~a.st.calls[j].ended}
             ends == [k \in 1..Cardinality(open) |-> Shows("end", InOrder(open)[k], 0)]
  <2>1. b = Sent(a, [a.st EXCEPT !.calls = Ended(@, open)], ends) BY <1>5 DEF b, openai_event
  <2>2. open \in SUBSET Indexes BY AccTyped
  <2> HIDE DEF open
  <2>3. ends \in Seq(ShownDeltas) BY <2>2, EndsTyped
  <2> HIDE DEF ends
  <2>4. [a.st EXCEPT !.calls = Ended(@, open)] \in States BY EndedTyped
  <2> QED BY <2>1, <2>3, <2>4, SentTyped DEF b
<1>6. CASE e.t = "[DONE]"
  <2>1. b = [a EXCEPT !.st.done = TRUE] BY <1>6 DEF b, openai_event
  <2> QED BY <2>1, PlainTyped DEF b
<1>7. CASE e.t \notin {"text", "call", "tool_calls", "[DONE]"}
  <2>1. b = a BY <1>7 DEF b, openai_event
  <2> QED BY <2>1 DEF b
<1> QED BY <1>3, <1>4, <1>5, <1>6, <1>7 DEF b

\* Pieces of lines, the decoder with what it has put out, and the whole data of an event.
WirePieces == [field : {"comment", "event", "data", "blank"}, n : Nat, last : BOOLEAN]
DataLines == [n : Nat, whole : BOOLEAN]
Decs == [buffer : Seq(WirePieces), event : BOOLEAN, data : Seq(DataLines), out : Seq(Seq(DataLines))]
Data(n) == <<[n |-> n, whole |-> TRUE]>>
NoEvent(d, buffer, data) == d.buffer = buffer /\ ~d.event /\ d.data = data
HasEvent(d, buffer, data) == d.buffer = buffer /\ d.event /\ d.data = data

\* The first piece of a line.
LEMMA PieceHalf ==
  ASSUME NEW d \in Decs, NEW p \in WirePieces, ~p.last, NEW b, b = Piece(d, p)
  PROVE  b \in Decs /\ b.out = d.out /\ (d.buffer = <<>> => b.buffer = <<p>>) /\ b.event = d.event /\ b.data = d.data
<1>1. b = [d EXCEPT !.buffer = Append(@, p)] BY DEF Piece
<1>2. d.buffer \in Seq(WirePieces) BY DEF Decs
<1>3. Append(d.buffer, p) \in Seq(WirePieces) BY <1>2
<1>4. b \in Decs BY <1>1, <1>3 DEF Decs
<1>5. b.buffer = Append(d.buffer, p) /\ b.event = d.event /\ b.data = d.data /\ b.out = d.out BY <1>1 DEF Decs
<1>6. d.buffer = <<>> => Append(d.buffer, p) = <<p>> OBVIOUS
<1> QED BY <1>4, <1>5, <1>6

\* The last piece of a line with a field.
LEMMA PieceFull ==
  ASSUME NEW d \in Decs, NEW p \in WirePieces, p.last, p.field # "blank", NEW b, b = Piece(d, p)
  PROVE  /\ b \in Decs /\ b.out = d.out
         /\ b.buffer = <<>> /\ (b.event <=> d.event \/ p.field = "event")
         /\ p.field # "data" => b.data = d.data
         /\ p.field = "data" /\ d.buffer # <<>> => b.data = Append(d.data, [n |-> p.n, whole |-> TRUE])
<1> DEFINE line == [d EXCEPT !.buffer = <<>>]
           whole == d.buffer # <<>>
           x == [n |-> p.n, whole |-> whole]
<1>1. b = Field(line, p.field, p.n, whole) BY DEF Piece
<1>2. /\ line \in Decs /\ line.buffer = <<>> /\ line.event = d.event /\ line.data = d.data /\ line.out = d.out
      /\ d.event \in BOOLEAN /\ d.data \in Seq(DataLines)
  <2>1. <<>> \in Seq(WirePieces) OBVIOUS
  <2> QED BY <2>1 DEF Decs
<1>3. x \in DataLines /\ p.n \in Nat BY DEF WirePieces, DataLines
<1>4. Append(d.data, x) \in Seq(DataLines) BY <1>2, <1>3
<1> HIDE DEF line, whole
<1>5. CASE p.field = "event"
  <2>1. b = [line EXCEPT !.event = TRUE] BY <1>1, <1>5 DEF Field
  <2>2. b \in Decs /\ b.buffer = <<>> /\ b.event = TRUE /\ b.data = d.data /\ b.out = d.out BY <1>2, <2>1 DEF Decs
  <2> QED BY <1>2, <1>5, <2>2
<1>6. CASE p.field = "data"
  <2>1. b = [line EXCEPT !.data = Append(@, x)] BY <1>1, <1>6 DEF Field
  <2>2. b \in Decs /\ b.buffer = <<>> /\ b.event = d.event /\ b.data = Append(d.data, x) /\ b.out = d.out
    BY <1>2, <1>4, <2>1 DEF Decs
  <2>3. d.buffer # <<>> => x = [n |-> p.n, whole |-> TRUE] BY DEF whole
  <2> QED BY <1>2, <1>6, <2>2, <2>3
<1>7. CASE p.field \notin {"event", "data"}
  <2>1. b = line BY <1>1, <1>7 DEF Field
  <2> QED BY <1>2, <1>7, <2>1
<1> QED BY <1>5, <1>6, <1>7

\* What an event boundary puts out.
LEMMA Flushed ==
  ASSUME NEW d \in Decs, NEW b, b = flush_event(d)
  PROVE  /\ b \in Decs
         /\ ~d.event /\ d.data = <<>> => b = d
         /\ d.event \/ d.data # <<>> => NoEvent(b, d.buffer, <<>>) /\ b.out = Append(d.out, d.data)
<1>1. CASE ~d.event /\ d.data = <<>> BY <1>1 DEF flush_event
<1>2. CASE ~(~d.event /\ d.data = <<>>)
  <2>1. b = [d EXCEPT !.out = Append(@, d.data), !.event = FALSE, !.data = <<>>] BY <1>2 DEF flush_event
  <2>2. d.out \in Seq(Seq(DataLines)) /\ d.data \in Seq(DataLines) BY DEF Decs
  <2>3. Append(d.out, d.data) \in Seq(Seq(DataLines)) /\ <<>> \in Seq(DataLines) BY <2>2
  <2>4. b \in Decs /\ b.buffer = d.buffer /\ b.event = FALSE /\ b.data = <<>> /\ b.out = Append(d.out, d.data)
    BY <2>1, <2>3 DEF Decs
  <2> QED BY <1>2, <2>4 DEF NoEvent
<1> QED BY <1>1, <1>2

\* A blank line.
LEMMA PieceBlank ==
  ASSUME NEW d \in Decs, NEW p \in WirePieces, p.last, p.field = "blank", NEW b, b = Piece(d, p)
  PROVE  /\ b \in Decs
         /\ ~d.event /\ d.data = <<>> => NoEvent(b, <<>>, <<>>) /\ b.out = d.out
         /\ d.event \/ d.data # <<>> => NoEvent(b, <<>>, <<>>) /\ b.out = Append(d.out, d.data)
<1> DEFINE line == [d EXCEPT !.buffer = <<>>]
<1>1. b = flush_event(line) BY DEF Piece
<1>2. /\ line \in Decs /\ line.buffer = <<>> /\ line.event = d.event /\ line.data = d.data /\ line.out = d.out
      /\ d.event \in BOOLEAN
  <2>1. <<>> \in Seq(WirePieces) OBVIOUS
  <2> QED BY <2>1 DEF Decs
<1> HIDE DEF line
<1>3. /\ b \in Decs
      /\ ~line.event /\ line.data = <<>> => b = line
      /\ line.event \/ line.data # <<>> => NoEvent(b, line.buffer, <<>>) /\ b.out = Append(line.out, line.data)
  BY <1>1, <1>2, Flushed
<1> QED BY <1>2, <1>3 DEF NoEvent

\* A decoder keeps its types through a piece of the stream.
LEMMA PieceTyped ==
  ASSUME NEW d \in Decs, NEW p \in WirePieces
  PROVE  Piece(d, p) \in Decs
BY PieceHalf, PieceFull, PieceBlank

\* The pieces of an event.
CommentField == "comment"
EventField == "event"
DataField == "data"
Fields == {CommentField, EventField, DataField}
Half(field, n) == [field |-> field, n |-> n, last |-> FALSE]
Full(field, n) == [field |-> field, n |-> n, last |-> TRUE]
Blank == Full("blank", 0)
Silent(n) == psSaid[n].t = "comment"
PiecesOf(n) == Lines(psKind, psSaid[n], n) \o <<[field |-> "blank", n |-> 0, last |-> TRUE]>>
Size(n) == IF ~Silent(n) /\ OfAnthropic THEN 5 ELSE 3

\* Joined tuples.
LEMMA ThreeJoined ==
  ASSUME NEW S, NEW x \in S, NEW y \in S, NEW z \in S
  PROVE  <<x, y>> \o <<z>> = <<x, y, z>> /\ <<x, y, z>> \in Seq(S) /\ Len(<<x, y, z>>) = 3
<1> DEFINE a == <<x, y>> \o <<z>>
           b == <<x, y, z>>
<1>1. a \in Seq(S) /\ Len(a) = 3 /\ b \in Seq(S) /\ Len(b) = 3 OBVIOUS
<1>2. a[1] = b[1] /\ a[2] = b[2] /\ a[3] = b[3] OBVIOUS
<1>3. \A i \in 1..3 : i = 1 \/ i = 2 \/ i = 3 OBVIOUS
<1> HIDE DEF a, b
<1>4. \A i \in 1..Len(a) : a[i] = b[i] BY <1>1, <1>2, <1>3
<1>5. a = b BY <1>1, <1>4, SeqEqual
<1> QED BY <1>1, <1>5 DEF a, b

\* Five sequences in one.
LEMMA FiveJoined ==
  ASSUME NEW S, NEW x \in S, NEW y \in S, NEW z \in S, NEW w \in S, NEW v \in S
  PROVE  (<<x, y>> \o <<z, w>>) \o <<v>> = <<x, y, z, w, v>> /\ <<x, y, z, w, v>> \in Seq(S) /\ Len(<<x, y, z, w, v>>) = 5
<1> DEFINE a == (<<x, y>> \o <<z, w>>) \o <<v>>
             b == <<x, y, z, w, v>>
<1>1. a \in Seq(S) /\ Len(a) = 5 /\ b \in Seq(S) /\ Len(b) = 5 OBVIOUS
<1>2. a[1] = b[1] /\ a[2] = b[2] /\ a[3] = b[3] /\ a[4] = b[4] /\ a[5] = b[5] OBVIOUS
<1>3. \A i \in 1..5 : i = 1 \/ i = 2 \/ i = 3 \/ i = 4 \/ i = 5 OBVIOUS
<1> HIDE DEF a, b
<1>4. \A i \in 1..Len(a) : a[i] = b[i] BY <1>1, <1>2, <1>3
<1>5. a = b BY <1>1, <1>4, SeqEqual
<1> QED BY <1>1, <1>5 DEF a, b

Quiet(e) == e.t = "comment"
ByAnthropic(kind) == kind = "anthropic"
\* The pieces a line is written in.
LEMMA FieldsRead ==
  ASSUME NEW n \in Nat
  PROVE  /\ \A f \in Fields :
              /\ Half(f, n) \in WirePieces /\ ~Half(f, n).last /\ Half(f, n).field = f /\ Half(f, n).n = n
              /\ Full(f, n) \in WirePieces /\ Full(f, n).last /\ Full(f, n).field = f /\ Full(f, n).n = n
              /\ Full(f, n).field # "blank"
         /\ Blank \in WirePieces /\ Blank.last /\ Blank.field = "blank"
BY DEF Half, Full, Blank, WirePieces, Fields, CommentField, EventField, DataField

\* The pieces of an event's lines.
LEMMA LinesAre ==
  ASSUME NEW n \in Nat, NEW kind, NEW e, NEW w, w = Lines(kind, e, n) \o <<[field |-> "blank", n |-> 0, last |-> TRUE]>>
  PROVE  /\ w = IF Quiet(e) THEN <<Half(CommentField, n), Full(CommentField, n), Blank>>
                ELSE IF ByAnthropic(kind) THEN <<Half(EventField, n), Full(EventField, n), Half(DataField, n), Full(DataField, n), Blank>>
                ELSE <<Half(DataField, n), Full(DataField, n), Blank>>
         /\ Len(w) = IF ~Quiet(e) /\ ByAnthropic(kind) THEN 5 ELSE 3
         /\ w \in Seq(WirePieces) /\ Lines(kind, e, n) \in Seq(WirePieces)
<1>1. \A f : Line(f, n) = <<Half(f, n), Full(f, n)>> BY DEF Line, Half, Full
<1>2. Lines(kind, e, n) = IF Quiet(e) THEN Line(CommentField, n)
                          ELSE IF ByAnthropic(kind) THEN Line(EventField, n) \o Line(DataField, n)
                          ELSE Line(DataField, n)
  BY DEF Lines, Quiet, ByAnthropic, CommentField, EventField, DataField
<1> DEFINE c1 == Half(CommentField, n)
           c2 == Full(CommentField, n)
           e1 == Half(EventField, n)
           e2 == Full(EventField, n)
           d1 == Half(DataField, n)
           d2 == Full(DataField, n)
<1>3. w = Lines(kind, e, n) \o <<Blank>> BY DEF Blank, Full
<1>4. /\ c1 \in WirePieces /\ c2 \in WirePieces /\ e1 \in WirePieces /\ e2 \in WirePieces
      /\ d1 \in WirePieces /\ d2 \in WirePieces /\ Blank \in WirePieces
  BY FieldsRead DEF Fields
<1>5. Lines(kind, e, n) = IF Quiet(e) THEN <<c1, c2>> ELSE IF ByAnthropic(kind) THEN <<e1, e2>> \o <<d1, d2>> ELSE <<d1, d2>>
  <2>1. Line(CommentField, n) = <<c1, c2>> /\ Line(EventField, n) = <<e1, e2>> /\ Line(DataField, n) = <<d1, d2>> BY ONLY <1>1
  <2> HIDE DEF c1, c2, e1, e2, d1, d2
  <2> QED BY ONLY <1>2, <2>1
<1>6. w = IF Quiet(e) THEN <<c1, c2, Blank>> ELSE IF ByAnthropic(kind) THEN <<e1, e2, d1, d2, Blank>> ELSE <<d1, d2, Blank>>
  <2> HIDE DEF c1, c2, e1, e2, d1, d2
  <2>1. <<c1, c2>> \o <<Blank>> = <<c1, c2, Blank>> /\ <<d1, d2>> \o <<Blank>> = <<d1, d2, Blank>> BY <1>4, ThreeJoined
  <2>2. (<<e1, e2>> \o <<d1, d2>>) \o <<Blank>> = <<e1, e2, d1, d2, Blank>> BY <1>4, FiveJoined
  <2> QED BY <1>3, <1>5, <2>1, <2>2
<1>7. Len(w) = (IF ~Quiet(e) /\ ByAnthropic(kind) THEN 5 ELSE 3) /\ w \in Seq(WirePieces)
  <2> HIDE DEF c1, c2, e1, e2, d1, d2
  <2>1. Len(<<c1, c2, Blank>>) = 3 /\ <<c1, c2, Blank>> \in Seq(WirePieces) BY <1>4, ThreeJoined
  <2>2. Len(<<d1, d2, Blank>>) = 3 /\ <<d1, d2, Blank>> \in Seq(WirePieces) BY <1>4, ThreeJoined
  <2>3. Len(<<e1, e2, d1, d2, Blank>>) = 5 /\ <<e1, e2, d1, d2, Blank>> \in Seq(WirePieces) BY <1>4, FiveJoined
  <2> QED BY ONLY <1>6, <2>1, <2>2, <2>3
<1>8. Lines(kind, e, n) \in Seq(WirePieces)
  <2> HIDE DEF c1, c2, e1, e2, d1, d2
  <2>1. <<c1, c2>> \in Seq(WirePieces) /\ <<d1, d2>> \in Seq(WirePieces) /\ <<e1, e2>> \o <<d1, d2>> \in Seq(WirePieces) BY <1>4
  <2> QED BY ONLY <1>5, <2>1
<1> QED BY ONLY <1>6, <1>7, <1>8

\* The pieces of an event, each at its place.
LEMMA PiecesAre ==
  ASSUME NEW n \in Nat
  PROVE  /\ PiecesOf(n) = IF Silent(n) THEN <<Half(CommentField, n), Full(CommentField, n), Blank>>
                          ELSE IF OfAnthropic THEN <<Half(EventField, n), Full(EventField, n), Half(DataField, n), Full(DataField, n), Blank>>
                          ELSE <<Half(DataField, n), Full(DataField, n), Blank>>
         /\ \A f \in Fields :
              /\ Half(f, n) \in WirePieces /\ ~Half(f, n).last /\ Half(f, n).field = f /\ Half(f, n).n = n
              /\ Full(f, n) \in WirePieces /\ Full(f, n).last /\ Full(f, n).field = f /\ Full(f, n).n = n
              /\ Full(f, n).field # "blank"
         /\ Blank \in WirePieces /\ Blank.last /\ Blank.field = "blank"
<1> DEFINE w == PiecesOf(n)
           e == psSaid[n]
<1>1. w = Lines(psKind, e, n) \o <<[field |-> "blank", n |-> 0, last |-> TRUE]>> BY DEF PiecesOf
<1>2. (Silent(n) <=> Quiet(e)) /\ (OfAnthropic <=> ByAnthropic(psKind)) BY DEF Silent, Quiet, OfAnthropic, ByAnthropic
<1> HIDE DEF w, e
<1>3. w = IF Quiet(e) THEN <<Half(CommentField, n), Full(CommentField, n), Blank>>
          ELSE IF ByAnthropic(psKind) THEN <<Half(EventField, n), Full(EventField, n), Half(DataField, n), Full(DataField, n), Blank>>
          ELSE <<Half(DataField, n), Full(DataField, n), Blank>>
  BY <1>1, LinesAre
<1>4. w = IF Silent(n) THEN <<Half(CommentField, n), Full(CommentField, n), Blank>>
          ELSE IF OfAnthropic THEN <<Half(EventField, n), Full(EventField, n), Half(DataField, n), Full(DataField, n), Blank>>
          ELSE <<Half(DataField, n), Full(DataField, n), Blank>>
  BY <1>2, <1>3
<1> QED BY <1>4, FieldsRead DEF w

\* The decoder reads a piece: in terms of what it holds.
LEMMA HalfRead ==
  ASSUME NEW n \in Nat, NEW f \in Fields, NEW d \in Decs, NEW data
  PROVE  /\ Piece(d, Half(f, n)) \in Decs /\ Piece(d, Half(f, n)).out = d.out
         /\ NoEvent(d, <<>>, data) => NoEvent(Piece(d, Half(f, n)), <<Half(f, n)>>, data)
         /\ HasEvent(d, <<>>, data) => HasEvent(Piece(d, Half(f, n)), <<Half(f, n)>>, data)
<1>1. Half(f, n) \in WirePieces /\ ~Half(f, n).last BY PiecesAre
<1> DEFINE b == Piece(d, Half(f, n))
<1>2. /\ b \in Decs /\ b.out = d.out /\ (d.buffer = <<>> => b.buffer = <<Half(f, n)>>) /\ b.event = d.event /\ b.data = d.data
  BY <1>1, PieceHalf
<1> HIDE DEF b
<1> QED BY <1>2 DEF NoEvent, HasEvent, b

\* A whole line, read by an empty buffer.
LEMMA FullRead ==
  ASSUME NEW n \in Nat, NEW d \in Decs, NEW x, NEW data, NoEvent(d, <<x>>, data) \/ HasEvent(d, <<x>>, data)
  PROVE  /\ \A f \in Fields : Piece(d, Full(f, n)) \in Decs /\ Piece(d, Full(f, n)).out = d.out
         /\ NoEvent(d, <<x>>, data) => NoEvent(Piece(d, Full(CommentField, n)), <<>>, data)
         /\ HasEvent(Piece(d, Full(EventField, n)), <<>>, data)
         /\ data = <<>> => /\ NoEvent(d, <<x>>, data) => NoEvent(Piece(d, Full(DataField, n)), <<>>, Data(n))
                           /\ HasEvent(d, <<x>>, data) => HasEvent(Piece(d, Full(DataField, n)), <<>>, Data(n))
<1>1. d.buffer # <<>> /\ d.data = data
  <2>1. d.buffer = <<x>> /\ d.data = data BY DEF NoEvent, HasEvent
  <2>2. <<x>> # <<>> OBVIOUS
  <2> QED BY <2>1, <2>2
<1>2. \A f \in Fields :
        /\ Full(f, n) \in WirePieces /\ Full(f, n).last /\ Full(f, n).field = f /\ Full(f, n).n = n /\ Full(f, n).field # "blank"
  BY PiecesAre
<1>3. \A f \in Fields : LET b == Piece(d, Full(f, n))
                        IN /\ b \in Decs /\ b.out = d.out /\ b.buffer = <<>> /\ (b.event <=> d.event \/ f = "event")
                           /\ f # "data" => b.data = data
                           /\ f = "data" => b.data = Append(data, [n |-> n, whole |-> TRUE])
  <2> SUFFICES ASSUME NEW f \in Fields
               PROVE  LET b == Piece(d, Full(f, n))
                      IN /\ b \in Decs /\ b.out = d.out /\ b.buffer = <<>> /\ (b.event <=> d.event \/ f = "event")
                         /\ f # "data" => b.data = data
                         /\ f = "data" => b.data = Append(data, [n |-> n, whole |-> TRUE])
    OBVIOUS
  <2> DEFINE p == Full(f, n)
             b == Piece(d, p)
  <2>1. p \in WirePieces /\ p.last /\ p.field = f /\ p.n = n /\ p.field # "blank" BY <1>2
  <2> HIDE DEF p
  <2>2. /\ b \in Decs /\ b.out = d.out
        /\ b.buffer = <<>> /\ (b.event <=> d.event \/ p.field = "event")
        /\ p.field # "data" => b.data = d.data
        /\ p.field = "data" /\ d.buffer # <<>> => b.data = Append(d.data, [n |-> p.n, whole |-> TRUE])
    BY <2>1, PieceFull
  <2> HIDE DEF b
  <2>3. /\ b \in Decs /\ b.out = d.out /\ b.buffer = <<>> /\ (b.event <=> d.event \/ f = "event")
        /\ f # "data" => b.data = data
        /\ f = "data" => b.data = Append(data, [n |-> n, whole |-> TRUE])
    BY <1>1, <2>1, <2>2
  <2> QED BY <2>3 DEF b, p
<1>4. \A f \in Fields : Piece(d, Full(f, n)) \in Decs /\ Piece(d, Full(f, n)).out = d.out BY <1>3
<1>5. NoEvent(d, <<x>>, data) => NoEvent(Piece(d, Full(CommentField, n)), <<>>, data)
  <2>1. CommentField \in Fields /\ CommentField # "event" /\ CommentField # "data" BY DEF Fields, CommentField
  <2> QED BY <1>3, <2>1 DEF NoEvent
<1>6. HasEvent(Piece(d, Full(EventField, n)), <<>>, data)
  <2>1. EventField \in Fields /\ EventField = "event" /\ EventField # "data" BY DEF Fields, EventField
  <2> QED BY <1>3, <2>1 DEF HasEvent
<1>7. ASSUME data = <<>>
      PROVE  /\ NoEvent(d, <<x>>, data) => NoEvent(Piece(d, Full(DataField, n)), <<>>, Data(n))
             /\ HasEvent(d, <<x>>, data) => HasEvent(Piece(d, Full(DataField, n)), <<>>, Data(n))
  <2>1. DataField \in Fields /\ DataField # "event" /\ DataField = "data" BY DEF Fields, DataField
  <2>2. Append(data, [n |-> n, whole |-> TRUE]) = Data(n) BY <1>7 DEF Data
  <2> QED BY <1>3, <2>1, <2>2 DEF NoEvent, HasEvent
<1> QED BY <1>4, <1>5, <1>6, <1>7

\* The empty line puts out what has been read.
LEMMA BlankRead ==
  ASSUME NEW d \in Decs, NEW data, NoEvent(d, <<>>, data) \/ HasEvent(d, <<>>, data)
  PROVE  /\ Piece(d, Blank) \in Decs /\ NoEvent(Piece(d, Blank), <<>>, <<>>)
         /\ NoEvent(d, <<>>, <<>>) => Piece(d, Blank).out = d.out
         /\ data # <<>> => Piece(d, Blank).out = Append(d.out, data)
<1>1. Blank \in WirePieces /\ Blank.last /\ Blank.field = "blank"
  <2>1. 0 \in Nat OBVIOUS
  <2> QED BY <2>1, PiecesAre
<1> DEFINE b == Piece(d, Blank)
<1>2. /\ b \in Decs
      /\ ~d.event /\ d.data = <<>> => NoEvent(b, <<>>, <<>>) /\ b.out = d.out
      /\ d.event \/ d.data # <<>> => NoEvent(b, <<>>, <<>>) /\ b.out = Append(d.out, d.data)
  BY <1>1, PieceBlank
<1> HIDE DEF b
<1>3. d.data = data BY DEF NoEvent, HasEvent
<1>4. NoEvent(d, <<>>, <<>>) => ~d.event /\ d.data = <<>> BY DEF NoEvent
<1> QED BY <1>2, <1>3, <1>4 DEF b

\* Where a decoder is that has read q pieces of event n.
DecoderAt(d, n, q) ==
  /\ q = 0 => NoEvent(d, <<>>, <<>>)
  /\ Silent(n) => /\ q = 1 => NoEvent(d, <<Half(CommentField, n)>>, <<>>)
                  /\ q = 2 => NoEvent(d, <<>>, <<>>)
  /\ ~Silent(n) /\ ~OfAnthropic => /\ q = 1 => NoEvent(d, <<Half(DataField, n)>>, <<>>)
                                   /\ q = 2 => NoEvent(d, <<>>, Data(n))
  /\ ~Silent(n) /\ OfAnthropic => /\ q = 1 => NoEvent(d, <<Half(EventField, n)>>, <<>>)
                                  /\ q = 2 => HasEvent(d, <<>>, <<>>)
                                  /\ q = 3 => HasEvent(d, <<Half(DataField, n)>>, <<>>)
                                  /\ q = 4 => HasEvent(d, <<>>, Data(n))

\* It goes on by a piece; at the end of an event it has put out the event's data, unless that was a comment.
LEMMA PieceRead ==
  ASSUME NEW n \in Nat, NEW q \in 0..(Size(n) - 1), NEW d \in Decs, DecoderAt(d, n, q), NEW b, b = Piece(d, PiecesOf(n)[q + 1])
  PROVE  /\ b \in Decs
         /\ q + 1 # Size(n) => DecoderAt(b, n, q + 1) /\ b.out = d.out
         /\ q + 1 = Size(n) => DecoderAt(b, n + 1, 0) /\ b.out = IF Silent(n) THEN d.out ELSE Append(d.out, Data(n))
<1> DEFINE p == PiecesOf(n)[q + 1]
<1>0. CommentField \in Fields /\ EventField \in Fields /\ DataField \in Fields BY DEF Fields
<1>1. Size(n) = IF ~Silent(n) /\ OfAnthropic THEN 5 ELSE 3 BY DEF Size
<1>2. Data(n) # <<>> BY DEF Data
<1>3. CASE Silent(n)
  <2>1. PiecesOf(n) = <<Half(CommentField, n), Full(CommentField, n), Blank>> /\ Size(n) = 3 BY <1>1, <1>3, PiecesAre
  <2>2. CASE q = 0
    <3>1. p = Half(CommentField, n) BY <2>1, <2>2
    <3>2. q + 1 = 1 /\ q + 1 # Size(n) BY <2>1, <2>2
    <3>3. NoEvent(d, <<>>, <<>>) BY <1>3, <2>2 DEF DecoderAt
    <3>4. b \in Decs /\ NoEvent(b, <<Half(CommentField, n)>>, <<>>) /\ b.out = d.out BY <1>0, <3>1, <3>3, HalfRead
    <3>5. DecoderAt(b, n, 1) BY <1>3, <3>4 DEF DecoderAt
    <3> QED BY <1>3, <3>2, <3>4, <3>5
  <2>3. CASE q = 1
    <3>1. p = Full(CommentField, n) BY <2>1, <2>3
    <3>2. q + 1 = 2 /\ q + 1 # Size(n) BY <2>1, <2>3
    <3>3. NoEvent(d, <<Half(CommentField, n)>>, <<>>) BY <1>3, <2>3 DEF DecoderAt
    <3>4. b \in Decs /\ NoEvent(b, <<>>, <<>>) /\ b.out = d.out BY <1>0, <3>1, <3>3, FullRead
    <3>5. DecoderAt(b, n, 2) BY <1>3, <3>4 DEF DecoderAt
    <3> QED BY <1>3, <3>2, <3>4, <3>5
  <2>4. CASE q = 2
    <3>1. p = Blank BY <2>1, <2>4
    <3>2. q + 1 = 3 /\ q + 1 = Size(n) BY <2>1, <2>4
    <3>3. NoEvent(d, <<>>, <<>>) BY <1>3, <2>4 DEF DecoderAt
    <3>4. b \in Decs /\ NoEvent(b, <<>>, <<>>) /\ b.out = d.out BY <1>2, <3>1, <3>3, BlankRead
    <3>5. DecoderAt(b, n + 1, 0) BY <3>4 DEF DecoderAt
    <3> QED BY <1>3, <3>2, <3>4, <3>5
  <2>5. q = 0 \/ q = 1 \/ q = 2 BY <2>1
  <2> QED BY <2>2, <2>3, <2>4, <2>5
<1>4. CASE ~Silent(n) /\ ~OfAnthropic
  <2>1. PiecesOf(n) = <<Half(DataField, n), Full(DataField, n), Blank>> /\ Size(n) = 3 BY <1>1, <1>4, PiecesAre
  <2>2. CASE q = 0
    <3>1. p = Half(DataField, n) BY <2>1, <2>2
    <3>2. q + 1 = 1 /\ q + 1 # Size(n) BY <2>1, <2>2
    <3>3. NoEvent(d, <<>>, <<>>) BY <1>4, <2>2 DEF DecoderAt
    <3>4. b \in Decs /\ NoEvent(b, <<Half(DataField, n)>>, <<>>) /\ b.out = d.out BY <1>0, <3>1, <3>3, HalfRead
    <3>5. DecoderAt(b, n, 1) BY <1>4, <3>4 DEF DecoderAt
    <3> QED BY <1>4, <3>2, <3>4, <3>5
  <2>3. CASE q = 1
    <3>1. p = Full(DataField, n) BY <2>1, <2>3
    <3>2. q + 1 = 2 /\ q + 1 # Size(n) BY <2>1, <2>3
    <3>3. NoEvent(d, <<Half(DataField, n)>>, <<>>) BY <1>4, <2>3 DEF DecoderAt
    <3>4. b \in Decs /\ NoEvent(b, <<>>, Data(n)) /\ b.out = d.out BY <1>0, <3>1, <3>3, FullRead
    <3>5. DecoderAt(b, n, 2) BY <1>4, <3>4 DEF DecoderAt
    <3> QED BY <1>4, <3>2, <3>4, <3>5
  <2>4. CASE q = 2
    <3>1. p = Blank BY <2>1, <2>4
    <3>2. q + 1 = 3 /\ q + 1 = Size(n) BY <2>1, <2>4
    <3>3. NoEvent(d, <<>>, Data(n)) BY <1>4, <2>4 DEF DecoderAt
    <3>4. b \in Decs /\ NoEvent(b, <<>>, <<>>) /\ b.out = Append(d.out, Data(n)) BY <1>2, <3>1, <3>3, BlankRead
    <3>5. DecoderAt(b, n + 1, 0) BY <3>4 DEF DecoderAt
    <3> QED BY <1>4, <3>2, <3>4, <3>5
  <2>5. q = 0 \/ q = 1 \/ q = 2 BY <2>1
  <2> QED BY <2>2, <2>3, <2>4, <2>5
<1>5. CASE ~Silent(n) /\ OfAnthropic
  <2>1. PiecesOf(n) = <<Half(EventField, n), Full(EventField, n), Half(DataField, n), Full(DataField, n), Blank>> /\ Size(n) = 5 BY <1>1, <1>5, PiecesAre
  <2>2. CASE q = 0
    <3>1. p = Half(EventField, n) BY <2>1, <2>2
    <3>2. q + 1 = 1 /\ q + 1 # Size(n) BY <2>1, <2>2
    <3>3. NoEvent(d, <<>>, <<>>) BY <1>5, <2>2 DEF DecoderAt
    <3>4. b \in Decs /\ NoEvent(b, <<Half(EventField, n)>>, <<>>) /\ b.out = d.out BY <1>0, <3>1, <3>3, HalfRead
    <3>5. DecoderAt(b, n, 1) BY <1>5, <3>4 DEF DecoderAt
    <3> QED BY <1>5, <3>2, <3>4, <3>5
  <2>3. CASE q = 1
    <3>1. p = Full(EventField, n) BY <2>1, <2>3
    <3>2. q + 1 = 2 /\ q + 1 # Size(n) BY <2>1, <2>3
    <3>3. NoEvent(d, <<Half(EventField, n)>>, <<>>) BY <1>5, <2>3 DEF DecoderAt
    <3>4. b \in Decs /\ HasEvent(b, <<>>, <<>>) /\ b.out = d.out BY <1>0, <3>1, <3>3, FullRead
    <3>5. DecoderAt(b, n, 2) BY <1>5, <3>4 DEF DecoderAt
    <3> QED BY <1>5, <3>2, <3>4, <3>5
  <2>4. CASE q = 2
    <3>1. p = Half(DataField, n) BY <2>1, <2>4
    <3>2. q + 1 = 3 /\ q + 1 # Size(n) BY <2>1, <2>4
    <3>3. HasEvent(d, <<>>, <<>>) BY <1>5, <2>4 DEF DecoderAt
    <3>4. b \in Decs /\ HasEvent(b, <<Half(DataField, n)>>, <<>>) /\ b.out = d.out BY <1>0, <3>1, <3>3, HalfRead
    <3>5. DecoderAt(b, n, 3) BY <1>5, <3>4 DEF DecoderAt
    <3> QED BY <1>5, <3>2, <3>4, <3>5
  <2>5. CASE q = 3
    <3>1. p = Full(DataField, n) BY <2>1, <2>5
    <3>2. q + 1 = 4 /\ q + 1 # Size(n) BY <2>1, <2>5
    <3>3. HasEvent(d, <<Half(DataField, n)>>, <<>>) BY <1>5, <2>5 DEF DecoderAt
    <3>4. b \in Decs /\ HasEvent(b, <<>>, Data(n)) /\ b.out = d.out BY <1>0, <3>1, <3>3, FullRead
    <3>5. DecoderAt(b, n, 4) BY <1>5, <3>4 DEF DecoderAt
    <3> QED BY <1>5, <3>2, <3>4, <3>5
  <2>6. CASE q = 4
    <3>1. p = Blank BY <2>1, <2>6
    <3>2. q + 1 = 5 /\ q + 1 = Size(n) BY <2>1, <2>6
    <3>3. HasEvent(d, <<>>, Data(n)) BY <1>5, <2>6 DEF DecoderAt
    <3>4. b \in Decs /\ NoEvent(b, <<>>, <<>>) /\ b.out = Append(d.out, Data(n)) BY <1>2, <3>1, <3>3, BlankRead
    <3>5. DecoderAt(b, n + 1, 0) BY <3>4 DEF DecoderAt
    <3> QED BY <1>5, <3>2, <3>4, <3>5
  <2>7. q = 0 \/ q = 1 \/ q = 2 \/ q = 3 \/ q = 4 BY <2>1
  <2> QED BY <2>2, <2>3, <2>4, <2>5, <2>6, <2>7
<1> QED BY <1>3, <1>4, <1>5

\* The states a decoder goes through as it reads a chunk.
PushSteps(f, d, chunk, v) ==
  /\ f \in [0..Len(chunk) -> Decs] /\ f[0] = d /\ f[Len(chunk)] = v
  /\ \A k \in 1..Len(chunk) : f[k] = Piece(f[k - 1], chunk[k])

\* push goes through the pieces of a chunk one by one.
LEMMA PushFolds ==
  ASSUME NEW d \in Decs, NEW s \in Seq(WirePieces)
  PROVE  \E f : PushSteps(f, d, s, FoldLeft(Piece, d, s))
<1> DEFINE K == Len(s)
           T == Decs
           G == [x \in T \X (1..K) |-> Piece(x[1], s[x[2]])]
           Eq(h) == h = [p \in SUBSET (DOMAIN s) |-> IF p = {} THEN d ELSE Piece(h[p \ {Max(p)}], s[Max(p)])]
           h == CHOOSE h : Eq(h)
           v == FoldLeft(Piece, d, s)
<1>1. K \in Nat /\ DOMAIN s = 1..K /\ \A k \in 1..K : s[k] \in WirePieces OBVIOUS
<1>2. G \in [T \X (1..K) -> T]
  <2>1. \A x \in T \X (1..K) : x[1] \in T /\ x[2] \in 1..K OBVIOUS
  <2>2. \A x \in T \X (1..K) : Piece(x[1], s[x[2]]) \in T BY <1>1, <2>1, PieceTyped
  <2> QED BY <2>2
<1>3. \A p \in SUBSET (1..K) : p # {} => Max(p) \in 1..K
  <2> HIDE DEF K
  <2>1. \A p \in SUBSET (1..K) : p \in SUBSET (0..K) BY <1>1
  <2> QED BY <1>1, <2>1, FirstAndLast
<1>4. \E g : Eq(g)
  <2>1. PICK g : Iterates(g, K, T, d, G)
    <3> HIDE DEF G, T, K
    <3>1. K \in Nat /\ d \in T /\ G \in [T \X (1..K) -> T] BY <1>1, <1>2 DEF T
    <3> QED BY <3>1, FoldIterates
  <2>2. \A p \in SUBSET (1..K) : p # {} => g[p] = Piece(g[p \ {Max(p)}], s[Max(p)]) BY <1>3, <2>1 DEF Iterates
  <2>3. g = [p \in SUBSET (1..K) |-> g[p]] BY <2>1 DEF Iterates
  <2>4. \A p \in SUBSET (1..K) : g[p] = IF p = {} THEN d ELSE Piece(g[p \ {Max(p)}], s[Max(p)])
    BY <2>1, <2>2 DEF Iterates
  <2> HIDE DEF K, T, G
  <2>5. g = [p \in SUBSET (1..K) |-> IF p = {} THEN d ELSE Piece(g[p \ {Max(p)}], s[Max(p)])] BY <2>3, <2>4
  <2> QED BY <1>1, <2>5
<1>5. Eq(h) BY <1>4
<1>6. v = h[1..K] BY <1>1 DEF FoldLeft, MapThenFoldSet
<1> HIDE DEF h, v
<1>7. Recurs(h, K, T, d, G, v) BY <1>1, <1>3, <1>5, <1>6 DEF Recurs
<1>8. PICK f : Stepwise(f, K, T, d, G, v)
  <2> HIDE DEF G, T, K, Eq
  <2>1. K \in Nat /\ d \in T /\ G \in [T \X (1..K) -> T] /\ Recurs(h, K, T, d, G, v) BY <1>1, <1>2, <1>7 DEF T
  <2>2. \E f : Stepwise(f, K, T, d, G, v) BY <2>1, FoldSteps
  <2> QED BY <2>2
<1>9. ASSUME NEW n \in 1..K PROVE f[n] = Piece(f[n - 1], s[n])
  <2>1. n - 1 \in 0..K BY <1>1
  <2>2. f[n - 1] \in T BY <1>8, <2>1 DEF Stepwise
  <2> QED BY <1>1, <1>8, <2>2 DEF Stepwise
<1>10. PushSteps(f, d, s, v) BY <1>8, <1>9 DEF Stepwise, PushSteps
<1> QED BY <1>10 DEF v

\* Data that may be decoded: about events there are.
Decoded == {data \in Seq(DataLines) : \A k \in DOMAIN data : data[k].n \in DOMAIN psSaid}

\* apply_stream_event keeps the types.
LEMMA ApplyTyped ==
  ASSUME Served, NEW a \in Accs, NEW data \in Decoded
  PROVE  apply_stream_event(a, data) \in Accs
<1>1. CASE a.err \/ a.st.done BY <1>1 DEF apply_stream_event
<1>2. CASE ~(a.err \/ a.st.done) /\ (Len(data) # 1 \/ \E x \in ToSet(data) : ~x.whole)
  <2>1. apply_stream_event(a, data) = [a EXCEPT !.err = TRUE] BY <1>2 DEF apply_stream_event
  <2>2. 0 \in Nat OBVIOUS
  <2> QED BY <2>1, <2>2, PlainTyped
<1>3. CASE ~(a.err \/ a.st.done) /\ ~(Len(data) # 1 \/ \E x \in ToSet(data) : ~x.whole)
  <2> DEFINE n == data[1].n
  <2>1. n \in DOMAIN psSaid
    <3>1. data \in Seq(DataLines) /\ Len(data) = 1 /\ \A k \in DOMAIN data : data[k].n \in DOMAIN psSaid BY <1>3 DEF Decoded
    <3>2. 1 \in DOMAIN data BY <3>1
    <3> QED BY <3>1, <3>2
  <2>2. psSaid[n] \in Events /\ n \in Nat
    <3>1. psSaid \in Seq(Events) BY DEF Served
    <3> QED BY <2>1, <3>1
  <2>3. apply_stream_event(a, data) = IF OfAnthropic THEN anthropic_event(a, psSaid[n], n) ELSE openai_event(a, psSaid[n], n)
    BY <1>3 DEF apply_stream_event, OfAnthropic
  <2> QED BY <2>2, <2>3, AnthropicTyped, OpenaiTyped
<1> QED BY <1>1, <1>2, <1>3

\* The states the answer goes through as decoded events are applied.
GatherSteps(f, a, s, v) ==
  /\ f \in [0..Len(s) -> Accs] /\ f[0] = a /\ f[Len(s)] = v
  /\ \A k \in 1..Len(s) : f[k] = apply_stream_event(f[k - 1], s[k])

\* Gathering goes through the decoded events one by one.
LEMMA GatherFolds ==
  ASSUME Served, NEW a \in Accs, NEW s \in Seq(Decoded)
  PROVE  \E f : GatherSteps(f, a, s, FoldLeft(apply_stream_event, a, s))
<1> DEFINE K == Len(s)
           T == Accs
           G == [x \in T \X (1..K) |-> apply_stream_event(x[1], s[x[2]])]
           Eq(h) == h = [p \in SUBSET (DOMAIN s) |-> IF p = {} THEN a ELSE apply_stream_event(h[p \ {Max(p)}], s[Max(p)])]
           h == CHOOSE h : Eq(h)
           v == FoldLeft(apply_stream_event, a, s)
<1>1. K \in Nat /\ DOMAIN s = 1..K /\ \A k \in 1..K : s[k] \in Decoded OBVIOUS
<1>2. G \in [T \X (1..K) -> T]
  <2>1. \A x \in T \X (1..K) : x[1] \in T /\ x[2] \in 1..K OBVIOUS
  <2>2. \A x \in T \X (1..K) : apply_stream_event(x[1], s[x[2]]) \in T BY <1>1, <2>1, ApplyTyped
  <2> QED BY <2>2
<1>3. \A p \in SUBSET (1..K) : p # {} => Max(p) \in 1..K
  <2> HIDE DEF K
  <2>1. \A p \in SUBSET (1..K) : p \in SUBSET (0..K) BY <1>1
  <2> QED BY <1>1, <2>1, FirstAndLast
<1>4. \E g : Eq(g)
  <2>1. PICK g : Iterates(g, K, T, a, G)
    <3> HIDE DEF G, T, K
    <3>1. K \in Nat /\ a \in T /\ G \in [T \X (1..K) -> T] BY <1>1, <1>2 DEF T
    <3> QED BY <3>1, FoldIterates
  <2>2. \A p \in SUBSET (1..K) : p # {} => g[p] = apply_stream_event(g[p \ {Max(p)}], s[Max(p)]) BY <1>3, <2>1 DEF Iterates
  <2>3. g = [p \in SUBSET (1..K) |-> g[p]] BY <2>1 DEF Iterates
  <2>4. \A p \in SUBSET (1..K) : g[p] = IF p = {} THEN a ELSE apply_stream_event(g[p \ {Max(p)}], s[Max(p)])
    BY <2>1, <2>2 DEF Iterates
  <2> HIDE DEF K, T, G
  <2>5. g = [p \in SUBSET (1..K) |-> IF p = {} THEN a ELSE apply_stream_event(g[p \ {Max(p)}], s[Max(p)])] BY <2>3, <2>4
  <2> QED BY <1>1, <2>5
<1>5. Eq(h) BY <1>4
<1>6. v = h[1..K] BY <1>1 DEF FoldLeft, MapThenFoldSet
<1> HIDE DEF h, v
<1>7. Recurs(h, K, T, a, G, v) BY <1>1, <1>3, <1>5, <1>6 DEF Recurs
<1>8. PICK f : Stepwise(f, K, T, a, G, v)
  <2> HIDE DEF G, T, K, Eq
  <2>1. K \in Nat /\ a \in T /\ G \in [T \X (1..K) -> T] /\ Recurs(h, K, T, a, G, v) BY <1>1, <1>2, <1>7 DEF T
  <2>2. \E f : Stepwise(f, K, T, a, G, v) BY <2>1, FoldSteps
  <2> QED BY <2>2
<1>9. ASSUME NEW n \in 1..K PROVE f[n] = apply_stream_event(f[n - 1], s[n])
  <2>1. n - 1 \in 0..K BY <1>1
  <2>2. f[n - 1] \in T BY <1>8, <2>1 DEF Stepwise
  <2> QED BY <1>1, <1>8, <2>2 DEF Stepwise
<1>10. GatherSteps(f, a, s, v) BY <1>8, <1>9 DEF Stepwise, GatherSteps
<1> QED BY <1>10 DEF v

\* What gathering a sequence of decoded events makes of a state.
Gathers(a, s) == FoldLeft(apply_stream_event, a, s)

\* One decoded event more.
LEMMA GatherMore ==
  ASSUME Served, NEW a \in Accs, NEW s \in Seq(Decoded), NEW x \in Decoded
  PROVE  /\ Gathers(a, s) \in Accs /\ Gathers(a, <<>>) = a
         /\ Gathers(a, Append(s, x)) = apply_stream_event(Gathers(a, s), x)
<1> DEFINE K == Len(s)
           more == Append(s, x)
<1>1. /\ K \in Nat /\ more \in Seq(Decoded) /\ Len(more) = K + 1 /\ more[K + 1] = x /\ \A k \in 1..K : more[k] = s[k]
      /\ <<>> \in Seq(Decoded) /\ Len(<<>>) = 0
  OBVIOUS
<1> HIDE DEF more, K
<1>2. PICK f : GatherSteps(f, a, s, Gathers(a, s)) BY GatherFolds DEF Gathers
<1>3. PICK g : GatherSteps(g, a, more, Gathers(a, more)) BY <1>1, GatherFolds DEF Gathers
<1>4. PICK e : GatherSteps(e, a, <<>>, Gathers(a, <<>>)) BY <1>1, GatherFolds DEF Gathers
<1>5. \A k \in 0..K : g[k] = f[k]
  <2> DEFINE H == {k \in 0..K : g[k] = f[k]}
  <2>1. 0 \in H BY <1>1, <1>2, <1>3 DEF GatherSteps
  <2>2. ASSUME NEW k \in 0..(K - 1), k \in H PROVE k + 1 \in H
    <3>1. k + 1 \in 1..K /\ k + 1 \in 0..K /\ k + 1 \in 1..(K + 1) /\ k + 1 - 1 = k BY <1>1
    <3>2. f[k + 1] = apply_stream_event(f[k], s[k + 1]) BY <1>2, <3>1 DEF GatherSteps, K
    <3>3. g[k + 1] = apply_stream_event(g[k], more[k + 1]) BY <1>1, <1>3, <3>1 DEF GatherSteps
    <3> QED BY <1>1, <2>2, <3>1, <3>2, <3>3
  <2> HIDE DEF H
  <2>3. \A k \in 0..K : k \in H BY <1>1, <2>1, <2>2, InductionUpTo
  <2> QED BY <2>3 DEF H
<1>6. f[K] = Gathers(a, s) /\ f[K] \in Accs
  <2>1. K \in 0..K BY <1>1
  <2> QED BY <1>2, <2>1 DEF GatherSteps, K
<1>7. Gathers(a, more) = apply_stream_event(g[K], x)
  <2>1. K + 1 \in 1..(K + 1) /\ K + 1 - 1 = K BY <1>1
  <2> QED BY <1>1, <1>3, <2>1 DEF GatherSteps
<1>8. g[K] = f[K]
  <2>1. K \in 0..K BY <1>1
  <2> QED BY <1>5, <2>1
<1>9. Gathers(a, <<>>) = a BY <1>1, <1>4 DEF GatherSteps
<1> QED BY <1>6, <1>7, <1>8, <1>9 DEF more

\* A state says what the first m events say, and none of these ends the answer.
Stood(a, m) == Says(a.st, a.out, m) /\ \A n \in 1..m : ~IsEnd(n)

\* What a state tells once m events have been read: an error, an answer that has ended, or all
\* that they say.
Tells(a, m) ==
  /\ a \in Accs
  /\ \/ a.err
     \/ a.st.done /\ \E l \in 0..(m - 1) : Stood(a, l) /\ IsEnd(l + 1)
     \/ ~a.st.done /\ Stood(a, m)

\* One more event, decoded whole.
LEMMA TellsNext ==
  ASSUME Served, NEW m \in Nat, NEW n \in DOMAIN psSaid, n = m + 1, NEW a, Tells(a, m)
  PROVE  Data(n) \in Decoded /\ Tells(apply_stream_event(a, Data(n)), n)
<1> DEFINE b == apply_stream_event(a, Data(n))
<1>1. psSaid \in Seq(Events) /\ n \in Nat /\ n - 1 = m
  <2>1. psSaid \in Seq(Events) BY DEF Served
  <2> QED BY <2>1
<1>2. /\ Data(n) \in Decoded /\ Len(Data(n)) = 1 /\ Data(n)[1].n = n
      /\ \A x \in ToSet(Data(n)) : x.whole
  <2> DEFINE x == [n |-> n, whole |-> TRUE]
  <2>1. x \in DataLines /\ x.n = n /\ x.whole BY <1>1 DEF DataLines
  <2>2. Data(n) = <<x>> BY DEF Data
  <2> HIDE DEF x
  <2>3. <<x>> \in Seq(DataLines) /\ Len(<<x>>) = 1 /\ <<x>>[1] = x /\ \A k \in DOMAIN <<x>> : <<x>>[k] = x BY <2>1
  <2> QED BY <2>1, <2>2, <2>3 DEF Decoded, ToSet
<1>3. CASE a.err \/ a.st.done
  <2>1. b = a BY <1>3 DEF apply_stream_event
  <2>2. \A l \in 0..(m - 1) : l \in 0..(n - 1) BY <1>1
  <2> QED BY <1>2, <1>3, <2>1, <2>2 DEF Tells
<1>4. CASE ~a.err /\ ~a.st.done
  <2>1. b = IF OfAnthropic THEN anthropic_event(a, psSaid[n], n) ELSE openai_event(a, psSaid[n], n)
    BY <1>2, <1>4 DEF apply_stream_event, OfAnthropic
  <2>2. a \in Accs /\ Stood(a, m) /\ Says(a.st, a.out, m) BY <1>4 DEF Tells, Stood
  <2>3. Follows(a, b, n)
    <3> HIDE DEF b
    <3>1. CASE OfAnthropic BY <1>4, <2>1, <2>2, <3>1, AnthropicFollows
    <3>2. CASE ~OfAnthropic BY <1>4, <2>1, <2>2, <3>2, OpenaiFollows
    <3> QED BY <3>1, <3>2
  <2> HIDE DEF b
  <2>4. b \in Accs BY <2>3 DEF Follows
  <2>5. CASE b.err BY <1>2, <2>4, <2>5 DEF Tells, b
  <2>6. CASE ~b.err /\ IsEnd(n)
    <3>1. b.st.done /\ Says(b.st, b.out, m) BY <1>1, <2>3, <2>6 DEF Follows
    <3>2. Stood(b, m) BY <2>2, <3>1 DEF Stood
    <3>3. m \in 0..(n - 1) BY <1>1
    <3>4. Tells(b, n) BY <2>4, <2>6, <3>1, <3>2, <3>3 DEF Tells
    <3> QED BY <1>2, <3>4 DEF b
  <2>7. CASE ~b.err /\ ~IsEnd(n)
    <3>1. ~b.st.done /\ Says(b.st, b.out, n) BY <2>3, <2>7 DEF Follows
    <3>2. \A l \in 1..n : l \in 1..m \/ l = n BY <1>1
    <3>3. Stood(b, n) BY <2>2, <2>7, <3>1, <3>2 DEF Stood
    <3>4. Tells(b, n) BY <2>4, <3>1, <3>3 DEF Tells
    <3> QED BY <1>2, <3>4 DEF b
  <2> QED BY <2>5, <2>6, <2>7
<1> QED BY <1>3, <1>4

\* A comment tells nothing.
LEMMA TellsSilent ==
  ASSUME Served, NEW m \in Nat, NEW n \in DOMAIN psSaid, n = m + 1, NEW a, Tells(a, m), Silent(n)
  PROVE  Tells(a, n)
<1>1. /\ ~IsText(psSaid[n]) /\ ~IsPart(psSaid[n]) /\ ~IsHead(psSaid[n]) /\ ~IsEnd(n)
  BY DEF Silent, IsText, IsPart, IsHead, IsEnd
<1>2. \A l \in 0..(m - 1) : l \in 0..(n - 1) OBVIOUS
<1>3. CASE a.err \/ a.st.done BY <1>2, <1>3 DEF Tells
<1>4. CASE ~a.err /\ ~a.st.done
  <2>1. a \in Accs /\ Stood(a, m) /\ Says(a.st, a.out, m) BY <1>4 DEF Tells, Stood
  <2>2. Follows(a, a, n) BY <1>1, <1>4, <2>1, NothingFollows
  <2>3. Says(a.st, a.out, n) BY <1>1, <1>4, <2>2 DEF Follows
  <2>4. \A l \in 1..n : l \in 1..m \/ l = n OBVIOUS
  <2>5. Stood(a, n) BY <1>1, <2>1, <2>3, <2>4 DEF Stood
  <2> QED BY <1>4, <2>1, <2>5 DEF Tells
<1> QED BY <1>3, <1>4

\* Where the reader is in what the server has written: before piece q + 1 of event m + 1, for
\* what has been read and after each further piece.
WireRun(pm, pq) ==
  /\ psWire \in Seq(WirePieces)
  /\ pm \in [0..Len(psWire) -> 0..Len(psSaid)] /\ pq \in [0..Len(psWire) -> Nat]
  /\ pm[Len(psWire)] = Len(psSaid) /\ pq[Len(psWire)] = 0
  /\ \A j \in 0..(Len(psWire) - 1) :
       /\ pm[j] < Len(psSaid) /\ pq[j] < Size(pm[j] + 1)
       /\ psWire[j + 1] = PiecesOf(pm[j] + 1)[pq[j] + 1]
       /\ pq[j] + 1 = Size(pm[j] + 1) => pm[j + 1] = pm[j] + 1 /\ pq[j + 1] = 0
       /\ pq[j] + 1 # Size(pm[j] + 1) => pm[j + 1] = pm[j] /\ pq[j + 1] = pq[j] + 1

\* A decoder at a place of the stream, and what is gathered of what it has put out.
Reached(a, d, m, q) ==
  d \in Decs /\ DecoderAt(d, m + 1, q) /\ d.out \in Seq(Decoded) /\ Tells(Gathers(a, d.out), m)

\* One more piece.
LEMMA ReachedNext ==
  ASSUME Served, NEW a \in Accs, NEW m \in Nat, m + 1 \in DOMAIN psSaid, NEW q \in 0..(Size(m + 1) - 1), NEW d, Reached(a, d, m, q),
         NEW b, b = Piece(d, PiecesOf(m + 1)[q + 1])
  PROVE  /\ q + 1 # Size(m + 1) => Reached(a, b, m, q + 1)
         /\ q + 1 = Size(m + 1) => Reached(a, b, m + 1, 0)
<1> DEFINE n == m + 1
<1>1. n \in Nat /\ n \in DOMAIN psSaid /\ n = m + 1 OBVIOUS
<1> HIDE DEF n
<1>2. q \in 0..(Size(n) - 1) /\ d \in Decs /\ DecoderAt(d, n, q) /\ b = Piece(d, PiecesOf(n)[q + 1])
      /\ d.out \in Seq(Decoded) /\ Tells(Gathers(a, d.out), m)
  BY <1>1 DEF Reached
<1>3. /\ b \in Decs
      /\ q + 1 # Size(n) => DecoderAt(b, n, q + 1) /\ b.out = d.out
      /\ q + 1 = Size(n) => DecoderAt(b, n + 1, 0) /\ b.out = IF Silent(n) THEN d.out ELSE Append(d.out, Data(n))
  BY <1>1, <1>2, PieceRead
<1>4. CASE q + 1 # Size(n) BY <1>1, <1>2, <1>3, <1>4 DEF Reached
<1>5. CASE q + 1 = Size(n) /\ Silent(n)
  <2>1. Tells(Gathers(a, d.out), n) BY <1>1, <1>2, <1>5, TellsSilent
  <2> QED BY <1>1, <1>2, <1>3, <1>5, <2>1 DEF Reached
<1>6. CASE q + 1 = Size(n) /\ ~Silent(n)
  <2>1. Data(n) \in Decoded /\ Tells(apply_stream_event(Gathers(a, d.out), Data(n)), n) BY <1>1, <1>2, TellsNext
  <2>2. Gathers(a, Append(d.out, Data(n))) = apply_stream_event(Gathers(a, d.out), Data(n)) BY <1>2, <2>1, GatherMore
  <2>3. Append(d.out, Data(n)) \in Seq(Decoded) BY <1>2, <2>1
  <2> QED BY <1>1, <1>3, <1>6, <2>1, <2>2, <2>3 DEF Reached
<1> QED BY <1>1, <1>4, <1>5, <1>6

\* A chunk, wherever it is cut.
LEMMA ReachedByChunk ==
  ASSUME Served, NEW a \in Accs, NEW pm, NEW pq, WireRun(pm, pq), NEW k \in 1..Len(psWire),
         NEW d, Reached(a, d, pm[0], pq[0])
  PROVE  Reached(a, FoldLeft(Piece, d, SubSeq(psWire, 1, k)), pm[k], pq[k])
<1> DEFINE chunk == SubSeq(psWire, 1, k)
           v == FoldLeft(Piece, d, chunk)
           L == Len(psSaid)
<1>1. psWire \in Seq(WirePieces) /\ psSaid \in Seq(Events) BY DEF WireRun, Served
<1>2. chunk \in Seq(WirePieces) /\ Len(chunk) = k /\ \A j \in 1..k : chunk[j] = psWire[j]
  <2>1. k \in Nat /\ k <= Len(psWire) /\ 1 <= k + 1 /\ 1 \in Nat \ {0} /\ k + 1 - 1 = k BY <1>1
  <2>2. /\ SubSeq(psWire, 1, k) \in Seq(WirePieces) /\ Len(SubSeq(psWire, 1, k)) = k + 1 - 1
        /\ \A i \in 1..(k + 1 - 1) : SubSeq(psWire, 1, k)[i] = psWire[1 + i - 1]
    BY <1>1, <2>1, SubSeqIs
  <2>3. \A i \in 1..k : 1 + i - 1 = i BY <2>1
  <2> QED BY <2>1, <2>2, <2>3
<1>3. d \in Decs BY DEF Reached
<1> HIDE DEF chunk
<1>4. PICK f : PushSteps(f, d, chunk, v) BY <1>2, <1>3, PushFolds
<1> HIDE DEF v
<1>5. k \in Nat /\ Len(psWire) \in Nat /\ k <= Len(psWire) /\ L \in Nat /\ DOMAIN psSaid = 1..L BY <1>1
<1> HIDE DEF L
<1> DEFINE H == {j \in 0..k : Reached(a, f[j], pm[j], pq[j])}
<1>6. 0 \in H BY <1>4, <1>5 DEF PushSteps
<1>7. ASSUME NEW j \in 0..(k - 1), j \in H PROVE j + 1 \in H
  <2> DEFINE m == pm[j]
             q == pq[j]
             b == f[j + 1]
  <2>1. j + 1 \in 1..k /\ j + 1 - 1 = j /\ j \in 0..(Len(psWire) - 1) /\ j \in 0..Len(psWire) /\ j + 1 \in 0..k BY <1>5
  <2>2. /\ m \in 0..L /\ q \in Nat /\ m < L /\ q < Size(m + 1) /\ psWire[j + 1] = PiecesOf(m + 1)[q + 1]
        /\ q + 1 = Size(m + 1) => pm[j + 1] = m + 1 /\ pq[j + 1] = 0
        /\ q + 1 # Size(m + 1) => pm[j + 1] = m /\ pq[j + 1] = q + 1
    BY <2>1 DEF WireRun, L
  <2>3. Size(m + 1) \in Nat BY DEF Size
  <2>4. b = Piece(f[j], PiecesOf(m + 1)[q + 1])
    <3>1. b = Piece(f[j], chunk[j + 1]) BY <1>2, <1>4, <2>1 DEF PushSteps
    <3> QED BY <1>2, <2>1, <2>2, <3>1
  <2>5. Reached(a, f[j], m, q) BY <1>7
  <2> HIDE DEF m, q, b
  <2>6. m \in Nat /\ m + 1 \in DOMAIN psSaid /\ q \in 0..(Size(m + 1) - 1) BY <1>5, <2>2, <2>3
  <2>7. /\ q + 1 # Size(m + 1) => Reached(a, b, m, q + 1)
        /\ q + 1 = Size(m + 1) => Reached(a, b, m + 1, 0)
    BY <2>4, <2>5, <2>6, ReachedNext
  <2>8. Reached(a, b, pm[j + 1], pq[j + 1])
    <3>1. CASE q + 1 = Size(m + 1) BY <2>2, <2>7, <3>1
    <3>2. CASE q + 1 # Size(m + 1) BY <2>2, <2>7, <3>2
    <3> QED BY <3>1, <3>2
  <2> QED BY <2>1, <2>8 DEF b
<1> HIDE DEF H
<1>8. k \in H
  <2>1. \A j \in 0..k : j \in H BY <1>5, <1>6, <1>7, InductionUpTo
  <2>2. k \in 0..k BY <1>5
  <2> QED BY <2>1, <2>2
<1>9. f[k] = v BY <1>2, <1>4 DEF PushSteps
<1> QED BY <1>8, <1>9 DEF H, v, chunk

\* What is left of a stream after a chunk.
LEMMA RunLeft ==
  ASSUME Served, NEW pm, NEW pq, WireRun(pm, pq), NEW k \in 1..Len(psWire), psSaid' = psSaid, psKind' = psKind,
         psWire' = SubSeq(psWire, k + 1, Len(psWire))
  PROVE  \E rm, rq : WireRun(rm, rq)' /\ rm[0] = pm[k] /\ rq[0] = pq[k]
<1> DEFINE K == Len(psWire)
           M == K - k
           rm == [j \in 0..M |-> pm[j + k]]
           rq == [j \in 0..M |-> pq[j + k]]
<1>1. psWire \in Seq(WirePieces) /\ K \in Nat /\ k \in Nat /\ k <= K /\ k >= 1 /\ M \in Nat
  <2>1. psWire \in Seq(WirePieces) BY DEF WireRun
  <2> QED BY <2>1
<1>2. psWire' \in Seq(WirePieces) /\ Len(psWire') = M /\ \A i \in 1..M : psWire'[i] = psWire[i + k]
  <2>1. k + 1 \in Nat \ {0} /\ K <= Len(psWire) /\ k + 1 <= K + 1 /\ K + 1 - (k + 1) = M BY <1>1
  <2> DEFINE a == k + 1
             w == SubSeq(psWire, a, K)
  <2>2. w \in Seq(WirePieces) /\ Len(w) = K + 1 - a /\ \A i \in 1..(K + 1 - a) : w[i] = psWire[a + i - 1]
    <3> HIDE DEF a, M
    <3>1. a \in Nat \ {0} /\ a <= K + 1 /\ K <= Len(psWire) /\ K \in Nat BY <1>1, <2>1 DEF a
    <3> HIDE DEF K
    <3> QED BY <1>1, <3>1, SubSeqIs
  <2>3. \A i \in 1..M : a + i - 1 = i + k BY <1>1
  <2> QED BY <2>1, <2>2, <2>3
<1>3. \A j \in 0..M : j + k \in 0..K BY <1>1
<1>4. \A j \in 0..(M - 1) : j + k \in 0..(K - 1) /\ j + k + 1 = (j + 1) + k /\ j \in 0..M /\ j + 1 \in 0..M /\ j + 1 \in 1..M BY <1>1
<1>5. 0 \in 0..M /\ M \in 0..M /\ 0 + k = k /\ M + k = K BY <1>1
<1>6. /\ pm \in [0..K -> 0..Len(psSaid)] /\ pq \in [0..K -> Nat]
      /\ pm[K] = Len(psSaid) /\ pq[K] = 0
      /\ \A j \in 0..(K - 1) :
           /\ pm[j] < Len(psSaid) /\ pq[j] < Size(pm[j] + 1)
           /\ psWire[j + 1] = PiecesOf(pm[j] + 1)[pq[j] + 1]
           /\ pq[j] + 1 = Size(pm[j] + 1) => pm[j + 1] = pm[j] + 1 /\ pq[j + 1] = 0
           /\ pq[j] + 1 # Size(pm[j] + 1) => pm[j + 1] = pm[j] /\ pq[j + 1] = pq[j] + 1
  BY DEF WireRun
<1> HIDE DEF K, M
<1>7. rm \in [0..M -> 0..Len(psSaid)] /\ rq \in [0..M -> Nat] BY <1>3, <1>6
<1>8. rm[M] = Len(psSaid) /\ rq[M] = 0 /\ rm[0] = pm[k] /\ rq[0] = pq[k] BY <1>5, <1>6
<1>9. \A j \in 0..M : rm[j] = pm[j + k] /\ rq[j] = pq[j + k] OBVIOUS
<1> HIDE DEF rm, rq
<1>10. \A j \in 0..(M - 1) :
         /\ rm[j] < Len(psSaid) /\ rq[j] < Size(rm[j] + 1)
         /\ psWire'[j + 1] = PiecesOf(rm[j] + 1)[rq[j] + 1]
         /\ rq[j] + 1 = Size(rm[j] + 1) => rm[j + 1] = rm[j] + 1 /\ rq[j + 1] = 0
         /\ rq[j] + 1 # Size(rm[j] + 1) => rm[j + 1] = rm[j] /\ rq[j + 1] = rq[j] + 1
  <2> SUFFICES ASSUME NEW j \in 0..(M - 1)
               PROVE  /\ rm[j] < Len(psSaid) /\ rq[j] < Size(rm[j] + 1)
                      /\ psWire'[j + 1] = PiecesOf(rm[j] + 1)[rq[j] + 1]
                      /\ rq[j] + 1 = Size(rm[j] + 1) => rm[j + 1] = rm[j] + 1 /\ rq[j + 1] = 0
                      /\ rq[j] + 1 # Size(rm[j] + 1) => rm[j + 1] = rm[j] /\ rq[j + 1] = rq[j] + 1
    OBVIOUS
  <2> DEFINE i == j + k
  <2>1. i \in 0..(K - 1) /\ rm[j] = pm[i] /\ rq[j] = pq[i] /\ rm[j + 1] = pm[i + 1] /\ rq[j + 1] = pq[i + 1]
        /\ psWire'[j + 1] = psWire[i + 1]
    BY <1>2, <1>4, <1>9
  <2> HIDE DEF i
  <2>2. /\ pm[i] < Len(psSaid) /\ pq[i] < Size(pm[i] + 1)
        /\ psWire[i + 1] = PiecesOf(pm[i] + 1)[pq[i] + 1]
        /\ pq[i] + 1 = Size(pm[i] + 1) => pm[i + 1] = pm[i] + 1 /\ pq[i + 1] = 0
        /\ pq[i] + 1 # Size(pm[i] + 1) => pm[i + 1] = pm[i] /\ pq[i + 1] = pq[i] + 1
    BY <1>6, <2>1
  <2>3. rm[j] < Len(psSaid) /\ rq[j] < Size(rm[j] + 1) BY <2>1, <2>2
  <2>4. psWire'[j + 1] = PiecesOf(rm[j] + 1)[rq[j] + 1] BY ONLY <2>1, <2>2
  <2>5. rq[j] + 1 = Size(rm[j] + 1) => rm[j + 1] = rm[j] + 1 /\ rq[j + 1] = 0 BY ONLY <2>1, <2>2
  <2>6. rq[j] + 1 # Size(rm[j] + 1) => rm[j + 1] = rm[j] /\ rq[j + 1] = rq[j] + 1 BY ONLY <2>1, <2>2
  <2> QED BY <2>3, <2>4, <2>5, <2>6
<1>11. \A n : Size(n)' = Size(n) /\ PiecesOf(n)' = PiecesOf(n) BY DEF Size, PiecesOf, Silent, OfAnthropic
<1>12. PICK sm, sq : sm = rm /\ sq = rq OBVIOUS
<1>13. WireRun(sm, sq)'
  <2>1. /\ sm \in [0..M -> 0..Len(psSaid)] /\ sq \in [0..M -> Nat] /\ sm[M] = Len(psSaid) /\ sq[M] = 0
        /\ \A j \in 0..(M - 1) :
             /\ sm[j] < Len(psSaid) /\ sq[j] < Size(sm[j] + 1)
             /\ psWire'[j + 1] = PiecesOf(sm[j] + 1)[sq[j] + 1]
             /\ sq[j] + 1 = Size(sm[j] + 1) => sm[j + 1] = sm[j] + 1 /\ sq[j + 1] = 0
             /\ sq[j] + 1 # Size(sm[j] + 1) => sm[j + 1] = sm[j] /\ sq[j + 1] = sq[j] + 1
    BY <1>7, <1>8, <1>10, <1>12
  <2>2. Len(psWire') = M /\ psWire' \in Seq(WirePieces) /\ WirePieces' = WirePieces BY <1>2 DEF WirePieces
  <2> QED BY <1>11, <2>1, <2>2 DEF WireRun
<1> QED BY <1>8, <1>12, <1>13

\* The server has written one more event: what the earlier ones say stays.
LEMMA SaidStays ==
  ASSUME Served, NEW e \in Events, psSaid' = Append(psSaid, e), psKind' = psKind
  PROVE  /\ \A n \in 1..Len(psSaid) : Size(n)' = Size(n) /\ PiecesOf(n)' = PiecesOf(n)
         /\ \A a : \A m \in 0..Len(psSaid) : Tells(a, m) => Tells(a, m)'
         /\ \A d, q : \A n \in 1..Len(psSaid) : DecoderAt(d, n, q) => DecoderAt(d, n, q)'
<1> DEFINE L == Len(psSaid)
<1>1. psSaid \in Seq(Events) /\ L \in Nat BY DEF Served
<1>2. \A n \in 1..L : psSaid'[n] = psSaid[n] BY <1>1
<1> HIDE DEF L
<1>3. \A n \in 1..L : Size(n)' = Size(n) /\ PiecesOf(n)' = PiecesOf(n) BY <1>2 DEF Size, PiecesOf, Silent, OfAnthropic
<1>4. ASSUME NEW d, NEW q, NEW n \in 1..L PROVE DecoderAt(d, n, q)' = DecoderAt(d, n, q)
  <2>1. Silent(n)' = Silent(n) /\ OfAnthropic' = OfAnthropic BY <1>2 DEF Silent, OfAnthropic
  <2> QED BY <2>1 DEF DecoderAt, NoEvent, HasEvent, Half, CommentField, EventField, DataField, Data
<1>5. ASSUME NEW m \in 0..L
      PROVE  /\ Texts(m)' = Texts(m) /\ \A n \in 1..m : IsEnd(n)' = IsEnd(n)
             /\ \A i : /\ Parts(i, m)' = Parts(i, m) /\ Heads(i, m)' = Heads(i, m) /\ Known(i, m)' = Known(i, m)
                       /\ Announced(i, m)' = Announced(i, m)
             /\ Begun(m)' = Begun(m)
  <2>1. \A n \in 1..m : n \in 1..L /\ psSaid'[n] = psSaid[n]
    <3>1. \A n \in 1..m : n \in 1..L BY <1>1
    <3> QED BY <1>2, <3>1
  <2>2. Texts(m)' = Texts(m) BY <2>1 DEF Texts
  <2>3. \A n \in 1..m : IsEnd(n)' = IsEnd(n) BY <2>1 DEF IsEnd
  <2>4. \A i : Parts(i, m)' = Parts(i, m) BY <2>1 DEF Parts
  <2>5. \A i : \A l \in 0..m : Heads(i, l)' = Heads(i, l)
    <3> SUFFICES ASSUME NEW l \in 0..m, NEW i PROVE Heads(i, l)' = Heads(i, l) OBVIOUS
    <3>1. \A n \in 1..l : psSaid'[n] = psSaid[n]
      <4>1. \A n \in 1..l : n \in 1..m BY <1>1
      <4> QED BY <2>1, <4>1
    <3> QED BY <3>1 DEF Heads
  <2>6. \A i : \A l \in 0..m : Known(i, l)' = Known(i, l)
    <3> SUFFICES ASSUME NEW l \in 0..m, NEW i PROVE Known(i, l)' = Known(i, l) OBVIOUS
    <3>1. Heads(i, l)' = Heads(i, l) BY <2>5
    <3>2. \A n \in Heads(i, l) : psSaid'[n] = psSaid[n]
      <4>1. \A n \in 1..l : n \in 1..m BY <1>1
      <4> QED BY <2>1, <4>1 DEF Heads
    <3> QED BY <3>1, <3>2 DEF Known
  <2>7. m \in 0..m BY <1>1
  <2>8. \A i : Announced(i, m)' = Announced(i, m)
    <3> SUFFICES ASSUME NEW i PROVE Announced(i, m)' = Announced(i, m) OBVIOUS
    <3>1. \A n \in Parts(i, m) : Known(i, n)' = Known(i, n)
      <4>1. \A n \in Parts(i, m) : n \in 0..m BY <1>1 DEF Parts
      <4> QED BY <2>6, <4>1
    <3>2. Announced(i, m)' = {n \in Parts(i, m)' : Known(i, n)' = Both} BY DEF Announced, Both
    <3> QED BY <2>4, <3>1, <3>2 DEF Announced
  <2>9. Begun(m)' = Begun(m) BY <2>5, <2>7 DEF Begun
  <2> QED BY <2>2, <2>3, <2>4, <2>5, <2>6, <2>7, <2>8, <2>9
<1>6. ASSUME NEW m \in 0..L, NEW a PROVE Stood(a, m)' = Stood(a, m)
  <2>1. Says(a.st, a.out, m)' = Says(a.st, a.out, m) BY <1>5 DEF Says, Both
  <2> QED BY <1>5, <2>1 DEF Stood
<1>7. ASSUME NEW m \in 0..L, NEW a, Tells(a, m) PROVE Tells(a, m)'
  <2>1. \A l \in 0..(m - 1) : l \in 0..L /\ l + 1 \in 1..L /\ Stood(a, l)' = Stood(a, l) /\ IsEnd(l + 1)' = IsEnd(l + 1)
    <3>1. \A l \in 0..(m - 1) : l \in 0..L /\ l + 1 \in 1..L /\ l + 1 \in 0..L /\ l + 1 \in 1..(l + 1) BY <1>1
    <3> QED BY <1>5, <1>6, <3>1
  <2>2. Accs' = Accs OBVIOUS
  <2> QED BY <1>6, <1>7, <2>1, <2>2 DEF Tells
<1> QED BY <1>3, <1>4, <1>7 DEF L

\* One more event is written.
Wrote(e) ==
  /\ psSaid' = Append(psSaid, e) /\ psKind' = psKind
  /\ psWire' = psWire \o Lines(psKind, e, Len(psSaid) + 1) \o <<[field |-> "blank", n |-> 0, last |-> TRUE]>>

\* A sequence after another.
LEMMA JoinedIs ==
  ASSUME NEW S, NEW s \in Seq(S), NEW t \in Seq(S), NEW u, u = s \o t
  PROVE  /\ u \in Seq(S) /\ Len(u) = Len(s) + Len(t)
         /\ \A j \in 1..Len(s) : u[j] = s[j]
         /\ \A j \in 1..Len(t) : u[Len(s) + j] = t[j]
OBVIOUS

\* The run of a stream with one more event.
LEMMA RunMore ==
  ASSUME Served, NEW pm, NEW pq, WireRun(pm, pq), NEW e \in Events, Wrote(e)
  PROVE  \E rm, rq : WireRun(rm, rq)' /\ rm[0] = pm[0] /\ rq[0] = pq[0]
<1>0. PICK K, L, n, w : K = Len(psWire) /\ L = Len(psSaid) /\ n = L + 1
                        /\ w = Lines(psKind, e, n) \o <<[field |-> "blank", n |-> 0, last |-> TRUE]>>
  OBVIOUS
<1>1. psWire \in Seq(WirePieces) /\ K \in Nat /\ L \in Nat /\ psSaid \in Seq(Events) /\ n \in Nat /\ DOMAIN psSaid = 1..L
  BY <1>0 DEF WireRun, Served
<1>2. Len(psSaid') = n /\ psSaid'[n] = e BY <1>0, <1>1 DEF Wrote
<1>3. PiecesOf(n)' = w BY <1>0, <1>2 DEF PiecesOf, Wrote
<1>4. w \in Seq(WirePieces) /\ Len(w) = Size(n)'
  <2>1. w \in Seq(WirePieces) /\ Len(w) = IF ~Quiet(e) /\ ByAnthropic(psKind) THEN 5 ELSE 3
    <3>1. w = Lines(psKind, e, n) \o <<[field |-> "blank", n |-> 0, last |-> TRUE]>> BY <1>0
    <3> QED BY ONLY <1>1, <3>1, LinesAre
  <2>2. Size(n)' = IF ~Quiet(e) /\ ByAnthropic(psKind) THEN 5 ELSE 3 BY <1>2 DEF Size, Quiet, ByAnthropic, Silent, OfAnthropic, Wrote
  <2> QED BY <2>1, <2>2
<1>5. PICK s : s = Len(w) /\ s \in Nat /\ s > 0
  <2>1. Len(w) \in Nat BY <1>4
  <2>2. Size(n)' = 5 \/ Size(n)' = 3 BY DEF Size
  <2> QED BY <1>4, <2>1, <2>2
<1>6. psWire' = psWire \o w
  <2>1. psWire' = (psWire \o Lines(psKind, e, n)) \o <<[field |-> "blank", n |-> 0, last |-> TRUE]>> BY <1>0 DEF Wrote
  <2>2. w = Lines(psKind, e, n) \o <<[field |-> "blank", n |-> 0, last |-> TRUE]>> BY <1>0
  <2>3. PICK v : v = Lines(psKind, e, n) /\ v \in Seq(WirePieces)
    <3>1. Lines(psKind, e, n) \in Seq(WirePieces) BY ONLY <1>1, <2>2, LinesAre
    <3> QED BY <3>1
  <2>4. PICK z : z = <<[field |-> "blank", n |-> 0, last |-> TRUE]>> /\ z \in Seq(WirePieces)
    <3>1. Blank \in WirePieces BY <1>1, FieldsRead
    <3>2. <<Blank>> \in Seq(WirePieces) BY <3>1
    <3> QED BY <3>2 DEF Blank, Full
  <2>5. (psWire \o v) \o z = psWire \o (v \o z) BY ONLY <1>1, <2>3, <2>4, ConcatAssociative
  <2> QED BY <2>1, <2>2, <2>3, <2>4, <2>5
<1>7. /\ psWire' \in Seq(WirePieces) /\ Len(psWire') = K + s
      /\ \A j \in 1..K : psWire'[j] = psWire[j]
      /\ \A j \in 1..s : psWire'[K + j] = w[j]
  <2>1. PICK u, v : u = psWire' /\ v = psWire OBVIOUS
  <2>2. u = v \o w /\ v \in Seq(WirePieces) /\ w \in Seq(WirePieces) /\ K = Len(v) /\ s = Len(w) BY <1>0, <1>1, <1>4, <1>5, <1>6, <2>1
  <2>3. /\ u \in Seq(WirePieces) /\ Len(u) = Len(v) + Len(w)
        /\ \A j \in 1..Len(v) : u[j] = v[j]
        /\ \A j \in 1..Len(w) : u[Len(v) + j] = w[j]
    BY ONLY <2>2, JoinedIs
  <2> QED BY <2>1, <2>2, <2>3
<1>8. /\ pm \in [0..K -> 0..L] /\ pq \in [0..K -> Nat] /\ pm[K] = L /\ pq[K] = 0
      /\ \A j \in 0..(K - 1) :
           /\ pm[j] < L /\ pq[j] < Size(pm[j] + 1)
           /\ psWire[j + 1] = PiecesOf(pm[j] + 1)[pq[j] + 1]
           /\ pq[j] + 1 = Size(pm[j] + 1) => pm[j + 1] = pm[j] + 1 /\ pq[j + 1] = 0
           /\ pq[j] + 1 # Size(pm[j] + 1) => pm[j + 1] = pm[j] /\ pq[j + 1] = pq[j] + 1
  BY <1>0 DEF WireRun
<1>9. PICK rm, rq : /\ rm = [j \in 0..(K + s) |-> IF j < K THEN pm[j] ELSE IF j < K + s THEN L ELSE n]
                    /\ rq = [j \in 0..(K + s) |-> IF j < K THEN pq[j] ELSE IF j < K + s THEN j - K ELSE 0]
  OBVIOUS
<1>10. /\ \A j \in 0..K : j \in 0..(K + s) /\ rm[j] = pm[j] /\ rq[j] = pq[j]
       /\ \A j \in K..(K + s - 1) : j \in 0..(K + s) /\ rm[j] = L /\ rq[j] = j - K
       /\ rm[K + s] = n /\ rq[K + s] = 0
  <2>1. \A j \in 0..(K - 1) : j \in 0..(K + s) /\ j < K BY <1>1, <1>5
  <2>2. \A j \in K..(K + s - 1) : j \in 0..(K + s) /\ ~(j < K) /\ j < K + s BY <1>1, <1>5
  <2>3. K + s \in 0..(K + s) /\ ~(K + s < K) /\ ~(K + s < K + s) BY <1>1, <1>5
  <2>4. \A j \in 0..K : j \in 0..(K - 1) \/ j = K BY <1>1
  <2>5. K \in K..(K + s - 1) /\ K - K = 0 BY <1>1, <1>5
  <2>6. \A j \in 0..(K - 1) : rm[j] = pm[j] /\ rq[j] = pq[j] BY <1>9, <2>1
  <2>7. \A j \in K..(K + s - 1) : rm[j] = L /\ rq[j] = j - K BY <1>9, <2>2
  <2>8. rm[K + s] = n /\ rq[K + s] = 0 BY <1>9, <2>3
  <2>9. rm[K] = pm[K] /\ rq[K] = pq[K] BY <1>8, <2>5, <2>7
  <2> QED BY <2>1, <2>2, <2>4, <2>5, <2>6, <2>7, <2>8, <2>9
<1>11. rm \in [0..(K + s) -> 0..n] /\ rq \in [0..(K + s) -> Nat]
  <2>1. \A j \in 0..(K + s) : j \in 0..K \/ j \in K..(K + s - 1) \/ j = K + s BY <1>1, <1>5
  <2>2. \A x \in 0..L : x \in 0..n BY <1>0, <1>1
  <2>3. L \in 0..n /\ n \in 0..n BY <1>0, <1>1
  <2>4. \A j \in K..(K + s - 1) : j - K \in Nat BY <1>1, <1>5
  <2>5. \A j \in 0..(K + s) : rm[j] \in 0..n /\ rq[j] \in Nat BY <1>8, <1>10, <2>1, <2>2, <2>3, <2>4
  <2>6. DOMAIN rm = 0..(K + s) /\ DOMAIN rq = 0..(K + s) /\ rm = [j \in 0..(K + s) |-> rm[j]] /\ rq = [j \in 0..(K + s) |-> rq[j]]
    BY <1>9
  <2> QED BY <2>5, <2>6
<1>12. ASSUME NEW j \in 0..(K + s - 1)
       PROVE  /\ rm[j] < n /\ rq[j] < Size(rm[j] + 1)'
              /\ psWire'[j + 1] = PiecesOf(rm[j] + 1)'[rq[j] + 1]
              /\ rq[j] + 1 = Size(rm[j] + 1)' => rm[j + 1] = rm[j] + 1 /\ rq[j + 1] = 0
              /\ rq[j] + 1 # Size(rm[j] + 1)' => rm[j + 1] = rm[j] /\ rq[j + 1] = rq[j] + 1
  <2>1. CASE j \in 0..(K - 1)
    <3>1. j \in 0..K /\ j + 1 \in 0..K /\ j + 1 \in 1..K BY <1>1, <2>1
    <3>2. pm[j] \in 0..L /\ pm[j] + 1 \in 1..L /\ pm[j] < n
      <4>1. pm[j] \in 0..L /\ pm[j] < L BY <1>8, <2>1, <3>1
      <4> QED BY <1>0, <1>1, <4>1
    <3>3. Size(pm[j] + 1)' = Size(pm[j] + 1) /\ PiecesOf(pm[j] + 1)' = PiecesOf(pm[j] + 1) BY <1>0, <3>2, SaidStays DEF Wrote
    <3>4. rm[j] = pm[j] /\ rq[j] = pq[j] /\ rm[j + 1] = pm[j + 1] /\ rq[j + 1] = pq[j + 1] /\ psWire'[j + 1] = psWire[j + 1]
      BY <1>7, <1>10, <3>1
    <3>5. /\ pq[j] < Size(pm[j] + 1)
          /\ psWire[j + 1] = PiecesOf(pm[j] + 1)[pq[j] + 1]
          /\ pq[j] + 1 = Size(pm[j] + 1) => pm[j + 1] = pm[j] + 1 /\ pq[j + 1] = 0
          /\ pq[j] + 1 # Size(pm[j] + 1) => pm[j + 1] = pm[j] /\ pq[j + 1] = pq[j] + 1
      BY <1>8, <2>1
    <3> QED BY ONLY <3>2, <3>3, <3>4, <3>5
  <2>2. CASE j \in K..(K + s - 1)
    <3>1. j + 1 - K \in 1..s /\ K + (j + 1 - K) = j + 1 /\ j - K + 1 = j + 1 - K /\ j - K < s BY <1>1, <1>5, <2>2
    <3>2. psWire'[j + 1] = w[j - K + 1] BY <1>7, <3>1
    <3>3. rm[j] = L /\ rq[j] = j - K /\ rm[j] + 1 = n BY <1>0, <1>10, <2>2
    <3>4. Size(n)' = s /\ PiecesOf(n)' = w BY <1>3, <1>4, <1>5
    <3>5. j - K + 1 = s => rm[j + 1] = n /\ rq[j + 1] = 0
      <4>1. j - K + 1 = s => j + 1 = K + s BY <1>1, <1>5, <2>2
      <4> QED BY <1>10, <4>1
    <3>6. j - K + 1 # s => rm[j + 1] = L /\ rq[j + 1] = j - K + 1
      <4>1. j - K + 1 # s => j + 1 \in K..(K + s - 1) BY <1>1, <1>5, <2>2
      <4>2. j + 1 - K = j - K + 1 BY <3>1
      <4>3. PICK x : x = j + 1 OBVIOUS
      <4>4. x \in K..(K + s - 1) => rm[x] = L /\ rq[x] = x - K BY <1>10
      <4>5. x - K = j - K + 1 BY <1>1, <1>5, <2>2, <4>3
      <4> QED BY ONLY <4>1, <4>3, <4>4, <4>5
    <3>7. L < n BY <1>0, <1>1
    <3>8. rm[j] < n /\ rq[j] < Size(rm[j] + 1)' BY <3>1, <3>3, <3>4, <3>7
    <3>9. psWire'[j + 1] = PiecesOf(rm[j] + 1)'[rq[j] + 1] BY <3>2, <3>3, <3>4
    <3> QED BY ONLY <3>3, <3>4, <3>5, <3>6, <3>8, <3>9
  <2> QED BY <1>1, <1>5, <2>1, <2>2
<1>13. WireRun(rm, rq)'
  <2>1. WirePieces' = WirePieces BY DEF WirePieces
  <2>2. rm[K + s] = n /\ rq[K + s] = 0 BY <1>10
  <2>3. /\ psWire' \in Seq(WirePieces') /\ rm \in [0..Len(psWire') -> 0..Len(psSaid')] /\ rq \in [0..Len(psWire') -> Nat]
        /\ rm[Len(psWire')] = Len(psSaid') /\ rq[Len(psWire')] = 0
    BY <1>2, <1>7, <1>11, <2>1, <2>2
  <2>4. \A j \in 0..(Len(psWire') - 1) :
          /\ rm[j] < Len(psSaid') /\ rq[j] < Size(rm[j] + 1)'
          /\ psWire'[j + 1] = PiecesOf(rm[j] + 1)'[rq[j] + 1]
          /\ rq[j] + 1 = Size(rm[j] + 1)' => rm[j + 1] = rm[j] + 1 /\ rq[j + 1] = 0
          /\ rq[j] + 1 # Size(rm[j] + 1)' => rm[j + 1] = rm[j] /\ rq[j + 1] = rq[j] + 1
    <3>1. Len(psWire') - 1 = K + s - 1
      <4>1. PICK z : z = Len(psWire') OBVIOUS
      <4>2. z = K + s BY <1>7, <4>1
      <4>3. K \in Nat /\ s \in Nat BY <1>1, <1>5
      <4>4. z - 1 = K + s - 1 BY ONLY <4>2, <4>3
      <4> QED BY <4>1, <4>4
    <3> QED BY ONLY <1>2, <1>12, <3>1
  <2> QED BY ONLY <2>3, <2>4 DEF WireRun
<1>14. rm[0] = pm[0] /\ rq[0] = pq[0]
  <2>1. 0 \in 0..K BY <1>1
  <2> QED BY <1>10, <2>1
<1> QED BY <1>13, <1>14

\* A decoder kept between chunks, ready to put out.
Ready(dec) == [buffer |-> dec.buffer, event |-> dec.event, data |-> dec.data, out |-> <<>>]
Cut(n) == <<[n |-> n, whole |-> FALSE]>>

\* What a decoder holds on its way through an event.
LEMMA DecoderHolds ==
  ASSUME NEW n \in Nat, NEW q \in Nat, q < Size(n), NEW d, DecoderAt(d, n, q)
  PROVE  /\ \/ d.buffer = <<>> /\ d.data \in {<<>>, Data(n)}
            \/ d.data = <<>> /\ \E f \in Fields : d.buffer = <<Half(f, n)>>
         /\ q = 0 => d.buffer = <<>> /\ ~d.event /\ d.data = <<>>
<1>1. q = 0 \/ q = 1 \/ q = 2 \/ q = 3 \/ q = 4 BY DEF Size
<1>2. (~Silent(n) /\ OfAnthropic) \/ q = 0 \/ q = 1 \/ q = 2 BY DEF Size
<1>3. CommentField \in Fields /\ EventField \in Fields /\ DataField \in Fields BY DEF Fields
<1>4. CASE q = 0 BY <1>4 DEF DecoderAt, NoEvent
<1>5. CASE q # 0 /\ Silent(n) BY ONLY <1>1, <1>2, <1>3, <1>5, DecoderAt(d, n, q) DEF DecoderAt, NoEvent
<1>6. CASE q # 0 /\ ~Silent(n) /\ ~OfAnthropic BY ONLY <1>1, <1>2, <1>3, <1>6, DecoderAt(d, n, q) DEF DecoderAt, NoEvent
<1>7. CASE q # 0 /\ ~Silent(n) /\ OfAnthropic BY ONLY <1>1, <1>3, <1>7, DecoderAt(d, n, q) DEF DecoderAt, NoEvent, HasEvent
<1> QED BY <1>4, <1>5, <1>6, <1>7

\* What a decoder puts out when the stream ends: nothing, the data of the event it was in, or
\* what is left of an event that was cut.
LEMMA FinishPutsOut ==
  ASSUME NEW n \in Nat, NEW q \in Nat, q < Size(n), NEW dec, Ready(dec) \in Decs, DecoderAt(Ready(dec), n, q), NEW cut
  PROVE  LET o == finish_decoder(dec, cut).out
         IN o = <<>> \/ (q # 0 /\ o \in {<<Data(n)>>, <<Cut(n)>>, <<<<>>>>})
<1> DEFINE d == [buffer |-> <<>>, event |-> dec.event, data |-> dec.data, out |-> <<>>]
           first == dec.buffer[1]
           e == IF dec.buffer = <<>> \/ cut = "name" THEN d ELSE Field(d, first.field, first.n, cut = "newline")
           b == flush_event(e)
<1>1. finish_decoder(dec, cut) = b BY DEF finish_decoder
<1>2. dec.event \in BOOLEAN /\ dec.data \in Seq(DataLines) BY DEF Ready, Decs
<1>3. d \in Decs /\ d.event = dec.event /\ d.data = dec.data /\ d.out = <<>> /\ d.buffer = <<>> BY <1>2 DEF Decs
<1>4. /\ \/ dec.buffer = <<>> /\ dec.data \in {<<>>, Data(n)}
         \/ dec.data = <<>> /\ \E f \in Fields : dec.buffer = <<Half(f, n)>>
      /\ q = 0 => dec.buffer = <<>> /\ ~dec.event /\ dec.data = <<>>
  <2>1. Ready(dec).buffer = dec.buffer /\ Ready(dec).event = dec.event /\ Ready(dec).data = dec.data BY DEF Ready
  <2> QED BY <2>1, DecoderHolds
<1> HIDE DEF d
<1>5. /\ e \in Decs /\ e.out = <<>> /\ e.data \in {<<>>, Data(n), Cut(n)}
      /\ q = 0 => ~e.event /\ e.data = <<>>
  <2>1. CASE dec.buffer = <<>> \/ cut = "name"
    <3>1. e = d BY <2>1
    <3> QED BY ONLY <1>3, <1>4, <3>1
  <2>2. CASE dec.buffer # <<>> /\ cut # "name"
    <3>1. PICK f \in Fields : dec.data = <<>> /\ dec.buffer = <<Half(f, n)>> BY <1>4, <2>2
    <3>2. first.field = f /\ first.n = n /\ f \in Fields
      <4>1. Half(f, n).field = f /\ Half(f, n).n = n BY FieldsRead
      <4> QED BY <3>1, <4>1
    <3>3. PICK whole \in BOOLEAN : e = Field(d, f, n, whole)
      <4>1. e = Field(d, f, n, cut = "newline") BY <2>2, <3>2
      <4> QED BY <4>1
    <3>4. q # 0 BY <1>4, <2>2
    <3>5. d.data = <<>> BY <1>3, <3>1
    <3> HIDE DEF e
    <3>6. CASE f = CommentField
      <4>1. e = d BY <3>3, <3>6 DEF Field, CommentField
      <4> QED BY <1>3, <3>4, <3>5, <4>1
    <3>7. CASE f = EventField
      <4>1. e = [d EXCEPT !.event = TRUE] BY <3>3, <3>7 DEF Field, EventField
      <4>2. e \in Decs /\ e.out = d.out /\ e.data = d.data BY <1>3, <4>1 DEF Decs
      <4> QED BY <1>3, <3>4, <3>5, <4>2
    <3>8. CASE f = DataField
      <4> DEFINE x == [n |-> n, whole |-> whole]
      <4>1. e = [d EXCEPT !.data = Append(@, x)] BY <3>3, <3>8 DEF Field, DataField
      <4>2. x \in DataLines BY DEF DataLines
      <4>3. <<x>> = Data(n) \/ <<x>> = Cut(n)
        <5>1. whole = TRUE \/ whole = FALSE OBVIOUS
        <5> QED BY <5>1 DEF Data, Cut
      <4> HIDE DEF x
      <4>4. Append(d.data, x) = <<x>> /\ <<x>> \in Seq(DataLines) BY <3>5, <4>2
      <4>5. e \in Decs /\ e.out = d.out /\ e.data = <<x>> BY <1>3, <4>1, <4>4 DEF Decs
      <4> QED BY <1>3, <3>4, <4>3, <4>5
    <3> QED BY <3>6, <3>7, <3>8 DEF Fields
  <2> QED BY <2>1, <2>2
<1> HIDE DEF e
<1>6. /\ ~e.event /\ e.data = <<>> => b = e
      /\ e.event \/ e.data # <<>> => b.out = Append(e.out, e.data)
  BY <1>5, Flushed
<1> HIDE DEF b
<1>7. b.out = <<>> \/ (q # 0 /\ b.out = Append(<<>>, e.data)) BY <1>5, <1>6
<1>8. \A x : Append(<<>>, x) = <<x>> OBVIOUS
<1>9. b.out = <<>> \/ (q # 0 /\ b.out = <<e.data>>) BY <1>7, <1>8
<1> QED BY <1>1, <1>5, <1>9

\* Data that was cut is an error.
LEMMA CutTells ==
  ASSUME Served, NEW m \in Nat, NEW n \in DOMAIN psSaid, n = m + 1, NEW a, Tells(a, m), NEW data, data = Cut(n) \/ data = <<>>
  PROVE  data \in Decoded /\ Tells(apply_stream_event(a, data), m)
<1> DEFINE b == apply_stream_event(a, data)
<1>1. data \in Decoded /\ (Len(data) # 1 \/ \E x \in ToSet(data) : ~x.whole)
  <2>1. CASE data = <<>>
    <3>1. data \in Seq(DataLines) /\ Len(data) = 0 /\ DOMAIN data = {} BY <2>1
    <3> QED BY <3>1 DEF Decoded
  <2>2. CASE data = Cut(n)
    <3> DEFINE x == [n |-> n, whole |-> FALSE]
    <3>1. n \in Nat
      <4>1. psSaid \in Seq(Events) BY DEF Served
      <4> QED BY <4>1
    <3>2. x \in DataLines /\ x.n = n /\ ~x.whole BY <3>1 DEF DataLines
    <3>3. data = <<x>> BY <2>2 DEF Cut
    <3> HIDE DEF x
    <3>4. <<x>> \in Seq(DataLines) /\ DOMAIN <<x>> = {1} /\ <<x>>[1] = x BY <3>2
    <3> QED BY <3>2, <3>3, <3>4 DEF Decoded, ToSet
  <2> QED BY <2>1, <2>2
<1>2. a \in Accs BY DEF Tells
<1>3. CASE a.err \/ a.st.done
  <2>1. b = a BY <1>3 DEF apply_stream_event
  <2> QED BY <1>1, <2>1
<1>4. CASE ~(a.err \/ a.st.done)
  <2>1. b = [a EXCEPT !.err = TRUE] BY <1>1, <1>4 DEF apply_stream_event
  <2>2. b \in Accs
    <3>1. 0 \in Nat OBVIOUS
    <3> QED BY <1>2, <2>1, <3>1, PlainTyped
  <2>3. b.err BY <1>2, <2>1 DEF Accs
  <2> HIDE DEF b
  <2>4. Tells(b, m) BY <2>2, <2>3 DEF Tells
  <2> QED BY <1>1, <2>4 DEF b
<1> QED BY <1>3, <1>4

\* The answer is what the server wrote: the conclusion of StreamedIsAnswered.
AnswerIs(state, out, answer) ==
  \E m \in 0..Len(psSaid) :
    /\ \A n \in 1..m : ~IsEnd(n)
    /\ state.done => m < Len(psSaid) /\ IsEnd(m + 1)
    /\ InTurn(answer.content, Texts(m)) /\ ShownInTurn(out, "text", 0, Texts(m))
    /\ DOMAIN answer.calls = Begun(m)
    /\ \A i \in Begun(m) :
         /\ InTurn(answer.calls[i], Parts(i, m))
         /\ Cardinality(Deltas(out, "start", i)) = 1
         /\ ShownInTurn(out, "part", i, {n \in Parts(i, m) : Known(i, n) = {"id", "name"}})
    /\ \A i \in Indexes \ Begun(m) : Deltas(out, "start", i) = {}

\* The answer tells what was gathered of a stream that ended.
LEMMA AnswerFollows ==
  ASSUME Served, NEW m \in 0..Len(psSaid), NEW a, Tells(a, m), ~a.err, \A i \in DOMAIN a.st.calls : a.st.calls[i].has = Both,
         NEW answer, answer = [content |-> a.st.content, calls |-> CallsOf(a.st.calls)],
         NEW out, out = Append(a.out, Shows("done", 0, 0))
  PROVE  AnswerIs(a.st, out, answer) /\ DOMAIN answer.calls \subseteq Indexes
<1>1. a \in Accs /\ Len(psSaid) \in Nat
  <2>1. psSaid \in Seq(Events) BY DEF Served
  <2> QED BY <2>1 DEF Tells
<1>2. PICK l \in 0..Len(psSaid) : Stood(a, l) /\ (a.st.done => l < Len(psSaid) /\ IsEnd(l + 1))
  <2>1. CASE a.st.done
    <3>1. PICK l \in 0..(m - 1) : Stood(a, l) /\ IsEnd(l + 1) BY <2>1 DEF Tells
    <3>2. l \in 0..Len(psSaid) /\ l < Len(psSaid) BY <1>1
    <3> QED BY <3>1, <3>2
  <2>2. CASE ~a.st.done BY <2>2 DEF Tells
  <2> QED BY <2>1, <2>2
<1>3. Says(a.st, a.out, l) /\ \A n \in 1..l : ~IsEnd(n) BY <1>2 DEF Stood
<1>4. /\ answer.content = a.st.content /\ DOMAIN answer.calls = DOMAIN a.st.calls
      /\ \A i \in DOMAIN a.st.calls : answer.calls[i] = a.st.calls[i].args
  BY DEF CallsOf
<1>5. /\ a.out \in Seq(ShownDeltas) /\ DOMAIN a.st.calls \subseteq Indexes BY <1>1, AccTyped
<1>6. /\ \A d, i : d # "done" => Deltas(out, d, i) = Deltas(a.out, d, i)
      /\ \A d, i, E : d # "done" /\ ShownInTurn(a.out, d, i, E) => ShownInTurn(out, d, i, E)
  <2>1. PICK x : x = Shows("done", 0, 0) /\ x.d = "done" BY DEF Shows
  <2> SUFFICES ASSUME NEW d, NEW i, d # "done"
               PROVE  /\ Deltas(out, d, i) = Deltas(a.out, d, i)
                      /\ \A E : ShownInTurn(a.out, d, i, E) => ShownInTurn(out, d, i, E)
    OBVIOUS
  <2>2. ~(x.d = d /\ x.i = i) /\ out = Append(a.out, x) BY <2>1
  <2>3. PICK o \in Seq(ShownDeltas) : o = a.out BY <1>5
  <2>4. /\ Deltas(Append(o, x), d, i) = Deltas(o, d, i)
        /\ \A E : ShownInTurn(o, d, i, E) => ShownInTurn(Append(o, x), d, i, E)
    BY ONLY <2>2, <2>3, OtherDelta
  <2> QED BY ONLY <2>2, <2>3, <2>4
<1>7. DOMAIN a.st.calls = Begun(l) /\ \A i \in Begun(l) : Known(i, l) = Both BY <1>3 DEF Says
<1>8. InTurn(answer.content, Texts(l)) /\ ShownInTurn(out, "text", 0, Texts(l)) BY <1>3, <1>4, <1>6 DEF Says
<1>9. ASSUME NEW i \in Begun(l)
      PROVE  /\ InTurn(answer.calls[i], Parts(i, l))
             /\ Cardinality(Deltas(out, "start", i)) = 1
             /\ ShownInTurn(out, "part", i, {n \in Parts(i, l) : Known(i, n) = {"id", "name"}})
  <2>1. i \in Indexes BY DEF Begun
  <2>2. InTurn(answer.calls[i], Parts(i, l)) BY <1>3, <1>4, <1>7 DEF Says
  <2>3. PICK k \in Nat : Deltas(out, "start", i) = {k}
    <3>1. \E k \in Nat : Deltas(a.out, "start", i) = {k} BY <1>3, <1>7, <2>1 DEF Says
    <3> QED BY <1>6, <3>1
  <2>4. Cardinality({k}) = 1 BY FS_Singleton
  <2>5. ShownInTurn(out, "part", i, {n \in Parts(i, l) : Known(i, n) = {"id", "name"}})
    <3>1. ShownInTurn(a.out, "part", i, Announced(i, l)) BY <1>3, <2>1 DEF Says
    <3> QED BY <1>6, <3>1 DEF Announced, Both
  <2> QED BY <2>2, <2>3, <2>4, <2>5
<1>10. ASSUME NEW i \in Indexes \ Begun(l) PROVE Deltas(out, "start", i) = {}
  <2>1. Known(i, l) = {}
    <3>1. l \in Nat BY <1>1
    <3> QED BY <3>1, NumbersBefore
  <2>2. Deltas(a.out, "start", i) = {} BY <1>3, <2>1 DEF Says, Both
  <2> QED BY <1>6, <2>2
<1> QED BY <1>2, <1>3, <1>4, <1>5, <1>7, <1>8, <1>9, <1>10 DEF AnswerIs

\* What has been gathered so far.
Acc == [st |-> psSt, out |-> psShown, err |-> FALSE]

\* Where the reader is: before piece q + 1 of event m + 1.
Held(m, q) ==
  Ready(psDec) \in Decs /\ DecoderAt(Ready(psDec), m + 1, q) /\ Tells(Acc, m) /\ ~psSt.done

\* What is held is what was reached.
LEMMA HeldReached ==
  ASSUME Served, NEW m, NEW q, Held(m, q)
  PROVE  Acc \in Accs /\ Reached(Acc, Ready(psDec), m, q)
<1>1. Acc \in Accs /\ Ready(psDec).out = <<>> BY DEF Held, Tells, Ready
<1>2. <<>> \in Seq(Decoded) OBVIOUS
<1>3. Gathers(Acc, <<>>) = Acc
  <2>1. 1 \in Nat OBVIOUS
  <2>2. Data(1) \in Seq(DataLines) BY <2>1 DEF Data, DataLines
  <2>3. <<>> \in Decoded BY DEF Decoded
  <2> QED BY <1>1, <1>2, <2>3, GatherMore
<1> QED BY <1>1, <1>2, <1>3 DEF Held, Reached

\* What the events decoded lead to: an error, an answer, or more to read.
LEMMA GatheredLeads ==
  ASSUME Served, psKind' = psKind, psSaid' = psSaid, NEW d, NEW eof \in BOOLEAN, Gather(d, eof),
         NEW m \in 0..Len(psSaid), Tells(Gathers(Acc, d.out), m)
  PROVE  /\ psPc' \in {"reading", "answered", "error"}
         /\ psPc' = "answered" => AnswerIs(psSt', psShown', psAnswer') /\ DOMAIN psAnswer'.calls \subseteq Indexes
         /\ psPc' = "reading" => ~eof /\ ~psSt'.done /\ Tells(Acc', m)
         /\ psDec' = [buffer |-> d.buffer, event |-> d.event, data |-> d.data]
<1> DEFINE a == Gathers(Acc, d.out)
           ends == ~a.err /\ (eof \/ a.st.done)
<1>1. /\ psSt' = a.st /\ psDec' = [buffer |-> d.buffer, event |-> d.event, data |-> d.data]
      /\ IF ends THEN finish_state(a.st)
         ELSE psPc' = (IF a.err THEN "error" ELSE "reading") /\ UNCHANGED <<psAnswer, psError>>
      /\ psShown' = IF ends /\ psPc' = "answered" THEN Append(a.out, Shows("done", 0, 0)) ELSE a.out
  BY DEF Gather, Gathers, Acc
<1>2. a \in Accs BY DEF Tells
<1> HIDE DEF a
<1>3. CASE a.err BY <1>1, <1>3
<1>4. CASE ends
  <2>1. \/ psPc' = "error"
        \/ /\ psPc' = "answered" /\ psAnswer' = [content |-> a.st.content, calls |-> CallsOf(a.st.calls)]
           /\ \A i \in DOMAIN a.st.calls : a.st.calls[i].has = Both
    BY <1>1, <1>4 DEF finish_state, Both
  <2>2. CASE psPc' = "answered"
    <3>1. /\ psAnswer' = [content |-> a.st.content, calls |-> CallsOf(a.st.calls)]
          /\ \A i \in DOMAIN a.st.calls : a.st.calls[i].has = Both
      BY <2>1, <2>2
    <3>2. psShown' = Append(a.out, Shows("done", 0, 0)) BY <1>1, <1>4, <2>2
    <3>3. Tells(a, m) /\ ~a.err BY <1>4 DEF a
    <3>4. AnswerIs(a.st, psShown', psAnswer') /\ DOMAIN psAnswer'.calls \subseteq Indexes BY <3>1, <3>2, <3>3, AnswerFollows
    <3> QED BY <1>1, <2>2, <3>4
  <2> QED BY <1>1, <2>1, <2>2
<1>5. CASE ~a.err /\ ~ends
  <2>1. ~eof /\ ~a.st.done /\ psPc' = "reading" /\ psShown' = a.out BY <1>1, <1>5
  <2>2. Acc' = a
    <3>1. Acc' = [st |-> a.st, out |-> a.out, err |-> FALSE] BY <1>1, <2>1 DEF Acc
    <3> QED BY <1>2, <1>5, <3>1 DEF Accs
  <2>3. Tells(Acc', m) BY <2>2 DEF a
  <2> QED BY <1>1, <2>1, <2>3
<1> QED BY <1>3, <1>4, <1>5

\* An answer stays what it is while the stream does.
AnswerAsIs == psPc \in {"answered", "asked"} /\ psShown # <<>> => AnswerIs(psSt, psShown, psAnswer)

\* What the answer tells, over a step that leaves the events alone.
LEMMA AnswerStays ==
  ASSUME psSaid' = psSaid
  PROVE  AnswerIs(psSt, psShown, psAnswer)' <=> AnswerIs(psSt', psShown', psAnswer')
<1>2. /\ \A m : Texts(m)' = Texts(m) /\ \A n : IsEnd(n)' = IsEnd(n)
      /\ \A i, m : Parts(i, m)' = Parts(i, m) /\ Heads(i, m)' = Heads(i, m)
  BY DEF Texts, IsEnd, Parts, Heads
<1>3. \A i, m : Known(i, m)' = Known(i, m) BY <1>2 DEF Known
<1>4. \A m : Begun(m)' = Begun(m) BY <1>2 DEF Begun
<1> QED BY <1>2, <1>3, <1>4 DEF AnswerIs

\* The invariant.
PsInv ==
  /\ psKind \in Kinds /\ psPc \in {"start", "reading", "answered", "error", "asked"} /\ Served
  /\ psPc = "start" => psSaid = <<>> /\ psWire = <<>> /\ psDec = NewDecoder /\ psSt = NewState /\ psShown = <<>>
  /\ psPc = "reading" => \E pm, pq : WireRun(pm, pq) /\ Held(pm[0], pq[0])
  /\ psPc \in {"answered", "asked"} => DOMAIN psAnswer.calls \subseteq Indexes
  /\ AnswerAsIs

\* In the beginning nothing is asked.
LEMMA StreamInit == PsInit => PsInv
<1> SUFFICES ASSUME PsInit PROVE PsInv OBVIOUS
<1>1. psSaid = <<>> /\ psPc = "start" /\ psKind \in Kinds BY DEF PsInit
<1>2. Served
  <2>1. psSaid \in Seq(Events) /\ DOMAIN psSaid = {} BY <1>1
  <2> QED BY <2>1 DEF Served
<1> QED BY <1>1, <1>2 DEF PsInv, AnswerAsIs, PsInit

\* A stream that begins.
LEMMA Begins ==
  ASSUME Served, psSaid = <<>>, psWire = <<>>, psDec = NewDecoder, psSt = NewState, psShown = <<>>
  PROVE  \E pm, pq : WireRun(pm, pq) /\ Held(pm[0], pq[0])
<1> DEFINE pm == [j \in 0..0 |-> 0]
<1>1. WireRun(pm, pm) /\ pm[0] = 0
  <2>1. Len(psWire) = 0 /\ Len(psSaid) = 0 /\ psWire \in Seq(WirePieces) /\ 0 \in 0..0 /\ 0 \in Nat /\ 0..(0 - 1) = {} OBVIOUS
  <2>2. pm \in [0..0 -> 0..0] /\ pm \in [0..0 -> Nat] /\ pm[0] = 0 BY <2>1
  <2> HIDE DEF pm
  <2> QED BY <2>1, <2>2 DEF WireRun
<1>2. Ready(psDec) \in Decs /\ DecoderAt(Ready(psDec), 0 + 1, 0)
  <2>1. Ready(psDec) = [buffer |-> <<>>, event |-> FALSE, data |-> <<>>, out |-> <<>>] BY DEF Ready, NewDecoder
  <2>2. Ready(psDec) \in Decs
    <3>1. <<>> \in Seq(WirePieces) /\ <<>> \in Seq(DataLines) /\ <<>> \in Seq(Seq(DataLines)) OBVIOUS
    <3> QED BY <2>1, <3>1 DEF Decs
  <2>3. NoEvent(Ready(psDec), <<>>, <<>>) BY <2>1 DEF NoEvent
  <2> QED BY <2>2, <2>3 DEF DecoderAt
<1>3. Acc \in Accs /\ ~psSt.done
  <2>1. psSt.done = FALSE /\ psSt \in States
    <3>1. <<>> \in Seq(Nat) /\ <<>> \in [{} -> Gathered] /\ {} \in SUBSET Indexes OBVIOUS
    <3>2. <<>> \in GatheredCalls BY <3>1 DEF GatheredCalls
    <3> QED BY <3>1, <3>2 DEF NewState, States
  <2>2. <<>> \in Seq(ShownDeltas) OBVIOUS
  <2> QED BY <2>1, <2>2 DEF Acc, Accs
<1>4. Says(psSt, psShown, 0)
  <2>1. psSt.content = <<>> /\ DOMAIN psSt.calls = {} /\ DOMAIN psShown = {} /\ 1..0 = {} BY DEF NewState
  <2>2. /\ Texts(0) = {} /\ \A i : Parts(i, 0) = {} /\ Heads(i, 0) = {} /\ Known(i, 0) = {} /\ Announced(i, 0) = {}
        /\ Begun(0) = {}
    BY <2>1 DEF Texts, Parts, Heads, Known, Announced, Begun
  <2>3. \A d, i : Deltas(psShown, d, i) = {} /\ ShownInTurn(psShown, d, i, {}) BY <2>1 DEF Deltas, ShownInTurn
  <2>4. InTurn(psSt.content, {}) BY <2>1 DEF InTurn, ToSet, NewState
  <2> QED BY <2>1, <2>2, <2>3, <2>4 DEF Says, Both
<1>5. Tells(Acc, 0)
  <2>1. Acc.st = psSt /\ Acc.out = psShown BY DEF Acc
  <2>2. Stood(Acc, 0)
    <3>1. 1..0 = {} OBVIOUS
    <3> QED BY <1>4, <2>1, <3>1 DEF Stood
  <2> QED BY <1>3, <2>1, <2>2 DEF Tells
<1> HIDE DEF pm
<1>6. Held(pm[0], pm[0]) BY <1>1, <1>2, <1>3, <1>5 DEF Held
<1> QED BY <1>1, <1>6

\* A new request keeps the invariant.
LEMMA SendsKeeps ==
  ASSUME PsInv, Sends
  PROVE  PsInv'
<1>1. /\ psPc = "start" /\ UNCHANGED <<psKind, psSaid, psWire, psDec, psSt, psShown>>
      /\ psSaid = <<>> /\ psWire = <<>> /\ psDec = NewDecoder /\ psSt = NewState /\ psShown = <<>> /\ Served /\ psKind \in Kinds
  BY DEF PsInv, Sends
<1>2. \/ psPc' \in {"error", "reading"}
      \/ psPc' = "answered" /\ DOMAIN psAnswer'.calls \subseteq Indexes
  <2>1. CASE parse_completion_response
    <3>1. PICK text \in {<<>>, <<1>>}, S \in SUBSET Indexes :
            psAnswer' = [content |-> text, calls |-> [i \in S |-> <<1>>]] /\ psPc' = "answered"
      BY <2>1 DEF parse_completion_response
    <3>2. psAnswer'.calls = [i \in S |-> <<1>>] BY <3>1
    <3>3. DOMAIN psAnswer'.calls = S BY <3>2
    <3> QED BY <3>1, <3>3
  <2>2. CASE ~parse_completion_response BY <2>2 DEF Sends
  <2> QED BY <2>1, <2>2
<1>3. Served' BY <1>1 DEF Served, Events, Types, Indexes, Both
<1>4. (\E pm, pq : WireRun(pm, pq) /\ Held(pm[0], pq[0]))'
  <2>1. (/\ Served /\ psSaid = <<>> /\ psWire = <<>> /\ psDec = NewDecoder /\ psSt = NewState /\ psShown = <<>>)'
    BY <1>1, <1>3 DEF NewDecoder, NewState
  <2> QED BY <2>1, Begins, PTL
<1>5. AnswerAsIs' BY <1>1 DEF AnswerAsIs
<1> QED BY <1>1, <1>2, <1>3, <1>4, <1>5 DEF PsInv, Kinds, Indexes

\* What the server may write.
LEMMA AnthropicWrites ==
  ASSUME Served, OfAnthropic, NEW e \in AnthropicEvents
  PROVE  /\ e \in Events /\ e.t \notin {"call", "[DONE]"}
         /\ e.t = "part" => \E l \in 1..Len(psSaid) : psSaid[l].t = "start" /\ psSaid[l].i = e.i
         /\ e.t = "start" => e.has = Both /\ \A l \in 1..Len(psSaid) : ~(psSaid[l].t = "start" /\ psSaid[l].i = e.i)
<1>1. psSaid \in Seq(Events) /\ DOMAIN psSaid = 1..Len(psSaid) BY DEF Served
<1>2. ToSet(psSaid) = {psSaid[l] : l \in 1..Len(psSaid)} BY <1>1 DEF ToSet
<1>3. \A l \in 1..Len(psSaid) : psSaid[l].t # "call" BY <1>1 DEF Served, OfAnthropic
<1>4. \A i : Opened(i) <=> \E l \in 1..Len(psSaid) : psSaid[l].t = "start" /\ psSaid[l].i = i
  BY <1>2, <1>3 DEF Opened, SaidOf
<1>5. CASE \E t \in {"text", "message_start", "message_delta", "message_stop", "error"} : e = Plain(t)
  <2>1. PICK t \in {"text", "message_start", "message_delta", "message_stop", "error"} : e = Plain(t) BY <1>5
  <2>2. e = [t |-> t, i |-> 0, has |-> {}, arg |-> FALSE] BY <2>1 DEF Plain, Event
  <2>3. e \in Events BY <2>2 DEF Events, Types, Indexes
  <2> QED BY <2>2, <2>3
<1>6. CASE \E i \in {j \in Indexes : ~Opened(j)} : e = Event("start", i, {"id", "name"}, FALSE)
  <2>1. PICK i \in {j \in Indexes : ~Opened(j)} : e = Event("start", i, {"id", "name"}, FALSE) BY <1>6
  <2>2. e = [t |-> "start", i |-> i, has |-> {"id", "name"}, arg |-> FALSE] /\ i \in Indexes /\ ~Opened(i) BY <2>1 DEF Event
  <2>3. e \in Events BY <2>2 DEF Events, Types, Both
  <2> QED BY <1>4, <2>2, <2>3 DEF Both
<1>7. CASE \E t \in {"part", "end"}, i \in {j \in Indexes : Opened(j)} : e = Event(t, i, {}, FALSE)
  <2>1. PICK t \in {"part", "end"}, i \in {j \in Indexes : Opened(j)} : e = Event(t, i, {}, FALSE) BY <1>7
  <2>2. e = [t |-> t, i |-> i, has |-> {}, arg |-> FALSE] /\ i \in Indexes /\ Opened(i) BY <2>1 DEF Event
  <2>3. e \in Events BY <2>2 DEF Events, Types
  <2> QED BY <1>4, <2>2, <2>3
<1>8. \/ \E t \in {"text", "message_start", "message_delta", "message_stop", "error"} : e = Plain(t)
      \/ \E i \in {j \in Indexes : ~Opened(j)} : e = Event("start", i, {"id", "name"}, FALSE)
      \/ \E t \in {"part", "end"}, i \in {j \in Indexes : Opened(j)} : e = Event(t, i, {}, FALSE)
  <2> DEFINE S == {"part", "end"}
             T == {j \in Indexes : Opened(j)}
             U == {j \in Indexes : ~Opened(j)}
             V == {"text", "message_start", "message_delta", "message_stop", "error"}
             A == {Plain(t) : t \in V}
             B == {Event("start", i, {"id", "name"}, FALSE) : i \in U}
             C == {Event(t, i, {}, FALSE) : t \in S, i \in T}
  <2>1. AnthropicEvents = A \cup B \cup C BY DEF AnthropicEvents
  <2> HIDE DEF S, T, U, V
  <2>2. e \in C => \E t \in S, i \in T : e = Event(t, i, {}, FALSE) BY DEF Event
  <2>3. e \in B => \E i \in U : e = Event("start", i, {"id", "name"}, FALSE) OBVIOUS
  <2>4. e \in A => \E t \in V : e = Plain(t) OBVIOUS
  <2> HIDE DEF A, B, C
  <2>5. e \in A \/ e \in B \/ e \in C BY <2>1
  <2>6. \/ \E t \in V : e = Plain(t)
        \/ \E i \in U : e = Event("start", i, {"id", "name"}, FALSE)
        \/ \E t \in S, i \in T : e = Event(t, i, {}, FALSE)
    BY ONLY <2>2, <2>3, <2>4, <2>5
  <2> QED BY <2>6 DEF S, T, U, V
<1> QED BY <1>5, <1>6, <1>7, <1>8

\* What an OpenAI server may write next.
LEMMA OpenaiWrites ==
  ASSUME NEW e \in OpenaiEvents
  PROVE  e \in Events /\ e.t \notin {"start", "part", "message_stop"}
<1>1. CASE \E t \in {"text", "usage", "comment", "stop", "tool_calls", "[DONE]"} : e = Plain(t)
  <2>1. PICK t \in {"text", "usage", "comment", "stop", "tool_calls", "[DONE]"} : e = Plain(t) BY <1>1
  <2>2. e = [t |-> t, i |-> 0, has |-> {}, arg |-> FALSE] BY <2>1 DEF Plain, Event
  <2>3. e \in Events BY <2>2 DEF Events, Types, Indexes
  <2> QED BY <2>2, <2>3
<1>2. CASE \E i \in Indexes, h \in {{}, {"id"}, {"name"}, {"id", "name"}}, a \in BOOLEAN : e = Event("call", i, h, a)
  <2>1. PICK i \in Indexes, h \in {{}, {"id"}, {"name"}, {"id", "name"}}, a \in BOOLEAN : e = Event("call", i, h, a) BY <1>2
  <2>2. e = [t |-> "call", i |-> i, has |-> h, arg |-> a] BY <2>1 DEF Event
  <2>3. h \in SUBSET Both BY DEF Both
  <2>4. e \in Events BY <2>2, <2>3 DEF Events, Types
  <2> QED BY <2>2, <2>4
<1> QED BY <1>1, <1>2 DEF OpenaiEvents

\* The server keeps to the protocol with one event more.
LEMMA ServedMore ==
  ASSUME Served, NEW e \in IF psKind = "anthropic" THEN AnthropicEvents ELSE OpenaiEvents, psSaid' = Append(psSaid, e), psKind' = psKind
  PROVE  e \in Events /\ Served'
<1> DEFINE L == Len(psSaid)
           n == L + 1
<1>1. psSaid \in Seq(Events) /\ L \in Nat BY DEF Served
<1>2. e \in Events
  <2>1. CASE psKind = "anthropic" BY <2>1, AnthropicWrites DEF OfAnthropic
  <2>2. CASE psKind # "anthropic" BY <2>2, OpenaiWrites
  <2> QED BY <2>1, <2>2
<1>3. /\ psSaid' \in Seq(Events) /\ DOMAIN psSaid' = 1..n /\ DOMAIN psSaid = 1..L /\ psSaid'[n] = e
      /\ \A k \in 1..L : psSaid'[k] = psSaid[k]
  BY <1>1, <1>2
<1>4. \A k \in 1..n : k \in 1..L \/ k = n BY <1>1
<1>5. \A k \in 1..L : \A l \in 1..(k - 1) : l \in 1..L BY <1>1
<1>6. n - 1 = L BY <1>1
<1>7. psSaid' \in Seq(Events') BY <1>3 DEF Events, Types, Indexes, Both
<1> HIDE DEF n, L
<1>8. CASE psKind = "anthropic"
  <2>1. /\ e.t \notin {"call", "[DONE]"}
        /\ e.t = "part" => \E l \in 1..L : psSaid[l].t = "start" /\ psSaid[l].i = e.i
        /\ e.t = "start" => e.has = Both /\ \A l \in 1..L : ~(psSaid[l].t = "start" /\ psSaid[l].i = e.i)
    BY <1>8, AnthropicWrites DEF OfAnthropic, L
  <2>2. ASSUME NEW k \in 1..n
        PROVE  /\ psSaid'[k].t \notin {"call", "[DONE]"}
               /\ psSaid'[k].t = "part" => \E l \in 1..(k - 1) : psSaid'[l].t = "start" /\ psSaid'[l].i = psSaid'[k].i
               /\ psSaid'[k].t = "start" =>
                    psSaid'[k].has = Both /\ \A l \in 1..(k - 1) : ~(psSaid'[l].t = "start" /\ psSaid'[l].i = psSaid'[k].i)
    <3>1. CASE k \in 1..L
      <4>1. /\ psSaid[k].t \notin {"call", "[DONE]"}
            /\ psSaid[k].t = "part" => \E l \in 1..(k - 1) : psSaid[l].t = "start" /\ psSaid[l].i = psSaid[k].i
            /\ psSaid[k].t = "start" =>
                 psSaid[k].has = Both /\ \A l \in 1..(k - 1) : ~(psSaid[l].t = "start" /\ psSaid[l].i = psSaid[k].i)
        BY <1>3, <1>8, <3>1 DEF Served
      <4>2. psSaid'[k] = psSaid[k] /\ \A l \in 1..(k - 1) : psSaid'[l] = psSaid[l] BY <1>3, <1>5, <3>1
      <4> QED BY <4>1, <4>2
    <3>2. CASE k = n BY <1>3, <1>6, <2>1, <3>2
    <3> QED BY <1>4, <3>1, <3>2
  <2> QED BY <1>3, <1>2, <1>7, <1>8, <2>2 DEF Served, Both
<1>9. CASE psKind # "anthropic"
  <2>1. e.t \notin {"start", "part", "message_stop"} BY <1>9, OpenaiWrites
  <2>2. \A k \in 1..n : psSaid'[k].t \notin {"start", "part", "message_stop"} BY <1>3, <1>4, <1>9, <2>1 DEF Served
  <2> QED BY <1>2, <1>3, <1>7, <1>9, <2>2 DEF Served
<1> QED BY <1>8, <1>9

\* The server's next event keeps the invariant.
LEMMA WritesKeeps ==
  ASSUME PsInv, Server_writes
  PROVE  PsInv'
<1>1. psPc = "reading" /\ UNCHANGED <<psKind, psPc, psDec, psSt, psShown, psAnswer>> /\ Served /\ psKind \in Kinds
  BY DEF PsInv, Server_writes
<1>2. PICK e \in IF psKind = "anthropic" THEN AnthropicEvents ELSE OpenaiEvents :
        /\ psSaid' = Append(psSaid, e)
        /\ psWire' = psWire \o Lines(psKind, e, Len(psSaid) + 1) \o <<[field |-> "blank", n |-> 0, last |-> TRUE]>>
  BY DEF Server_writes
<1>3. e \in Events /\ Served' BY <1>1, <1>2, ServedMore
<1>4. Wrote(e) BY <1>1, <1>2 DEF Wrote
<1>5. PICK pm, pq : WireRun(pm, pq) /\ Held(pm[0], pq[0]) BY <1>1 DEF PsInv
<1>6. PICK rm, rq : WireRun(rm, rq)' /\ rm[0] = pm[0] /\ rq[0] = pq[0] BY <1>1, <1>3, <1>4, <1>5, RunMore
<1>7. Held(rm[0], rq[0])'
  <2> DEFINE m == pm[0]
             q == pq[0]
  <2>1. Ready(psDec)' = Ready(psDec) /\ Acc' = Acc /\ Decs' = Decs BY <1>1 DEF Ready, Acc
  <2>2. m \in 0..Len(psSaid) /\ Len(psSaid) \in Nat /\ (m + 1 \in 1..Len(psSaid) \/ q = 0)
    <3>1. Len(psSaid) \in Nat /\ Len(psWire) \in Nat
      <4>1. psSaid \in Seq(Events) /\ psWire \in Seq(WirePieces) BY <1>1, <1>5 DEF Served, WireRun
      <4> QED BY <4>1
    <3>2. m \in 0..Len(psSaid)
      <4>1. 0 \in 0..Len(psWire) BY <3>1
      <4> QED BY <1>5, <4>1 DEF WireRun
    <3>3. CASE Len(psWire) = 0 BY <1>5, <3>1, <3>2, <3>3 DEF WireRun
    <3>4. CASE Len(psWire) # 0
      <4>1. 0 \in 0..(Len(psWire) - 1) BY <3>1, <3>4
      <4>2. m < Len(psSaid) BY <1>5, <4>1 DEF WireRun
      <4> QED BY <3>1, <3>2, <4>2
    <3> QED BY <3>3, <3>4
  <2>3. DecoderAt(Ready(psDec), m + 1, q) /\ Tells(Acc, m) /\ Ready(psDec) \in Decs /\ ~psSt.done BY <1>5 DEF Held
  <2> HIDE DEF m, q
  <2>4. PICK d, a : d = Ready(psDec) /\ a = Acc OBVIOUS
  <2>5. /\ \A b : \A k \in 0..Len(psSaid) : Tells(b, k) => Tells(b, k)'
        /\ \A b, k : \A n \in 1..Len(psSaid) : DecoderAt(b, n, k) => DecoderAt(b, n, k)'
    BY <1>1, <1>2, <1>3, SaidStays
  <2>6. Tells(a, m)' BY <2>2, <2>3, <2>4, <2>5
  <2>7. DecoderAt(d, m + 1, q)'
    <3>1. CASE m + 1 \in 1..Len(psSaid) BY <2>3, <2>4, <2>5, <3>1
    <3>2. CASE q = 0
      <4>1. NoEvent(d, <<>>, <<>>) BY <2>3, <2>4, <3>2 DEF DecoderAt
      <4> QED BY <3>2, <4>1 DEF DecoderAt, NoEvent
    <3> QED BY <2>2, <3>1, <3>2
  <2>8. rm[0] = m /\ rq[0] = q BY <1>6 DEF m, q
  <2>9. Ready(psDec)' \in Decs' /\ ~psSt'.done /\ Ready(psDec)' = d /\ Acc' = a BY <1>1, <2>1, <2>3, <2>4
  <2>10. Tells(Acc, m)' BY <2>6, <2>9 DEF Tells, Stood, Says
  <2>11. DecoderAt(Ready(psDec), m + 1, q)' BY <2>7, <2>9 DEF DecoderAt, NoEvent, HasEvent
  <2> QED BY <2>8, <2>9, <2>10, <2>11 DEF Held
<1> QED BY <1>1, <1>3, <1>6, <1>7 DEF PsInv, AnswerAsIs, Kinds

\* What has been gathered tells the events as long as they stay.
LEMMA TellsStays ==
  ASSUME psSaid' = psSaid
  PROVE  \A a, m : Tells(a, m) => Tells(a, m)'
<1>1. /\ \A m : Texts(m)' = Texts(m) /\ \A n : IsEnd(n)' = IsEnd(n)
      /\ \A i, m : Parts(i, m)' = Parts(i, m) /\ Heads(i, m)' = Heads(i, m)
  BY DEF Texts, IsEnd, Parts, Heads
<1>2. \A i, m : Known(i, m)' = Known(i, m) BY <1>1 DEF Known
<1>3. /\ \A m : Begun(m)' = Begun(m)
      /\ \A i, m : Announced(i, m)' = Announced(i, m)
  <2>1. \A m : Begun(m)' = Begun(m) BY <1>1 DEF Begun
  <2>2. \A i, m : Announced(i, m)' = Announced(i, m) BY <1>1, <1>2 DEF Announced, Both
  <2> QED BY <2>1, <2>2
<1>4. \A state, out, m : Says(state, out, m)' = Says(state, out, m) BY <1>1, <1>2, <1>3 DEF Says, Both
<1>5. \A a, m : Stood(a, m)' = Stood(a, m) BY <1>1, <1>4 DEF Stood
<1> QED BY <1>1, <1>5 DEF Tells

\* A chunk that is read keeps the invariant.
LEMMA ReadsKeeps ==
  ASSUME PsInv, Reads_chunk
  PROVE  PsInv'
<1>1. psPc = "reading" /\ psKind' = psKind /\ psSaid' = psSaid /\ Served /\ psKind \in Kinds BY DEF PsInv, Reads_chunk
<1>2. PICK k \in 1..PsMaxChunk : /\ k <= Len(psWire) /\ Gather(push(psDec, SubSeq(psWire, 1, k)), FALSE)
                                 /\ psWire' = SubSeq(psWire, k + 1, Len(psWire))
  BY DEF Reads_chunk
<1>3. PICK pm, pq : WireRun(pm, pq) /\ Held(pm[0], pq[0]) BY <1>1 DEF PsInv
<1>4. k \in 1..Len(psWire)
  <2>1. psWire \in Seq(WirePieces) BY <1>3 DEF WireRun
  <2> QED BY <1>2, <2>1, StreamConstants
<1> DEFINE d == push(psDec, SubSeq(psWire, 1, k))
<1>5. Reached(Acc, d, pm[k], pq[k])
  <2>1. Acc \in Accs /\ Reached(Acc, Ready(psDec), pm[0], pq[0]) BY <1>1, <1>3, HeldReached
  <2>2. d = FoldLeft(Piece, Ready(psDec), SubSeq(psWire, 1, k)) BY DEF push, Ready
  <2> QED BY <1>1, <1>3, <1>4, <2>1, <2>2, ReachedByChunk
<1>6. pm[k] \in 0..Len(psSaid)
  <2>1. k \in 0..Len(psWire) BY <1>4
  <2> QED BY <1>3, <2>1 DEF WireRun
<1>7. Gather(d, FALSE) BY <1>2
<1>8. PICK m, q : m = pm[k] /\ q = pq[k] OBVIOUS
<1> HIDE DEF d
<1>9. /\ d \in Decs /\ DecoderAt(d, m + 1, q) /\ Tells(Gathers(Acc, d.out), m) /\ m \in 0..Len(psSaid)
  BY <1>5, <1>6, <1>8 DEF Reached
<1>10. /\ psPc' \in {"reading", "answered", "error"}
       /\ psPc' = "answered" => AnswerIs(psSt', psShown', psAnswer') /\ DOMAIN psAnswer'.calls \subseteq Indexes
       /\ psPc' = "reading" => ~FALSE /\ ~psSt'.done /\ Tells(Acc', m)
       /\ psDec' = [buffer |-> d.buffer, event |-> d.event, data |-> d.data]
  BY <1>1, <1>7, <1>9, GatheredLeads
<1>11. Served' BY <1>1 DEF Served, Events, Types, Indexes, Both
<1>12. psPc' = "reading" => (\E rm, rq : WireRun(rm, rq) /\ Held(rm[0], rq[0]))'
  <2> SUFFICES ASSUME psPc' = "reading" PROVE (\E rm, rq : WireRun(rm, rq) /\ Held(rm[0], rq[0]))' OBVIOUS
  <2>1. PICK rm, rq : WireRun(rm, rq)' /\ rm[0] = m /\ rq[0] = q BY <1>1, <1>2, <1>3, <1>4, <1>8, RunLeft
  <2>2. Held(m, q)'
    <3>1. Ready(psDec)' = [buffer |-> d.buffer, event |-> d.event, data |-> d.data, out |-> <<>>] BY <1>10 DEF Ready
    <3>2. Ready(psDec)' \in Decs'
      <4>1. d.buffer \in Seq(WirePieces) /\ d.event \in BOOLEAN /\ d.data \in Seq(DataLines) BY <1>9 DEF Decs
      <4>2. <<>> \in Seq(Seq(DataLines)) OBVIOUS
      <4> QED BY <3>1, <4>1, <4>2 DEF Decs
    <3>3. DecoderAt(Ready(psDec), m + 1, q)'
      <4>1. \A n : Silent(n)' = Silent(n) BY <1>1 DEF Silent
      <4>2. OfAnthropic' = OfAnthropic BY <1>1 DEF OfAnthropic
      <4>3. PICK x : x = Ready(psDec)' /\ x.buffer = d.buffer /\ x.event = d.event /\ x.data = d.data BY <3>1
      <4>4. DecoderAt(x, m + 1, q) BY <1>9, <4>3 DEF DecoderAt, NoEvent, HasEvent
      <4> QED BY <4>1, <4>2, <4>3, <4>4 DEF DecoderAt, NoEvent, HasEvent
    <3>4. Tells(Acc, m)'
      <4>1. PICK a : a = Acc' /\ Tells(a, m) BY <1>10, <2>1, <1>9
      <4>2. Tells(a, m)' BY <1>1, <4>1, TellsStays
      <4> QED BY <4>1, <4>2 DEF Tells, Stood, Says
    <3> QED BY <1>10, <3>2, <3>3, <3>4 DEF Held
  <2> QED BY <2>1, <2>2
<1>13. AnswerAsIs' BY <1>1, <1>10, AnswerStays DEF AnswerAsIs
<1>14. psKind' \in Kinds' BY <1>1 DEF Kinds
<1> QED BY <1>10, <1>11, <1>12, <1>13, <1>14 DEF PsInv, Indexes

\* The end of the stream keeps the invariant.
LEMMA EndsKeeps ==
  ASSUME PsInv, Stream_ends
  PROVE  PsInv'
<1>1. psPc = "reading" /\ psKind' = psKind /\ psSaid' = psSaid /\ Served /\ psKind \in Kinds BY DEF PsInv, Stream_ends
<1>2. PICK cut : Gather(finish_decoder(psDec, cut), TRUE) BY DEF Stream_ends
<1>3. PICK pm, pq : WireRun(pm, pq) /\ Held(pm[0], pq[0]) BY <1>1 DEF PsInv
<1>4. PICK m, q : m = pm[0] /\ q = pq[0] OBVIOUS
<1>5. /\ m \in 0..Len(psSaid) /\ q \in Nat /\ q < Size(m + 1) /\ m \in Nat
      /\ m + 1 \in DOMAIN psSaid \/ q = 0
  <2>1. Len(psSaid) \in Nat /\ Len(psWire) \in Nat /\ DOMAIN psSaid = 1..Len(psSaid)
    <3>1. psSaid \in Seq(Events) /\ psWire \in Seq(WirePieces) BY <1>1, <1>3 DEF Served, WireRun
    <3> QED BY <3>1
  <2>2. 0 \in 0..Len(psWire) BY <2>1
  <2>3. m \in 0..Len(psSaid) /\ q \in Nat BY <1>3, <1>4, <2>2 DEF WireRun
  <2>4. Size(m + 1) \in Nat /\ 0 < Size(m + 1) BY DEF Size
  <2>5. CASE Len(psWire) = 0
    <3>1. q = 0 BY <1>3, <1>4, <2>5 DEF WireRun
    <3> QED BY <2>3, <2>4, <3>1
  <2>6. CASE Len(psWire) # 0
    <3>1. 0 \in 0..(Len(psWire) - 1) BY <2>1, <2>6
    <3>2. m < Len(psSaid) /\ q < Size(m + 1) BY <1>3, <1>4, <3>1 DEF WireRun
    <3>3. m + 1 \in 1..Len(psSaid) BY <2>1, <2>3, <3>2
    <3> QED BY <2>1, <2>3, <3>2, <3>3
  <2> QED BY <2>5, <2>6
<1> DEFINE d == finish_decoder(psDec, cut)
<1>6. d.out = <<>> \/ (q # 0 /\ d.out \in {<<Data(m + 1)>>, <<Cut(m + 1)>>, <<<<>>>>})
  <2>1. m + 1 \in Nat BY <1>5
  <2>2. Ready(psDec) \in Decs /\ DecoderAt(Ready(psDec), m + 1, q) BY <1>3, <1>4 DEF Held
  <2> QED BY <1>5, <2>1, <2>2, FinishPutsOut
<1>7. Acc \in Accs /\ Tells(Acc, m) BY <1>3, <1>4 DEF Held, Tells
<1>8. Gather(d, TRUE) BY <1>2
<1> HIDE DEF d
<1>9. PICK l \in 0..Len(psSaid) : Tells(Gathers(Acc, d.out), l)
  <2>1. Gathers(Acc, <<>>) = Acc /\ \A x \in Decoded : Gathers(Acc, <<x>>) = apply_stream_event(Acc, x)
    <3>1. <<>> \in Seq(Decoded) /\ \A x : Append(<<>>, x) = <<x>> OBVIOUS
    <3>2. <<>> \in Decoded BY DEF Decoded
    <3>3. PICK a, s : a = Acc /\ a \in Accs /\ s = <<>> /\ s \in Seq(Decoded) BY <1>7, <3>1
    <3>4. \A x \in Decoded : Gathers(a, s) \in Accs /\ Gathers(a, <<>>) = a /\ Gathers(a, Append(s, x)) = apply_stream_event(Gathers(a, s), x)
      BY ONLY <1>1, <3>3, GatherMore
    <3> QED BY ONLY <3>1, <3>2, <3>3, <3>4
  <2>2. CASE d.out = <<>> BY <1>5, <1>7, <2>1, <2>2
  <2>3. CASE d.out = <<Data(m + 1)>> /\ q # 0
    <3>1. m + 1 \in DOMAIN psSaid /\ m \in Nat BY <1>5, <2>3
    <3>2. Data(m + 1) \in Decoded /\ Tells(apply_stream_event(Acc, Data(m + 1)), m + 1) BY <1>1, <1>7, <3>1, TellsNext
    <3>3. m + 1 \in 0..Len(psSaid)
      <4>1. psSaid \in Seq(Events) BY <1>1 DEF Served
      <4> QED BY <3>1, <4>1
    <3> QED BY <2>1, <2>3, <3>2, <3>3
  <2>4. CASE d.out \in {<<Cut(m + 1)>>, <<<<>>>>} /\ q # 0
    <3>1. m + 1 \in DOMAIN psSaid /\ m \in Nat BY <1>5, <2>4
    <3>2. PICK x : (x = Cut(m + 1) \/ x = <<>>) /\ d.out = <<x>> BY <2>4
    <3>3. x \in Decoded /\ Tells(apply_stream_event(Acc, x), m) BY <1>1, <1>7, <3>1, <3>2, CutTells
    <3> QED BY <1>5, <2>1, <3>2, <3>3
  <2> QED BY <1>6, <2>2, <2>3, <2>4
<1>10. /\ psPc' \in {"reading", "answered", "error"}
       /\ psPc' = "answered" => AnswerIs(psSt', psShown', psAnswer') /\ DOMAIN psAnswer'.calls \subseteq Indexes
       /\ psPc' = "reading" => ~TRUE
  BY <1>1, <1>8, <1>9, GatheredLeads
<1>11. Served' BY <1>1 DEF Served, Events, Types, Indexes, Both
<1>12. AnswerAsIs' BY <1>1, <1>10, AnswerStays DEF AnswerAsIs
<1>13. psKind' \in Kinds' BY <1>1 DEF Kinds
<1> QED BY <1>10, <1>11, <1>12, <1>13 DEF PsInv, Indexes

\* The other steps keep the invariant.
LEMMA OthersKeep ==
  ASSUME PsInv, Read_fails \/ Asks_again \/ UNCHANGED psVars
  PROVE  PsInv'
<1>1. UNCHANGED <<psKind, psSaid, psDec, psSt, psShown, psAnswer>> BY DEF Read_fails, Asks_again, psVars
<1>2. Served' BY <1>1 DEF Served, Events, Types, Indexes, Both, PsInv
<1>3. psKind' \in Kinds' BY <1>1 DEF Kinds, PsInv
<1>4. CASE Read_fails
  <2>1. psPc' = "error" BY <1>4 DEF Read_fails
  <2> QED BY <1>2, <1>3, <2>1 DEF PsInv, AnswerAsIs
<1>5. CASE Asks_again
  <2>1. psPc' = "asked" /\ psPc = "answered" BY <1>5 DEF Asks_again
  <2>2. AnswerAsIs' BY <1>1, <2>1, AnswerStays DEF PsInv, AnswerAsIs
  <2> QED BY <1>1, <1>2, <1>3, <2>1, <2>2 DEF PsInv, Indexes
<1>6. CASE UNCHANGED psVars
  <2>1. UNCHANGED <<psPc, psWire>> BY <1>6 DEF psVars
  <2>2. AnswerAsIs' BY <1>1, <2>1, AnswerStays DEF PsInv, AnswerAsIs
  <2>3. psPc' = "reading" => (\E pm, pq : WireRun(pm, pq) /\ Held(pm[0], pq[0]))'
    <3> SUFFICES ASSUME psPc = "reading" PROVE (\E pm, pq : WireRun(pm, pq) /\ Held(pm[0], pq[0]))' BY <2>1
    <3>1. PICK pm, pq : WireRun(pm, pq) /\ Held(pm[0], pq[0]) BY DEF PsInv
    <3>2. /\ \A n : Size(n)' = Size(n) /\ PiecesOf(n)' = PiecesOf(n) /\ Silent(n)' = Silent(n)
          /\ OfAnthropic' = OfAnthropic
      BY <1>1 DEF Size, PiecesOf, Silent, OfAnthropic
    <3>3. WireRun(pm, pq)' BY <1>1, <2>1, <3>1, <3>2 DEF WireRun, WirePieces
    <3>4. Ready(psDec)' = Ready(psDec) /\ Acc' = Acc /\ Decs' = Decs BY <1>1 DEF Ready, Acc
    <3>5. PICK a, d : a = Acc /\ d = Ready(psDec) OBVIOUS
    <3>6. Tells(a, pm[0])' /\ DecoderAt(d, pm[0] + 1, pq[0])'
      <4>1. Tells(a, pm[0]) /\ DecoderAt(d, pm[0] + 1, pq[0]) BY <3>1, <3>5 DEF Held
      <4> QED BY <1>1, <3>2, <4>1, TellsStays DEF DecoderAt, NoEvent, HasEvent
    <3>7. Tells(Acc, pm[0])' /\ DecoderAt(Ready(psDec), pm[0] + 1, pq[0])'
      BY <3>4, <3>5, <3>6 DEF Tells, Stood, Says, DecoderAt, NoEvent, HasEvent
    <3>8. Held(pm[0], pq[0])' BY <1>1, <3>1, <3>4, <3>7 DEF Held
    <3> QED BY <3>3, <3>8
  <2> QED BY <1>1, <1>2, <1>3, <2>1, <2>2, <2>3 DEF PsInv, Indexes, NewDecoder, NewState
<1> QED BY <1>4, <1>5, <1>6

\* The invariant holds.
LEMMA StreamInvariant == PsSpec => []PsInv
<1>1. PsInit => PsInv BY StreamInit
<1>2. PsInv /\ [PsNext]_psVars => PsInv'
  <2> SUFFICES ASSUME PsInv, [PsNext]_psVars PROVE PsInv' OBVIOUS
  <2>1. CASE anthropic_complete BY <2>1, SendsKeeps DEF anthropic_complete
  <2>2. CASE openai_complete BY <2>2, SendsKeeps DEF openai_complete
  <2>3. CASE ollama_complete BY <2>3, SendsKeeps DEF ollama_complete
  <2>4. CASE Server_writes BY <2>4, WritesKeeps
  <2>5. CASE Reads_chunk BY <2>5, ReadsKeeps
  <2>6. CASE Stream_ends BY <2>6, EndsKeeps
  <2>7. CASE Read_fails \/ Asks_again \/ UNCHANGED psVars BY <2>7, OthersKeep
  <2> QED BY <2>1, <2>2, <2>3, <2>4, <2>5, <2>6, <2>7 DEF PsNext
<1> QED BY <1>1, <1>2, PTL DEF PsSpec

\* A half line of the stream is a line of one of the events written.
LEMMA HalfOfEvent ==
  ASSUME Served, NEW pm, NEW pq, WireRun(pm, pq), NEW k \in 1..Len(psWire), ~psWire[k].last
  PROVE  psWire[k].n \in DOMAIN psSaid
<1>1. psSaid \in Seq(Events) /\ psWire \in Seq(WirePieces) BY DEF Served, WireRun
<1>2. k - 1 \in 0..(Len(psWire) - 1) /\ k - 1 \in 0..Len(psWire) /\ (k - 1) + 1 = k BY <1>1
<1> DEFINE m == pm[k - 1]
           q == pq[k - 1]
<1>3. m \in 0..Len(psSaid) /\ q \in Nat /\ m < Len(psSaid) /\ q < Size(m + 1) /\ psWire[k] = PiecesOf(m + 1)[q + 1]
  BY <1>2 DEF WireRun
<1> DEFINE n == m + 1
           p == PiecesOf(n)
<1>4. n \in Nat /\ n \in DOMAIN psSaid BY <1>1, <1>3
<1>5. psWire[k] = p[q + 1] /\ q \in Nat /\ q < Size(n) BY <1>3
<1> HIDE DEF m, n, q, p
<1>6. Size(n) = IF ~Silent(n) /\ OfAnthropic THEN 5 ELSE 3 BY DEF Size
<1>7. /\ p = IF Silent(n) THEN <<Half(CommentField, n), Full(CommentField, n), Blank>>
              ELSE IF OfAnthropic THEN <<Half(EventField, n), Full(EventField, n), Half(DataField, n), Full(DataField, n), Blank>>
              ELSE <<Half(DataField, n), Full(DataField, n), Blank>>
      /\ \A f \in Fields : Half(f, n).n = n /\ Full(f, n).last
      /\ Blank.last
  BY <1>4, PiecesAre DEF p
<1>8. CommentField \in Fields /\ EventField \in Fields /\ DataField \in Fields BY DEF Fields
<1>9. PICK x, y, z : x = Half(CommentField, n) /\ y = Half(EventField, n) /\ z = Half(DataField, n) OBVIOUS
<1>10. x.n = n /\ y.n = n /\ z.n = n BY <1>7, <1>8, <1>9
<1>11. PICK u, v, w, b : u = Full(CommentField, n) /\ v = Full(EventField, n) /\ w = Full(DataField, n) /\ b = Blank OBVIOUS
<1>12. u.last /\ v.last /\ w.last /\ b.last BY <1>7, <1>8, <1>11
<1>13. p = IF Silent(n) THEN <<x, u, b>> ELSE IF OfAnthropic THEN <<y, v, z, w, b>> ELSE <<z, w, b>> BY <1>7, <1>9, <1>11
<1>14. psWire[k] \in {x, y, z, u, v, w, b}
  <2>1. CASE ~Silent(n) /\ OfAnthropic
    <3>1. p = <<y, v, z, w, b>> /\ q + 1 \in 1..5 BY <1>5, <1>6, <1>13, <2>1
    <3> QED BY <1>5, <3>1
  <2>2. CASE Silent(n) \/ ~OfAnthropic
    <3>1. (p = <<x, u, b>> \/ p = <<z, w, b>>) /\ q + 1 \in 1..3 BY <1>5, <1>6, <1>13, <2>2
    <3> QED BY <1>5, <3>1
  <2> QED BY <2>1, <2>2
<1>15. psWire[k] \in {x, y, z} BY <1>12, <1>14
<1> QED BY <1>4, <1>10, <1>15

\* Only texts and calls have characters that a chunk may end within.
Lettered == {"text", "start", "part", "call"}
TornOK == \A n \in psTorn : n \in DOMAIN psSaid /\ psSaid[n].t \in Lettered

LEMMA TornStays == PsInv /\ TornOK /\ [PsNext]_psVars => TornOK'
<1> SUFFICES ASSUME PsInv, TornOK, [PsNext]_psVars PROVE TornOK' OBVIOUS
<1>1. CASE psSaid' = psSaid /\ psTorn' = psTorn BY <1>1 DEF TornOK
<1>2. CASE Server_writes
  <2>1. PICK e : psSaid' = Append(psSaid, e) BY <1>2 DEF Server_writes
  <2>2. psTorn' = psTorn BY <1>2 DEF Server_writes
  <2>3. psSaid \in Seq(Events) BY DEF PsInv, Served
  <2>4. \A n \in DOMAIN psSaid : n \in DOMAIN psSaid' /\ psSaid'[n] = psSaid[n] BY <2>1, <2>3
  <2> QED BY <2>2, <2>4 DEF TornOK
<1>3. CASE Reads_chunk
  <2>1. psPc = "reading" /\ psSaid' = psSaid BY <1>3 DEF Reads_chunk
  <2>2. PICK k \in 1..PsMaxChunk : /\ k <= Len(psWire)
                                   /\ psTorn' = psTorn \/ psTorn' = psTorn \cup Torn(psWire[k])
    BY <1>3 DEF Reads_chunk
  <2>3. PICK pm, pq : WireRun(pm, pq) BY <2>1 DEF PsInv
  <2>4. k \in 1..Len(psWire)
    <3>1. psWire \in Seq(WirePieces) BY <2>3 DEF WireRun
    <3> QED BY <2>2, <3>1, StreamConstants
  <2>5. \A n \in Torn(psWire[k]) : n \in DOMAIN psSaid /\ psSaid[n].t \in Lettered
    BY <2>3, <2>4, HalfOfEvent DEF Torn, Lettered, PsInv
  <2> QED BY <2>1, <2>2, <2>5 DEF TornOK
<1>4. CASE anthropic_complete \/ openai_complete \/ ollama_complete
  <2>1. psSaid' = psSaid /\ psTorn' = psTorn BY <1>4 DEF anthropic_complete, openai_complete, ollama_complete, Sends
  <2> QED BY <1>1, <2>1
<1>5. CASE Stream_ends \/ Read_fails \/ Asks_again \/ UNCHANGED psVars
  <2>1. psSaid' = psSaid /\ psTorn' = psTorn BY <1>5 DEF Stream_ends, Read_fails, Asks_again, psVars
  <2> QED BY <1>1, <2>1
<1> QED BY <1>2, <1>3, <1>4, <1>5 DEF PsNext

\* An event of the answer with a damaged character is still a text, or of a call, of the answer.
LEMMA TornTells ==
  ASSUME Served, TornOK, NEW m \in 0..Len(psSaid), NEW n \in psTorn, n \in 1..m
  PROVE  n \in Texts(m) \/ \E i \in Begun(m) : n \in Heads(i, m) \cup Parts(i, m)
<1>1. n \in DOMAIN psSaid /\ psSaid[n].t \in Lettered BY DEF TornOK
<1>2. psSaid[n].i \in Indexes
  <2>1. psSaid \in Seq(Events) BY DEF Served
  <2>2. psSaid[n] \in Events BY <1>1, <2>1
  <2> QED BY <2>2 DEF Events
<1>3. PICK i \in Indexes : i = psSaid[n].i BY <1>2
<1>4. CASE psSaid[n].t = "text" BY <1>4 DEF Texts
<1>5. CASE psSaid[n].t \in {"start", "call"}
  <2>1. n \in Heads(i, m) BY <1>3, <1>5 DEF Heads
  <2>2. i \in Begun(m) BY <1>3, <2>1 DEF Begun
  <2> QED BY <2>1, <2>2
<1>6. CASE psSaid[n].t = "part"
  <2>1. n \in Parts(i, m) BY <1>3, <1>6 DEF Parts
  <2>2. i \in Begun(m) BY <1>3, <2>1, PartsOfBegun
  <2> QED BY <2>1, <2>2
<1> QED BY <1>1, <1>4, <1>5, <1>6 DEF Lettered

\* The answer of a stream is what the server wrote, wherever the chunks were cut, and an event
\* with a character that a chunk ended within keeps its place in it.
THEOREM StreamsAreAnswered == PsSpec => []StreamedIsAnswered
<1>1. PsInit => TornOK BY DEF PsInit, TornOK
<1>2. PsInv /\ TornOK => StreamedIsAnswered
  <2> SUFFICES ASSUME PsInv, TornOK PROVE StreamedIsAnswered OBVIOUS
  <2>1. Served BY DEF PsInv
  <2>2. \A m \in 0..Len(psSaid) : \A n \in psTorn \cap (1..m) :
          n \in Texts(m) \/ \E i \in Begun(m) : n \in Heads(i, m) \cup Parts(i, m)
    BY <2>1, TornTells
  <2> QED BY <2>2 DEF PsInv, AnswerAsIs, StreamedIsAnswered, AnswerIs
<1> QED BY <1>1, <1>2, StreamInvariant, TornStays, PTL DEF PsSpec

\* What is sent of a message, by its role.
UserAsks(m) == m.role = "user"
CallsTools(m) == m.role = "assistant" /\ m.calls # {}
Answers(m) == m.role = "tool"

\* What is sent of a message.
LEMMA MessageSent ==
  ASSUME NEW m, NEW w, w = anthropic_message(m) \/ w = openai_message(m)
  PROVE  /\ UserAsks(m) => w.uses = {} /\ w.result = NoResult
         /\ CallsTools(m) => w.uses = m.calls /\ w.result = NoResult
         /\ Answers(m) => w.uses = {} /\ w.result = m.of
<1>1. CASE w = anthropic_message(m) BY <1>1 DEF anthropic_message, Wire, UserAsks, CallsTools, Answers
<1>2. CASE w = openai_message(m) BY <1>2 DEF openai_message, Wire, UserAsks, CallsTools, Answers
<1> QED BY <1>1, <1>2

\* The conversation as it is asked: a question, the answer with its calls, a result for each.
Conversation(asked, calls, S) ==
  /\ Len(asked) = 2 + Len(calls) /\ UserAsks(asked[1])
  /\ CallsTools(asked[2]) /\ asked[2].calls = S
  /\ \A k \in 1..Len(calls) : Answers(asked[2 + k]) /\ asked[2 + k].of = calls[k]

\* What is sent of it, after as many messages of another kind.
SentAs(body, off, calls, S) ==
  /\ DOMAIN body = 1..(off + 2 + Len(calls))
  /\ \A n \in 1..(off + 1) : body[n].uses = {} /\ body[n].result = NoResult
  /\ body[off + 2].uses = S /\ body[off + 2].result = NoResult
  /\ \A k \in 1..Len(calls) : body[off + 2 + k].uses = {} /\ body[off + 2 + k].result = calls[k]

\* One kind of provider's part of CallsCarriedOver.
CarriedOver(body, S) ==
  LET made == UNION {body[n].uses : n \in DOMAIN body}
      answered == {n \in DOMAIN body : body[n].result # NoResult}
  IN /\ {body[n].result : n \in answered} = made /\ made = S
     /\ \A n \in answered : \E l \in 1..(n - 1) : body[n].result \in body[l].uses

\* What is sent of a conversation carries its calls and their results.
LEMMA SentCarries ==
  ASSUME NEW S \in SUBSET Indexes, NEW calls \in Seq(S), ToSet(calls) = S, NEW off \in Nat, NEW body, SentAs(body, off, calls, S)
  PROVE  CarriedOver(body, S)
<1> DEFINE K == Len(calls)
           p == off + 2
           answered == {n \in DOMAIN body : body[n].result # NoResult}
           made == UNION {body[n].uses : n \in DOMAIN body}
<1>1. K \in Nat /\ DOMAIN calls = 1..K /\ \A k \in 1..K : calls[k] \in S OBVIOUS
<1>2. \A x \in S : x # NoResult BY DEF Indexes, NoResult
<1>3. p \in Nat /\ p \in 1..(p + K) /\ \A n \in 1..(off + 1) : n \in 1..(p + K) BY <1>1
<1>4. \A k \in 1..K : p + k \in 1..(p + K) /\ p \in 1..(p + k - 1) BY <1>1
<1>5. \A n \in 1..(p + K) : n \in 1..(off + 1) \/ n = p \/ \E k \in 1..K : n = p + k
  <2> SUFFICES ASSUME NEW n \in 1..(p + K), n \notin 1..(off + 1), n # p PROVE \E k \in 1..K : n = p + k OBVIOUS
  <2>1. n - p \in 1..K /\ n = p + (n - p) BY <1>1
  <2> QED BY <2>1
<1>6. /\ DOMAIN body = 1..(p + K)
      /\ \A n \in 1..(off + 1) : body[n].uses = {} /\ body[n].result = NoResult
      /\ body[p].uses = S /\ body[p].result = NoResult
      /\ \A k \in 1..K : body[p + k].uses = {} /\ body[p + k].result = calls[k]
  BY DEF SentAs
<1>7. S = {calls[k] : k \in 1..K} BY <1>1 DEF ToSet
<1> HIDE DEF p, K
<1>8. made = S BY <1>3, <1>5, <1>6
<1>9. \A n : n \in answered <=> \E k \in 1..K : n = p + k BY <1>1, <1>2, <1>4, <1>5, <1>6
<1>10. {body[n].result : n \in answered} = S
  <2> HIDE DEF answered
  <2>1. \A n \in answered : body[n].result \in S BY <1>1, <1>6, <1>9
  <2>2. ASSUME NEW x \in S PROVE \E n \in answered : body[n].result = x
    <3>1. PICK k \in 1..K : x = calls[k] BY <1>7
    <3> QED BY <1>6, <1>9, <3>1
  <2> QED BY <2>1, <2>2
<1>11. \A n \in answered : \E l \in 1..(n - 1) : body[n].result \in body[l].uses
  <2> SUFFICES ASSUME NEW n \in answered PROVE \E l \in 1..(n - 1) : body[n].result \in body[l].uses OBVIOUS
  <2> HIDE DEF answered
  <2>1. PICK k \in 1..K : n = p + k BY <1>9
  <2>2. p \in 1..(n - 1) /\ body[n].result \in body[p].uses BY <1>1, <1>4, <1>6, <2>1
  <2> QED BY <2>2
<1> QED BY <1>8, <1>10, <1>11 DEF CarriedOver

\* What is sent of a conversation, after a system prompt or without one.
LEMMA ConversationSent ==
  ASSUME NEW S \in SUBSET Indexes, NEW calls \in Seq(S), NEW asked, Conversation(asked, calls, S),
         NEW off \in {0, 1}, NEW body, DOMAIN body = 1..(off + Len(asked)),
         off = 1 => body[1].uses = {} /\ body[1].result = NoResult,
         \A i \in 1..Len(asked) : body[off + i] = anthropic_message(asked[i]) \/ body[off + i] = openai_message(asked[i])
  PROVE  SentAs(body, off, calls, S)
<1> DEFINE K == Len(calls)
<1>1. K \in Nat /\ Len(asked) = 2 + K BY DEF Conversation
<1>2. 1 \in 1..Len(asked) /\ 2 \in 1..Len(asked) /\ \A k \in 1..K : 2 + k \in 1..Len(asked) BY <1>1
<1>3. \A i \in 1..Len(asked) : /\ UserAsks(asked[i]) => body[off + i].uses = {} /\ body[off + i].result = NoResult
                               /\ CallsTools(asked[i]) => body[off + i].uses = asked[i].calls /\ body[off + i].result = NoResult
                               /\ Answers(asked[i]) => body[off + i].uses = {} /\ body[off + i].result = asked[i].of
  BY MessageSent
<1>4. body[off + 1].uses = {} /\ body[off + 1].result = NoResult BY <1>2, <1>3 DEF Conversation
<1>5. body[off + 2].uses = S /\ body[off + 2].result = NoResult BY <1>2, <1>3 DEF Conversation
<1>6. \A k \in 1..K : body[off + 2 + k].uses = {} /\ body[off + 2 + k].result = calls[k]
  <2> SUFFICES ASSUME NEW k \in 1..K PROVE body[off + 2 + k].uses = {} /\ body[off + 2 + k].result = calls[k] OBVIOUS
  <2>1. Answers(asked[2 + k]) /\ asked[2 + k].of = calls[k] /\ 2 + k \in 1..Len(asked) BY <1>2 DEF Conversation
  <2>2. PICK i \in 1..Len(asked) : i = 2 + k BY <2>1
  <2>3. off + i = off + 2 + k BY <1>1, <2>2
  <2> QED BY <1>3, <2>1, <2>2, <2>3
<1>7. \A n \in 1..(off + 1) : body[n].uses = {} /\ body[n].result = NoResult
  <2>1. \A n \in 1..(off + 1) : n = off + 1 \/ (off = 1 /\ n = 1) OBVIOUS
  <2> QED BY <1>4, <2>1
<1>8. DOMAIN body = 1..(off + 2 + K)
  <2>1. off + Len(asked) = off + 2 + K BY <1>1
  <2> QED BY <2>1
<1> QED BY <1>5, <1>6, <1>7, <1>8 DEF SentAs

\* The body of a request does, whatever the kind of provider.
LEMMA BodyCarries ==
  ASSUME NEW S \in SUBSET Indexes, NEW calls \in Seq(S), ToSet(calls) = S, NEW asked, Conversation(asked, calls, S),
         NEW kind, NEW system \in BOOLEAN
  PROVE  CarriedOver(build_request_body(kind, asked, system), S)
<1> DEFINE body == build_request_body(kind, asked, system)
           L == Len(asked)
<1>1. L \in Nat
  <2>1. Len(calls) \in Nat OBVIOUS
  <2> QED BY <2>1 DEF Conversation
<1>2. CASE kind = "anthropic"
  <2>1. body = [i \in 1..L |-> anthropic_message(asked[i])] BY <1>2 DEF build_request_body
  <2>2. DOMAIN body = 1..L /\ \A i \in 1..L : body[i] = anthropic_message(asked[i]) BY <2>1
  <2> HIDE DEF body
  <2>3. PICK off : off = 0 OBVIOUS
  <2>4. off \in {0, 1} /\ off + L = L /\ off # 1 /\ off \in Nat /\ \A i \in 1..L : off + i = i BY <1>1, <2>3
  <2>5. SentAs(body, off, calls, S) BY ONLY <2>2, <2>4, S \in SUBSET Indexes, calls \in Seq(S), Conversation(asked, calls, S), ConversationSent
  <2>6. CarriedOver(body, S) BY <2>4, <2>5, SentCarries
  <2> QED BY <2>6 DEF body
<1>3. CASE kind # "anthropic"
  <2> DEFINE pre == IF system THEN <<Wire("system", TRUE, {}, NoResult, FALSE)>> ELSE <<>>
             ws == [i \in 1..L |-> openai_message(asked[i])]
             W == {ws[i] : i \in 1..L} \cup {Wire("system", TRUE, {}, NoResult, FALSE)}
  <2>1. body = pre \o ws BY <1>3 DEF build_request_body
  <2>2. PICK off \in {0, 1} : Len(pre) = off /\ (off = 1 => pre[1].uses = {} /\ pre[1].result = NoResult)
    <3>1. CASE system
      <4>1. pre = <<Wire("system", TRUE, {}, NoResult, FALSE)>> BY <3>1
      <4>2. Wire("system", TRUE, {}, NoResult, FALSE).uses = {} /\ Wire("system", TRUE, {}, NoResult, FALSE).result = NoResult BY DEF Wire
      <4> HIDE DEF pre
      <4>3. Len(pre) = 1 /\ pre[1] = Wire("system", TRUE, {}, NoResult, FALSE) BY <4>1
      <4> QED BY <4>2, <4>3
    <3>2. CASE ~system
      <4>1. Len(pre) = 0 BY <3>2
      <4>2. 0 \in {0, 1} /\ 0 # 1 OBVIOUS
      <4> HIDE DEF pre
      <4> QED BY <4>1, <4>2
    <3> QED BY <3>1, <3>2
  <2>3. pre \in Seq(W)
    <3>1. PICK x : x = Wire("system", TRUE, {}, NoResult, FALSE) OBVIOUS
    <3>2. x \in W BY <3>1
    <3> HIDE DEF W
    <3>3. <<x>> \in Seq(W) /\ <<>> \in Seq(W) BY <3>2
    <3> QED BY <3>1, <3>3
  <2>4. ws \in Seq(W) /\ Len(ws) = L /\ \A i \in 1..L : ws[i] = openai_message(asked[i])
    <3>1. \A i \in 1..L : ws[i] \in W OBVIOUS
    <3>2. ws \in [1..L -> W]
      <4> HIDE DEF W
      <4>1. \A i \in 1..L : openai_message(asked[i]) \in W BY <3>1
      <4> QED BY <4>1
    <3>3. \A i \in 1..L : ws[i] = openai_message(asked[i]) OBVIOUS
    <3> HIDE DEF W, ws
    <3>4. ws \in Seq(W) /\ Len(ws) = L BY <1>1, <3>2
    <3> QED BY <3>3, <3>4
  <2> HIDE DEF body, pre, ws, W
  <2>5. /\ body \in Seq(W) /\ Len(body) = off + L
        /\ \A j \in 1..off : body[j] = pre[j]
        /\ \A j \in 1..L : body[off + j] = ws[j]
    BY <2>1, <2>2, <2>3, <2>4, JoinedIs
  <2>6. DOMAIN body = 1..(off + L) BY <2>5
  <2>7. off = 1 => body[1].uses = {} /\ body[1].result = NoResult
    <3>1. off = 1 => 1 \in 1..off BY <2>2
    <3> QED BY <2>2, <2>5, <3>1
  <2>8. \A i \in 1..L : body[off + i] = openai_message(asked[i]) BY <2>4, <2>5
  <2>9. SentAs(body, off, calls, S)
    BY ONLY <2>2, <2>6, <2>7, <2>8, S \in SUBSET Indexes, calls \in Seq(S), Conversation(asked, calls, S), ConversationSent
  <2>10. off \in Nat BY <2>2
  <2>11. CarriedOver(body, S) BY <2>9, <2>10, SentCarries
  <2> QED BY <2>11 DEF body
<1> QED BY <1>2, <1>3

\* The next request.
LEMMA AsksCarry ==
  ASSUME PsInv, Asks_again
  PROVE  CallsCarriedOver'
<1> DEFINE S == DOMAIN psAnswer.calls
           calls == InOrder(S)
<1>1. psPc = "answered" /\ S # {} /\ psPc' = "asked" /\ psAnswer' = psAnswer /\ S \in SUBSET Indexes BY DEF Asks_again, PsInv
<1>2. PICK images \in BOOLEAN, system \in BOOLEAN :
        /\ psAsked' = <<Message("user", TRUE, {}, NoResult, images),
                        Message("assistant", psAnswer.content # <<>>, ToSet(calls), NoResult, FALSE)>>
                      \o [k \in DOMAIN calls |-> Message("tool", TRUE, {}, calls[k], images)]
        /\ psBody' = [k \in Kinds |-> build_request_body(k, psAsked', system)]
  BY DEF Asks_again
<1>3. calls \in Seq(S) /\ ToSet(calls) = S BY <1>1, InOrderIs
<1> HIDE DEF calls
<1>4. Conversation(psAsked', calls, S)
  <2> DEFINE x == Message("user", TRUE, {}, NoResult, images)
             y == Message("assistant", psAnswer.content # <<>>, ToSet(calls), NoResult, FALSE)
             ts == [k \in DOMAIN calls |-> Message("tool", TRUE, {}, calls[k], images)]
             M == {ts[k] : k \in DOMAIN calls} \cup {x, y}
             K == Len(calls)
  <2>1. UserAsks(x) /\ CallsTools(y) /\ y.calls = S BY <1>1, <1>3 DEF Message, UserAsks, CallsTools
  <2>2. \A k \in DOMAIN calls : Answers(ts[k]) /\ ts[k].of = calls[k] BY DEF Message, Answers
  <2>3. K \in Nat /\ DOMAIN calls = 1..K BY <1>3
  <2>4. x \in M /\ y \in M /\ \A k \in 1..K : ts[k] \in M BY <2>3
  <2>5. DOMAIN ts = 1..K /\ ts = [k \in 1..K |-> ts[k]] BY <2>3
  <2>6. psAsked' = <<x, y>> \o ts BY <1>2
  <2> HIDE DEF x, y, ts, M, K
  <2>7. ts \in [1..K -> M] BY <2>4, <2>5
  <2>8. ts \in Seq(M) /\ Len(ts) = K BY <2>3, <2>7
  <2>9. <<x, y>> \in Seq(M) /\ Len(<<x, y>>) = 2 /\ <<x, y>>[1] = x /\ <<x, y>>[2] = y BY <2>4
  <2>10. PICK u, v : u = psAsked' /\ v = <<x, y>> OBVIOUS
  <2>11. v \in Seq(M) /\ Len(v) = 2 /\ v[1] = x /\ v[2] = y /\ u = v \o ts BY <2>6, <2>9, <2>10
  <2>12. /\ Len(u) = Len(v) + Len(ts)
         /\ \A j \in 1..Len(v) : u[j] = v[j]
         /\ \A j \in 1..Len(ts) : u[Len(v) + j] = ts[j]
    <3>1. PICK R, t : R = M /\ t = ts OBVIOUS
    <3>2. t \in Seq(R) /\ v \in Seq(R) /\ u = v \o t BY <2>8, <2>11, <3>1
    <3>3. /\ Len(u) = Len(v) + Len(t)
          /\ \A j \in 1..Len(v) : u[j] = v[j]
          /\ \A j \in 1..Len(t) : u[Len(v) + j] = t[j]
      BY ONLY <3>2, JoinedIs
    <3> QED BY <3>1, <3>3
  <2>13. Len(u) = 2 + K /\ u[1] = x /\ u[2] = y /\ \A j \in 1..K : u[2 + j] = ts[j]
    <3>1. 1 \in 1..2 /\ 2 \in 1..2 OBVIOUS
    <3> QED BY ONLY <2>8, <2>11, <2>12, <3>1
  <2>14. Conversation(u, calls, S) BY <2>1, <2>2, <2>3, <2>13 DEF Conversation, K
  <2> QED BY <2>10, <2>14
<1>5. ASSUME NEW k \in Kinds PROVE CarriedOver(psBody'[k], S)
  <2>1. psBody'[k] = build_request_body(k, psAsked', system) BY <1>2
  <2>2. CarriedOver(build_request_body(k, psAsked', system), S) BY <1>1, <1>2, <1>3, <1>4, BodyCarries
  <2> QED BY <2>1, <2>2
<1>6. DOMAIN psAnswer'.calls = S BY <1>1
<1> HIDE DEF S
<1> QED BY <1>5, <1>6 DEF CallsCarriedOver, CarriedOver, Kinds

\* In the next request every result follows the call it answers, and every call has its result.
THEOREM CallsAreCarriedOver == PsSpec => []CallsCarriedOver
<1>1. PsInit => CallsCarriedOver BY DEF PsInit, CallsCarriedOver
<1>2. PsInv /\ CallsCarriedOver /\ [PsNext]_psVars => CallsCarriedOver'
  <2> SUFFICES ASSUME PsInv, CallsCarriedOver, [PsNext]_psVars PROVE CallsCarriedOver' OBVIOUS
  <2>1. CASE Asks_again BY <2>1, AsksCarry
  <2>2. CASE UNCHANGED psVars
    <3>1. psPc' = psPc /\ psBody' = psBody /\ psAnswer' = psAnswer BY <2>2 DEF psVars, psRequest
    <3>2. CASE psPc = "asked"
      <4>1. \A k \in Kinds : CarriedOver(psBody[k], DOMAIN psAnswer.calls) BY <3>2 DEF CallsCarriedOver, CarriedOver, Kinds
      <4>2. \A k \in Kinds : CarriedOver(psBody'[k], DOMAIN psAnswer'.calls) BY <3>1, <4>1
      <4> QED BY <4>2 DEF CallsCarriedOver, CarriedOver, Kinds
    <3> QED BY <3>1, <3>2 DEF CallsCarriedOver
  <2>3. CASE PsNext /\ ~Asks_again
    <3>1. psPc' # "asked"
      <4>1. CASE Sends BY <4>1 DEF Sends, parse_completion_response
      <4>2. CASE Server_writes \/ Read_fails BY <4>2 DEF Server_writes, Read_fails
      <4>3. CASE Reads_chunk \/ Stream_ends BY <4>3 DEF Reads_chunk, Stream_ends, Gather, finish_state
      <4> QED BY <2>3, <4>1, <4>2, <4>3 DEF PsNext, anthropic_complete, openai_complete, ollama_complete
    <3> QED BY <3>1 DEF CallsCarriedOver
  <2> QED BY <2>1, <2>2, <2>3
<1> QED BY <1>1, <1>2, StreamInvariant, PTL DEF PsSpec
=============================================================================
