------------------------------- MODULE Failover -------------------------------
(***************************************************************************)
(* The model failover chain (failover.rs) with its circuit breakers        *)
(* (circuit_breaker.rs) and retries (retry.rs), used by concurrent calls:  *)
(* a call tries the providers in order, skips those whose breaker is open, *)
(* retries transient failures, and gives up once part of an answer has     *)
(* been streamed. The deltas of an attempt go through a task that sends    *)
(* them into the caller's bounded channel, and a call waits for that task  *)
(* before it looks at the attempt's result: with a caller that neither     *)
(* reads nor leaves it waits for ever. The caller may drop a call at any   *)
(* await.                                                                  *)
(*                                                                         *)
(* Breaker variables are functions of the provider; the time since a       *)
(* breaker opened counts up to Recovery.                                   *)
(***************************************************************************)
EXTENDS Naturals

CONSTANTS
  Calls,       \* concurrent callers of FailoverChain::complete
  N,           \* providers 1..N, in order
  Serves,      \* Serves[c]: the providers that list the model c asks for
  Threshold,   \* failure_threshold
  Recovery,    \* recovery_timeout
  Needed,      \* half_open_successes_needed
  MaxRetries,  \* RetryConfig::max_retries
  Errors       \* the errors that occur: TRUE transient (is_retryable_error), FALSE permanent

Providers == 1..N

ASSUME FailoverConstants ==
  /\ N \in Nat /\ Serves \in [Calls -> SUBSET (1..N)]
  /\ Threshold \in Nat \ {0} /\ Recovery \in Nat /\ Needed \in Nat \ {0} /\ MaxRetries \in Nat
  /\ Errors \subseteq BOOLEAN

VARIABLES
  st,          \* CircuitState: "closed", "open", "half"
  fails,       \* consecutive_failures
  succ,        \* half_open_successes
  age,         \* time since opened_at
  pc,          \* call: "idle", "next" provider, "call" in flight, "sleep" before a retry, "done"
  pos, att,    \* call: the provider it is at and the attempt
  stream,      \* call: a stream_tx was given
  shown,       \* call: attempts that have had deltas for the caller (streamed_any)
  held         \* call: the attempt has deltas for which the caller's channel has no room yet

breaker == <<st, fails, succ, age>>
vars == <<breaker, pc, pos, att, stream, shown, held>>

Init ==
  /\ st = [p \in Providers |-> "closed"] /\ fails = [p \in Providers |-> 0]
  /\ succ = [p \in Providers |-> 0] /\ age = [p \in Providers |-> 0]
  /\ pc = [c \in Calls |-> "idle"] /\ pos = [c \in Calls |-> 1] /\ att = [c \in Calls |-> 0]
  /\ stream = [c \in Calls |-> FALSE] /\ shown = [c \in Calls |-> {}]
  /\ held = [c \in Calls |-> FALSE]

-----------------------------------------------------------------------------
(* CircuitBreaker; every operation holds the breaker's mutex.              *)

Elapsed(p) == st[p] = "open" /\ age[p] >= Recovery

\* maybe_transition_to_half_open, at the start of check_allowed.
MaybeHalfOpen(p) ==
  IF Elapsed(p)
    THEN /\ st' = [st EXCEPT ![p] = "half"] /\ succ' = [succ EXCEPT ![p] = 0]
         /\ UNCHANGED <<fails, age>>
    ELSE UNCHANGED breaker

RecordSuccess(p) ==
  \/ /\ st[p] = "closed"
     /\ fails' = [fails EXCEPT ![p] = 0] /\ UNCHANGED <<st, succ, age>>
  \/ /\ st[p] = "half"
     /\ IF succ[p] + 1 >= Needed
          THEN /\ st' = [st EXCEPT ![p] = "closed"] /\ fails' = [fails EXCEPT ![p] = 0]
               /\ succ' = [succ EXCEPT ![p] = 0] /\ age' = [age EXCEPT ![p] = 0]
          ELSE succ' = [succ EXCEPT ![p] = @ + 1] /\ UNCHANGED <<st, fails, age>>
  \/ st[p] = "open" /\ UNCHANGED breaker

Open(p) ==
  /\ st' = [st EXCEPT ![p] = "open"] /\ age' = [age EXCEPT ![p] = 0]
  /\ succ' = [succ EXCEPT ![p] = 0]

RecordFailure(p) ==
  \/ /\ st[p] = "closed"
     /\ fails' = [fails EXCEPT ![p] = @ + 1]
     /\ IF fails[p] + 1 >= Threshold THEN Open(p) ELSE UNCHANGED <<st, succ, age>>
  \/ st[p] = "half" /\ Open(p) /\ UNCHANGED fails
  \/ st[p] = "open" /\ UNCHANGED breaker

-----------------------------------------------------------------------------
(* FailoverChain::complete.                                                *)

Begin(c) ==
  /\ pc[c] = "idle"
  /\ pc' = [pc EXCEPT ![c] = "next"] /\ pos' = [pos EXCEPT ![c] = 1]
  /\ att' = [att EXCEPT ![c] = 0] /\ shown' = [shown EXCEPT ![c] = {}]
  /\ \E b \in BOOLEAN : stream' = [stream EXCEPT ![c] = b]
  /\ UNCHANGED <<breaker, held>>

NextProvider(c) ==
  /\ pc' = [pc EXCEPT ![c] = "next"] /\ pos' = [pos EXCEPT ![c] = @ + 1]
  /\ att' = [att EXCEPT ![c] = 0]

End(c) == pc' = [pc EXCEPT ![c] = "done"] /\ UNCHANGED <<pos, att>>

\* No provider is left.
AllTried(c) ==
  /\ pc[c] = "next" /\ pos[c] > N
  /\ End(c) /\ UNCHANGED <<breaker, stream, shown, held>>

\* The next provider: skipped when it does not serve the model or its breaker is
\* open, called otherwise.
Consider(c) ==
  /\ pc[c] = "next" /\ pos[c] <= N
  /\ LET p == pos[c] IN
     \/ /\ p \notin Serves[c]
        /\ NextProvider(c) /\ UNCHANGED breaker
     \/ /\ p \in Serves[c]
        /\ MaybeHalfOpen(p)
        /\ \/ st'[p] = "open" /\ NextProvider(c)
           \/ /\ st'[p] # "open"
              /\ pc' = [pc EXCEPT ![c] = "call"] /\ UNCHANGED <<pos, att>>
  /\ UNCHANGED <<stream, shown, held>>

Streamed(c) == <<pos[c], att[c]>> \in shown[c]

\* The forwarding task takes the attempt's first delta (one stands for all of them) and sends
\* it on: the caller's channel has room for all of them, or not.
Delta(c) ==
  /\ pc[c] = "call" /\ stream[c] /\ ~Streamed(c)
  /\ shown' = [shown EXCEPT ![c] = @ \cup {<<pos[c], att[c]>>}]
  /\ \E full \in BOOLEAN : held' = [held EXCEPT ![c] = full]
  /\ UNCHANGED <<breaker, pc, pos, att, stream>>

\* The caller has read enough, or its receiver is gone and sending fails: the task ends.
Taken(c) ==
  /\ held[c]
  /\ held' = [held EXCEPT ![c] = FALSE]
  /\ UNCHANGED <<breaker, pc, pos, att, stream, shown>>

\* The provider's call has ended, and the forwarding task with it.
Joined(c) == pc[c] = "call" /\ ~held[c]

Succeeds(c) ==
  /\ Joined(c)
  /\ RecordSuccess(pos[c])
  /\ End(c) /\ UNCHANGED <<stream, shown, held>>

\* Seeded bug: a failure is handled the same whether or not deltas were shown.
FailsAnyway(c, transient) ==
  /\ Joined(c)
  /\ IF transient /\ att[c] < MaxRetries
       THEN pc' = [pc EXCEPT ![c] = "sleep"] /\ UNCHANGED <<pos, att, breaker>>
       ELSE /\ NextProvider(c)
            /\ IF transient THEN RecordFailure(pos[c]) ELSE UNCHANGED breaker
  /\ UNCHANGED <<stream, shown, held>>

\* Once something was streamed the call fails; else a transient error is retried,
\* and what is left after the retries moves on to the next provider.
Fails(c, transient) ==
  /\ Joined(c)
  /\ \/ /\ Streamed(c)
        /\ RecordFailure(pos[c]) /\ End(c)
     \/ /\ ~Streamed(c) /\ transient /\ att[c] < MaxRetries
        /\ pc' = [pc EXCEPT ![c] = "sleep"] /\ UNCHANGED <<pos, att, breaker>>
     \/ /\ ~Streamed(c) /\ ~(transient /\ att[c] < MaxRetries)
        /\ NextProvider(c)
        /\ IF transient THEN RecordFailure(pos[c]) ELSE UNCHANGED breaker
  /\ UNCHANGED <<stream, shown, held>>

\* Seeded bug: the attempt counter is not advanced.
RetryForever(c) ==
  /\ pc[c] = "sleep"
  /\ pc' = [pc EXCEPT ![c] = "call"]
  /\ UNCHANGED <<breaker, pos, att, stream, shown, held>>

\* The backoff is over: the provider is called again, the breaker is not asked.
Retry(c) ==
  /\ pc[c] = "sleep"
  /\ pc' = [pc EXCEPT ![c] = "call"] /\ att' = [att EXCEPT ![c] = @ + 1]
  /\ UNCHANGED <<breaker, pos, stream, shown, held>>

\* The caller drops the future (cancellation, a timeout of its own): no record, and nobody
\* waits for the forwarding task.
Drop(c) ==
  /\ pc[c] \in {"call", "sleep"}
  /\ End(c) /\ held' = [held EXCEPT ![c] = FALSE] /\ UNCHANGED <<breaker, stream, shown>>

\* The task that called comes back with another request.
Again(c) ==
  /\ pc[c] = "done"
  /\ pc' = [pc EXCEPT ![c] = "idle"]
  /\ UNCHANGED <<breaker, pos, att, stream, shown, held>>

Clock ==
  /\ \E p \in Providers : st[p] = "open" /\ age[p] < Recovery
  /\ age' = [p \in Providers |-> IF st[p] = "open" /\ age[p] < Recovery THEN age[p] + 1 ELSE age[p]]
  /\ UNCHANGED <<st, fails, succ, pc, pos, att, stream, shown, held>>

Provider(c) == Succeeds(c) \/ \E transient \in Errors : Fails(c, transient)
Step(c) == AllTried(c) \/ Consider(c) \/ Provider(c) \/ Retry(c)

Next ==
  \/ Clock
  \/ \E c \in Calls : Step(c) \/ Begin(c) \/ Again(c) \/ Delta(c) \/ Taken(c) \/ Drop(c)

Spec == Init /\ [][Next]_vars

\* Calls are polled, HTTP calls end (120 s timeout), the clock runs; Busy adds
\* that requests keep coming. Nothing is assumed of callers that are to read.
Fairness == WF_vars(Clock) /\ \A c \in Calls : WF_vars(Step(c))
FairSpec == Spec /\ Fairness
BusySpec == FairSpec /\ \A c \in Calls : WF_vars(Begin(c) \/ Again(c))

-----------------------------------------------------------------------------
(* Properties.                                                             *)

\* Types, and the bounds the breaker's counters keep: a closed breaker is below
\* its threshold, a half-open one below the successes it needs.
TypeOK ==
  /\ st \in [Providers -> {"closed", "open", "half"}]
  /\ fails \in [Providers -> 0..Threshold] /\ succ \in [Providers -> 0..(Needed - 1)]
  /\ age \in [Providers -> 0..Recovery]
  /\ pc \in [Calls -> {"idle", "next", "call", "sleep", "done"}]
  /\ pos \in [Calls -> 1..(N + 1)] /\ att \in [Calls -> 0..MaxRetries]
  /\ \A c \in Calls : pc[c] \in {"call", "sleep"} => pos[c] <= N
  /\ \A c \in Calls : pc[c] = "sleep" => att[c] < MaxRetries
  /\ shown \in [Calls -> SUBSET (Providers \X (0..MaxRetries))]
  /\ stream \in [Calls -> BOOLEAN] /\ held \in [Calls -> BOOLEAN]
  /\ \A c \in Calls : held[c] => pc[c] = "call" /\ stream[c] /\ shown[c] # {}
  /\ \A p \in Providers : st[p] = "closed" => fails[p] < Threshold

\* What a caller has been shown comes from one attempt of one provider, the one
\* that ends the call: no retry and no failover after the first delta.
OneAttemptShown ==
  \A c \in Calls : \A a \in shown[c] :
    shown[c] = {a} /\ (pc[c] \in {"next", "call", "sleep"} => a = <<pos[c], att[c]>> /\ pc[c] = "call")

\* Every call whose caller does not for ever leave the deltas unread ends, whatever the
\* providers answer and whatever other calls wait for.
CallsEnd == \A c \in Calls : []<>~held[c] => ((pc[c] = "next") ~> (pc[c] = "done"))

==============================================================================
