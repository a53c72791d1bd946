------------------------------ MODULE CostGuard ------------------------------
(***************************************************************************)
(* CostGuard (cost_guard.rs, costs.rs), asked before a model call and told *)
(* of it afterwards, by concurrent callers; each of its counters has a     *)
(* lock of its own. Costs are whole cents, time is in hours, a day has     *)
(* CgDay of them.                                                          *)
(***************************************************************************)
EXTENDS Naturals, Sequences, FiniteSets

CONSTANTS
  CgCallers,
  CgLimit,       \* max_cost_per_day_cents
  CgRate,        \* max_actions_per_hour
  CgCosts,       \* what a call of a model with a price may cost
  CgDay,
  CgMaxTime,     \* bound: time
  CgMaxCalls     \* bound: calls of a caller

ASSUME CgConstants ==
  /\ IsFiniteSet(CgCallers) /\ CgLimit \in Nat \ {0} /\ CgRate \in Nat \ {0} /\ CgDay \in Nat \ {0}
  /\ CgCosts \subseteq Nat /\ \E x \in CgCosts : \A y \in CgCosts : y <= x

VARIABLES
  cgNow,
  cgSpent, cgDate, \* DailyCost
  cgOver,          \* budget_exceeded
  cgWindow,        \* action_window: times of the calls of the last hour, oldest first
  cgPc,            \* caller: "idle", "daily", "hourly" (checks), "call", "window" (record)
  cgMade           \* caller: calls it has asked for

cgGuard == <<cgSpent, cgDate, cgOver, cgWindow>>
cgVars == <<cgNow, cgGuard, cgPc, cgMade>>

CgInit ==
  /\ cgNow = 0 /\ cgSpent = 0 /\ cgDate = 0 /\ cgOver = FALSE /\ cgWindow = <<>>
  /\ cgPc = [c \in CgCallers |-> "idle"] /\ cgMade = [c \in CgCallers |-> 0]

Today == cgNow \div CgDay
Goes(c, pc) == cgPc' = [cgPc EXCEPT ![c] = pc]

\* check_allowed: the flag; the day's cost, under its lock; the calls of the last hour.
check_allowed(c) ==
  /\ cgPc[c] = "idle" /\ cgMade[c] < CgMaxCalls /\ cgMade' = [cgMade EXCEPT ![c] = @ + 1]
  /\ Goes(c, IF cgOver THEN "idle" ELSE "daily")
  /\ UNCHANGED <<cgNow, cgGuard>>

\* The cost is the one of the day of the last record: it is not taken back when the day ends.
check_daily(c) ==
  /\ cgPc[c] = "daily"
  /\ IF cgSpent >= CgLimit THEN Goes(c, "idle") /\ cgOver' = TRUE ELSE Goes(c, "hourly") /\ UNCHANGED cgOver
  /\ UNCHANGED <<cgNow, cgSpent, cgDate, cgWindow, cgMade>>

\* Times are taken off the front while they are more than an hour old.
actions_this_hour(w, now) ==
  LET recent == {i \in 1..Len(w) : w[i] + 1 >= now}
      front == IF recent = {} THEN Len(w) + 1 ELSE CHOOSE i \in recent : \A j \in recent : i <= j
  IN SubSeq(w, front, Len(w))

\* Seeded bug: the limit itself is still allowed.
check_hourly_past(c) ==
  /\ cgPc[c] = "hourly" /\ cgWindow' = actions_this_hour(cgWindow, cgNow)
  /\ Goes(c, IF Len(cgWindow') > CgRate THEN "idle" ELSE "call")
  /\ UNCHANGED <<cgNow, cgSpent, cgDate, cgOver, cgMade>>

check_hourly(c) ==
  /\ cgPc[c] = "hourly" /\ cgWindow' = actions_this_hour(cgWindow, cgNow)
  /\ Goes(c, IF Len(cgWindow') >= CgRate THEN "idle" ELSE "call")
  /\ UNCHANGED <<cgNow, cgSpent, cgDate, cgOver, cgMade>>

\* A free or local model costs nothing; one that is not listed has the default price.
model_cost(model) == IF model = "local" THEN {0} ELSE CgCosts

\* record_llm_call: a new day starts from nothing and lifts the flag; the cost is added.
record_llm_call(c) ==
  /\ cgPc[c] = "call" /\ Goes(c, "window")
  /\ \E cost \in UNION {model_cost(model) : model \in {"local", "listed", "unlisted"}} :
       LET fresh == Today # cgDate
       IN /\ cgSpent' = cost + (IF fresh THEN 0 ELSE cgSpent) /\ cgDate' = Today
          /\ cgOver' = (cgSpent' >= CgLimit \/ (cgOver /\ ~fresh))
  /\ UNCHANGED <<cgNow, cgWindow, cgMade>>

record_action(c) ==
  /\ cgPc[c] = "window" /\ Goes(c, "idle") /\ cgWindow' = Append(cgWindow, cgNow)
  /\ UNCHANGED <<cgNow, cgSpent, cgDate, cgOver, cgMade>>

\* A model call that fails is not recorded.
Call_fails(c) == cgPc[c] = "call" /\ Goes(c, "idle") /\ UNCHANGED <<cgNow, cgGuard, cgMade>>

Hour == cgNow < CgMaxTime /\ cgNow' = cgNow + 1 /\ UNCHANGED <<cgGuard, cgPc, cgMade>>

CgNext ==
  \/ Hour
  \/ \E c \in CgCallers : check_allowed(c) \/ check_daily(c) \/ check_hourly(c)
                          \/ record_llm_call(c) \/ record_action(c) \/ Call_fails(c)

CgSpec == CgInit /\ [][CgNext]_cgVars

----------------------------------------------------------------------------
(* Properties                                                               *)

CgMost == CHOOSE x \in CgCosts : \A y \in CgCosts : y <= x

\* The limits are checked before a call and counted after it: they are exceeded by no more
\* than the calls under way, however checks and records interleave and wherever the day or
\* the hour changes between them.
OverrunBounded ==
  /\ cgSpent <= (CgLimit - 1) + Cardinality(CgCallers) * CgMost
  /\ Len(actions_this_hour(cgWindow, cgNow)) <= (CgRate - 1) + Cardinality(CgCallers)
=============================================================================
