---------------------------- MODULE Access_proofs ----------------------------
(***************************************************************************)
(* Proofs about what outside parties may do and leave behind: the lock-out *)
(* of an address (HttpApi), the subagents below a turn (Subagents), the    *)
(* tabs of browser sessions (BrowserSessions), the answers of an MCP       *)
(* server (McpClient), the histories of conversations (SessionStore) and   *)
(* the approval of senders (Pairing), for any number of requests,          *)
(* addresses, turns, runs, sessions, tabs, conversations, senders, codes   *)
(* and crashes.                                                            *)
(***************************************************************************)
EXTENDS HttpApi, Subagents, BrowserSessions, McpClient, SessionStore, Pairing, FiniteSetTheorems, TLAPS

\* A request as its slot holds it.
HaRequest ==
  [step : {"idle", "check", "verify", "serve"}, ip : HaIps \cup {NoRequest.ip},
   route : DOMAIN build_router \cup {""}, cred : {"right", "wrong", "absent"},
   asked : Nat, role : {"", "editor", "admin"}]

\* The types the lock-out rests on.
HaTypeOK ==
  /\ haNow \in Nat
  /\ haTries \in [HaIps -> [count : Nat, first : Nat, until : Nat]]
  /\ haReqs \in [HaReqs -> HaRequest]
  /\ \A r \in HaReqs : haReqs[r].step \in {"check", "verify"} => haReqs[r].ip \in HaIps

\* The inductive part: a lock of an address was over when a request now being verified
\* looked at it, or was set after that look.
LooksBeforeLocks ==
  \A r \in HaReqs : haReqs[r].step = "verify" =>
    LET q == haReqs[r] until == haTries[q.ip].until
    IN q.asked <= haNow /\ (until <= q.asked \/ until >= q.asked + HaLockout)

\* Clearing a slot.
LEMMA NoRequestTyped == NoRequest \in HaRequest /\ NoRequest.step = "idle" /\ NoRequest.asked = 0
  BY DEF NoRequest, HaRequest

\* A recorded failure leaves the lock as it was, clears it, or sets it from now.
LEMMA FailureLocks ==
  ASSUME NEW ip \in HaIps, HaTypeOK
  PROVE  /\ record_failure(ip) \in [count : Nat, first : Nat, until : Nat]
         /\ record_failure(ip).until \in {haTries[ip].until, 0, haNow + HaLockout}
<1> DEFINE old == haTries[ip]
           new == IF old.count = 0 \/ haNow - old.first > HaWindow THEN [NoTries EXCEPT !.first = haNow] ELSE old
<1>1. old \in [count : Nat, first : Nat, until : Nat] BY DEF HaTypeOK
<1>2. new \in [count : Nat, first : Nat, until : Nat] /\ new.until \in {old.until, 0}
  BY <1>1 DEF NoTries, HaTypeOK
<1>3. record_failure(ip) = [new EXCEPT !.count = @ + 1, !.until = IF new.count + 1 >= HaMax THEN haNow + HaLockout ELSE @]
  BY DEF record_failure
<1> HIDE DEF new
<1>4. record_failure(ip) = [count |-> new.count + 1, first |-> new.first,
         until |-> IF new.count + 1 >= HaMax THEN haNow + HaLockout ELSE new.until]
  BY <1>2, <1>3
<1> QED BY <1>2, <1>4, HaLimits DEF HaTypeOK

\* The slots after the answer, and after a step that leaves the rest of the request.
LEMMA SlotSteps ==
  ASSUME HaTypeOK, NEW r \in HaReqs
  PROVE  /\ HaAnswer(r) => haReqs' \in [HaReqs -> HaRequest] /\ haReqs'[r] = NoRequest
         /\ HaSet(r, "serve") => haReqs' \in [HaReqs -> HaRequest] /\ haReqs'[r].step = "serve"
<1>1. HaAnswer(r) => haReqs' \in [HaReqs -> HaRequest] /\ haReqs'[r] = NoRequest
  BY NoRequestTyped DEF HaAnswer, HaTypeOK
<1>2. ASSUME HaSet(r, "serve") PROVE haReqs' \in [HaReqs -> HaRequest] /\ haReqs'[r].step = "serve"
  <2>1. haReqs' = [haReqs EXCEPT ![r] = [haReqs[r] EXCEPT !.step = "serve"]] BY <1>2 DEF HaSet
  <2>2. [haReqs[r] EXCEPT !.step = "serve"] \in HaRequest BY DEF HaTypeOK, HaRequest
  <2>3. haReqs[r] \in HaRequest BY DEF HaTypeOK
  <2>4. [haReqs[r] EXCEPT !.step = "serve"].step = "serve" BY <2>3 DEF HaRequest
  <2> QED BY <2>1, <2>2, <2>4 DEF HaTypeOK
<1> QED BY <1>1, <1>2

\* What each action does to the slots and the limiter, with the types kept.
LEMMA HaStep == HaTypeOK /\ LooksBeforeLocks /\ [HaNext]_haVars => HaTypeOK' /\ LooksBeforeLocks'
<1> SUFFICES ASSUME HaTypeOK, LooksBeforeLocks, [HaNext]_haVars PROVE HaTypeOK' /\ LooksBeforeLocks'
  OBVIOUS
<1>1. CASE HaTick
  <2>1. haNow' = haNow + 1 /\ haTries' = haTries /\ haReqs' = haReqs BY <1>1 DEF HaTick
  <2>2. HaTypeOK' BY <2>1 DEF HaTypeOK
  <2>3. \A r \in HaReqs : haReqs[r].asked \in Nat BY DEF HaTypeOK, HaRequest
  <2>4. LooksBeforeLocks' BY <2>1, <2>3 DEF LooksBeforeLocks, HaTypeOK
  <2> QED BY <2>2, <2>4
<1>2. CASE UNCHANGED haVars BY <1>2 DEF haVars, HaTypeOK, LooksBeforeLocks
<1>3. ASSUME NEW r \in HaReqs, haNow' = haNow, haTries' = haTries,
             haReqs' \in [HaReqs -> HaRequest], haReqs'[r].step # "verify",
             haReqs'[r].step = "check" => haReqs'[r].ip \in HaIps,
             \A o \in HaReqs \ {r} : haReqs'[o] = haReqs[o]
      PROVE  HaTypeOK' /\ LooksBeforeLocks'
  <2>1. HaTypeOK' BY <1>3 DEF HaTypeOK
  <2>2. LooksBeforeLocks' BY <1>3 DEF LooksBeforeLocks
  <2> QED BY <2>1, <2>2
<1>4. ASSUME NEW r \in HaReqs, HaArrive(r) PROVE HaTypeOK' /\ LooksBeforeLocks'
  <2>1. PICK ip \in HaIps, name \in HaMenu[r], cred \in {"right", "wrong", "absent"} :
          haReqs' = [haReqs EXCEPT ![r] = [NoRequest EXCEPT !.step = "check", !.ip = ip, !.route = name,
                       !.cred = extract_credential(build_router[name], cred)]]
    BY <1>4 DEF HaArrive
  <2>2. extract_credential(build_router[name], cred) \in {"right", "wrong", "absent"}
    BY DEF extract_credential
  <2>3. name \in DOMAIN build_router BY HaMenuAssumption
  <2> DEFINE q == [NoRequest EXCEPT !.step = "check", !.ip = ip, !.route = name,
                       !.cred = extract_credential(build_router[name], cred)]
  <2>4. q \in HaRequest /\ q.step = "check" /\ q.ip \in HaIps BY <2>2, <2>3 DEF NoRequest, HaRequest
  <2> HIDE DEF q
  <2>5. haReqs' = [haReqs EXCEPT ![r] = q] BY <2>1 DEF q
  <2> QED BY <1>3, <1>4, <2>4, <2>5 DEF HaTypeOK, HaArrive
<1>5. ASSUME NEW r \in HaReqs, HaAnswer(r), haNow' = haNow, haTries' = haTries
      PROVE  HaTypeOK' /\ LooksBeforeLocks'
  BY <1>3, <1>5, NoRequestTyped, SlotSteps DEF HaAnswer, HaTypeOK
<1>6. ASSUME NEW r \in HaReqs, HaSet(r, "serve"), haNow' = haNow, haTries' = haTries
      PROVE  HaTypeOK' /\ LooksBeforeLocks'
  BY <1>3, <1>6, SlotSteps DEF HaSet, HaTypeOK
<1>7. ASSUME NEW r \in HaReqs, AuthCheck(r) PROVE HaTypeOK' /\ LooksBeforeLocks'
  <2>1. CASE HaAnswer(r) BY <1>5, <1>7, <2>1 DEF AuthCheck
  <2>2. CASE ~is_locked(haReqs[r].ip) /\ haReqs' = [haReqs EXCEPT ![r].step = "verify", ![r].asked = haNow]
    <3>1. haNow' = haNow /\ haTries' = haTries /\ haReqs[r].step = "check" BY <1>7 DEF AuthCheck
    <3>2. haReqs[r] \in HaRequest /\ haReqs[r].ip \in HaIps BY <3>1 DEF HaTypeOK
    <3>3. haReqs' = [haReqs EXCEPT ![r] = [haReqs[r] EXCEPT !.step = "verify", !.asked = haNow]]
      BY <2>2
    <3> DEFINE q == [haReqs[r] EXCEPT !.step = "verify", !.asked = haNow]
    <3>4. q \in HaRequest /\ q.step = "verify" /\ q.asked = haNow /\ q.ip = haReqs[r].ip
      BY <3>2 DEF HaRequest, HaTypeOK
    <3> HIDE DEF q
    <3>5. haReqs' = [haReqs EXCEPT ![r] = q] BY <3>3 DEF q
    <3>6. haReqs'[r] = q /\ \A o \in HaReqs \ {r} : haReqs'[o] = haReqs[o] BY <3>5 DEF HaTypeOK
    <3>7. HaTypeOK' BY <3>1, <3>2, <3>4, <3>5, <3>6 DEF HaTypeOK
    <3>8. haTries[q.ip].until \in Nat /\ haTries[q.ip].until <= haNow
      BY <2>2, <3>2, <3>4 DEF is_locked, Locked, HaTypeOK
    <3>9. LooksBeforeLocks' BY <3>1, <3>4, <3>6, <3>8 DEF LooksBeforeLocks, HaTypeOK
    <3> QED BY <3>7, <3>9
  <2> QED BY <1>7, <2>1, <2>2 DEF AuthCheck
<1>8. ASSUME NEW r \in HaReqs, authenticate(r) PROVE HaTypeOK' /\ LooksBeforeLocks'
  <2> DEFINE ip == haReqs[r].ip
  <2>1. haNow' = haNow /\ haReqs[r].step = "verify" BY <1>8 DEF authenticate
  <2>2. ip \in HaIps BY <2>1 DEF HaTypeOK
  <2> DEFINE e == CASE Verdict(haReqs[r].cred) = "right" -> record_success(ip)
                    [] Verdict(haReqs[r].cred) = "wrong" -> record_failure(ip)
                    [] OTHER -> haTries[ip]
  <2>3. haTries' = [haTries EXCEPT ![ip] = e] BY <1>8 DEF authenticate
  <2>4. e \in [count : Nat, first : Nat, until : Nat] /\ e.until \in {haTries[ip].until, 0, haNow + HaLockout}
    <3>1. CASE Verdict(haReqs[r].cred) = "right" BY <3>1, <2>2 DEF record_success, NoTries
    <3>2. CASE Verdict(haReqs[r].cred) = "wrong" BY <3>2, <2>2, FailureLocks
    <3>3. CASE Verdict(haReqs[r].cred) \notin {"right", "wrong"} BY <3>3, <2>2 DEF HaTypeOK
    <3> QED BY <3>1, <3>2, <3>3
  <2> HIDE DEF e
  <2>5. haReqs' \in [HaReqs -> HaRequest] /\ haReqs'[r].step \in {"idle", "serve"}
        /\ \A o \in HaReqs \ {r} : haReqs'[o] = haReqs[o]
    <3>1. CASE HaAnswer(r) BY <3>1, SlotSteps, NoRequestTyped DEF HaAnswer, HaTypeOK
    <3>2. CASE haReqs' = [haReqs EXCEPT ![r] = [NoRequest EXCEPT !.step = "serve", !.route = haReqs[r].route, !.role = AuthRole]]
      <4>1. haReqs[r] \in HaRequest BY DEF HaTypeOK
      <4> DEFINE q == [NoRequest EXCEPT !.step = "serve", !.route = haReqs[r].route, !.role = AuthRole]
      <4>2. q \in HaRequest /\ q.step = "serve" BY <4>1 DEF NoRequest, HaRequest, AuthRole
      <4> HIDE DEF q
      <4>3. haReqs' = [haReqs EXCEPT ![r] = q] BY <3>2 DEF q
      <4> QED BY <4>2, <4>3 DEF HaTypeOK
    <3> QED BY <1>8, <3>1, <3>2 DEF authenticate
  <2>6. HaTypeOK' BY <2>1, <2>2, <2>3, <2>4, <2>5 DEF HaTypeOK
  <2>7. ASSUME NEW o \in HaReqs, haReqs'[o].step = "verify"
        PROVE  LET q == haReqs'[o] until == haTries'[q.ip].until
               IN q.asked <= haNow' /\ (until <= q.asked \/ until >= q.asked + HaLockout)
    <3>1. o # r /\ haReqs'[o] = haReqs[o] /\ haReqs[o].ip \in HaIps BY <2>5, <2>7 DEF HaTypeOK
    <3>2. haReqs[o].asked \in Nat /\ haReqs[o].asked <= haNow BY <2>7, <3>1 DEF LooksBeforeLocks, HaTypeOK, HaRequest
    <3>3. CASE haReqs[o].ip # ip BY <2>1, <2>3, <2>7, <3>1, <3>3 DEF LooksBeforeLocks, HaTypeOK
    <3>4. CASE haReqs[o].ip = ip
      <4>1. haTries'[haReqs[o].ip] = e BY <2>3, <3>1, <3>4 DEF HaTypeOK
      <4>2. haTries[ip].until <= haReqs[o].asked \/ haTries[ip].until >= haReqs[o].asked + HaLockout
        BY <2>7, <3>1, <3>4 DEF LooksBeforeLocks
      <4> QED BY <2>1, <2>4, <3>1, <3>2, <4>1, <4>2, HaLimits DEF HaTypeOK
    <3> QED BY <3>3, <3>4
  <2> QED BY <2>6, <2>7 DEF LooksBeforeLocks
<1>9. ASSUME NEW r \in HaReqs, authenticate_bearer(r) \/ verify_signature(r) \/ OpenRoute(r) \/ Serve(r)
      PROVE  HaTypeOK' /\ LooksBeforeLocks'
  BY <1>5, <1>6, <1>9 DEF authenticate_bearer, verify_signature, OpenRoute, Serve
<1> QED BY <1>1, <1>2, <1>4, <1>7, <1>8, <1>9 DEF HaNext

\* A lock-out ends before its time only through requests that looked at the lock before it
\* was set (auth.rs checks the lock, compares the password, then records the result), for any
\* number of requests, addresses, attempts and any times.
THEOREM LockoutsHold == HaSpec => OnlyEarlierRequestsUnlock
<1>1. HaInit => HaTypeOK /\ LooksBeforeLocks
  BY NoRequestTyped DEF HaInit, HaTypeOK, LooksBeforeLocks, NoTries
<1>2. ASSUME HaTypeOK, LooksBeforeLocks, [HaNext]_haVars
      PROVE  [\A ip \in HaIps : Locked(ip) /\ ~(haNow' < haTries'[ip].until) /\ haNow' = haNow =>
               \E r \in HaReqs : /\ haReqs[r].step = "verify" /\ haReqs'[r].step # "verify" /\ haReqs[r].ip = ip
                                 /\ haReqs[r].asked <= haTries[ip].until - HaLockout]_haVars
  <2> SUFFICES ASSUME HaNext, NEW ip \in HaIps, Locked(ip), ~(haNow' < haTries'[ip].until), haNow' = haNow
               PROVE  \E r \in HaReqs : /\ haReqs[r].step = "verify" /\ haReqs'[r].step # "verify" /\ haReqs[r].ip = ip
                                        /\ haReqs[r].asked <= haTries[ip].until - HaLockout
    BY <1>2
  <2>1. haTries'[ip] # haTries[ip] BY DEF Locked
  <2>2. PICK r \in HaReqs : authenticate(r)
    BY <2>1 DEF HaNext, HaTick, HaArrive, AuthCheck, authenticate_bearer, verify_signature, OpenRoute, Serve
  <2>3. haReqs[r].step = "verify" /\ haReqs[r].ip = ip
    BY <1>2, <2>1, <2>2 DEF authenticate, HaTypeOK
  <2>4. haReqs'[r].step # "verify"
    <3>1. CASE HaAnswer(r) BY <1>2, <3>1, SlotSteps, NoRequestTyped
    <3>2. CASE haReqs' = [haReqs EXCEPT ![r] = [NoRequest EXCEPT !.step = "serve", !.route = haReqs[r].route, !.role = AuthRole]]
      BY <1>2, <3>2 DEF HaTypeOK, NoRequest
    <3> QED BY <2>2, <3>1, <3>2 DEF authenticate
  <2>5. haReqs[r].asked <= haNow /\ haReqs[r].asked \in Nat /\ haTries[ip].until \in Nat
        /\ (haTries[ip].until <= haReqs[r].asked \/ haTries[ip].until >= haReqs[r].asked + HaLockout)
    BY <1>2, <2>3 DEF LooksBeforeLocks, HaTypeOK, HaRequest
  <2> QED BY <1>2, <2>3, <2>4, <2>5, HaLimits DEF Locked, HaTypeOK
<1> QED BY <1>1, <1>2, HaStep, PTL DEF HaSpec, OnlyEarlierRequestsUnlock

----------------------------------------------------------------------------
(* Subagents                                                                *)

\* The sessions a turn may work on.
SaSessions == Sessions \cup RunIds \cup {NoCaller}

\* The types of the turns and of the registry.
SaTypeOK ==
  /\ runs \in [RunIds -> [parent : SaSessions, depth : Nat,
                          state : {"none", "pending", "running", "completed", "failed", "timed_out"}]]
  /\ used \in 0..MaxRuns
  /\ session \in [Turns -> SaSessions] /\ depth \in [Turns -> Nat]
  /\ at \in [Turns -> {"off", "thinking", "pending", "waiting", "over"}]
  /\ child \in [Turns -> 0..MaxRuns]

\* The turns that have a child.
HasChild(t) == at[t] \in {"pending", "waiting"}

\* The tree of turns: a child is registered, younger than the run that spawned it, and has
\* one parent; it has not begun while its parent is pending, and has when its parent waits.
SaTree ==
  /\ \A t \in Turns : HasChild(t) => child[t] \in 1..used
  /\ \A t \in Turns \cap RunIds : HasChild(t) => child[t] > t
  /\ \A t, u \in Turns : HasChild(t) /\ HasChild(u) /\ child[t] = child[u] => t = u
  /\ \A t \in Turns : at[t] = "pending" => at[child[t]] = "off"
  /\ \A t \in Turns : at[t] = "waiting" => at[child[t]] # "off"
  /\ \A r \in RunIds : r > used => at[r] = "off"

\* The inductive invariant.
SaInv == SaTypeOK /\ SaTree /\ NoOrphanWork

\* Runs are turns, turns from outside are not runs.
LEMMA TurnsAndRuns ==
  /\ RunIds \subseteq Turns /\ Tops \subseteq Turns /\ Tops \cap RunIds = {}
  /\ MaxRuns \in Nat /\ \A t \in Turns : t \in Tops \/ t \in RunIds
  BY SubagentConstants DEF Turns, RunIds

\* What is awaited below a turn that has begun: it is closed under children, it has
\* begun, and below a run it is that run and younger ones.
LEMMA AwaitedBelow ==
  ASSUME SaTypeOK, SaTree, NEW t \in Turns, at[t] # "off"
  PROVE  /\ Awaited(t) \subseteq Turns /\ t \in Awaited(t)
         /\ \A u \in Awaited(t) : at[u] = "waiting" => child[u] \in Awaited(t)
         /\ \A u \in Awaited(t) : at[u] # "off"
         /\ t \in RunIds => \A u \in Awaited(t) : u \in RunIds /\ u >= t
<1>1. \A u \in Turns : at[u] = "waiting" => child[u] \in RunIds /\ child[u] \in Turns
  BY TurnsAndRuns DEF SaTree, HasChild, SaTypeOK, RunIds
<1>2. t \in Awaited(t) BY DEF Awaited, AwaitClosed
<1>3. ASSUME NEW u \in Awaited(t), at[u] = "waiting" PROVE child[u] \in Awaited(t)
  BY <1>1, <1>3 DEF Awaited, AwaitClosed
<1>4. ASSUME NEW u \in Awaited(t) PROVE at[u] # "off"
  <2> DEFINE S == {v \in Turns : at[v] # "off"}
  <2>1. AwaitClosed(t, S) BY <1>1 DEF AwaitClosed, SaTree
  <2>2. u \in S BY <2>1 DEF Awaited
  <2> QED BY <2>2
<1>5. ASSUME t \in RunIds, NEW u \in Awaited(t) PROVE u \in RunIds /\ u >= t
  <2> DEFINE S == {v \in RunIds : v >= t}
  <2>1. S \subseteq Turns BY TurnsAndRuns
  <2>2. ASSUME NEW v \in S, at[v] = "waiting" PROVE child[v] \in S
    <3>1. child[v] \in RunIds /\ child[v] > v BY <1>1, <2>1, <2>2 DEF SaTree, HasChild
    <3> QED BY <1>5, <3>1, TurnsAndRuns DEF RunIds
  <2>3. t \in S BY <1>5 DEF RunIds
  <2>4. AwaitClosed(t, S) BY <2>2, <2>3 DEF AwaitClosed
  <2>5. u \in S BY <2>1, <2>4 DEF Awaited
  <2> QED BY <2>5
<1> QED BY <1>2, <1>3, <1>4, <1>5 DEF Awaited

\* Every step keeps the types.
LEMMA SaTypes == SaTypeOK /\ SaTree /\ [SaNext]_saVars => SaTypeOK'
<1> SUFFICES ASSUME SaTypeOK, SaTree, [SaNext]_saVars PROVE SaTypeOK'
  OBVIOUS
<1> USE TurnsAndRuns
<1>1. CASE UNCHANGED saVars BY <1>1 DEF saVars, SaTypeOK
<1>2. ASSUME NEW t \in Tops, Start(t) PROVE SaTypeOK'
  <2>1. PICK s \in Sessions \cup 1..used : /\ session' = [session EXCEPT ![t] = s]
                                          /\ depth' = [depth EXCEPT ![t] = depth_of(s)]
    BY <1>2 DEF Start
  <2>2. s \in SaSessions BY DEF SaTypeOK, SaSessions, RunIds
  <2>3. depth_of(s) \in Nat BY DEF depth_of, SaTypeOK, RunIds
  <2> QED BY <1>2, <2>1, <2>2, <2>3 DEF Start, SaTypeOK
<1>3. ASSUME NEW t \in Turns, register_spawn(t) PROVE SaTypeOK'
  <2>1. used + 1 \in RunIds /\ used' = used + 1 BY <1>3 DEF register_spawn, SaTypeOK, RunIds
  <2>2. [parent |-> session[t], depth |-> depth[t] + 1, state |-> "pending"] \in
          [parent : SaSessions, depth : Nat, state : {"none", "pending", "running", "completed", "failed", "timed_out"}]
    BY DEF SaTypeOK
  <2> QED BY <1>3, <2>1, <2>2 DEF register_spawn, SaTypeOK, RunIds
<1>4. ASSUME NEW r \in RunIds, NEW s \in {"running", "completed", "failed", "timed_out"},
             runs' = [runs EXCEPT ![r].state = s]
      PROVE  runs' \in [RunIds -> [parent : SaSessions, depth : Nat,
                          state : {"none", "pending", "running", "completed", "failed", "timed_out"}]]
  BY <1>4 DEF SaTypeOK
<1>5. ASSUME NEW t \in Turns, HasChild(t) PROVE child[t] \in RunIds /\ child[t] \in 1..used
  BY <1>5 DEF SaTree, SaTypeOK, RunIds
<1>6. ASSUME NEW t \in Turns, mark_running(t) PROVE SaTypeOK'
  <2>1. child[t] \in RunIds /\ child[t] \in 1..used BY <1>5, <1>6 DEF mark_running, HasChild
  <2>2. depth_of(child[t]) \in Nat BY <2>1 DEF depth_of, SaTypeOK, RunIds
  <2>3. child[t] \in SaSessions BY <2>1 DEF SaSessions
  <2> QED BY <1>4, <1>6, <2>1, <2>2, <2>3 DEF mark_running, SaTypeOK
<1>7. ASSUME NEW t \in Turns, complete(t) PROVE SaTypeOK'
  <2>1. child[t] \in RunIds BY <1>5, <1>7 DEF complete, HasChild
  <2> QED BY <1>4, <1>7, <2>1 DEF complete, SaTypeOK, NoCaller
<1>8. ASSUME NEW t \in Turns, Timeout(t) PROVE SaTypeOK'
  <2>1. child[t] \in RunIds BY <1>5, <1>8 DEF Timeout, HasChild
  <2> QED BY <1>4, <1>8, <2>1 DEF Timeout, Dropped, SaTypeOK, NoCaller
<1>9. ASSUME NEW t \in Tops, Finish(t) \/ Drop(t) PROVE SaTypeOK'
  BY <1>9 DEF Finish, Drop, Dropped, SaTypeOK
<1> QED BY <1>1, <1>2, <1>3, <1>6, <1>7, <1>8, <1>9 DEF SaNext

\* Every step keeps the tree and leaves no orphan.
LEMMA SaStep == SaInv /\ [SaNext]_saVars => SaTree' /\ NoOrphanWork'
<1> SUFFICES ASSUME SaTypeOK, SaTree, NoOrphanWork, [SaNext]_saVars PROVE SaTree' /\ NoOrphanWork'
  BY DEF SaInv
<1> USE TurnsAndRuns
<1>0. SaTypeOK' BY SaTypes
<1>1. CASE UNCHANGED saVars BY <1>1 DEF saVars, SaTree, NoOrphanWork, HasChild, Live
<1>2. ASSUME NEW t \in Tops, Start(t) \/ Finish(t) PROVE SaTree' /\ NoOrphanWork'
  <2>1. /\ UNCHANGED <<runs, used, child>> /\ ~HasChild(t)
        /\ \E s \in {"thinking", "over"} : at' = [at EXCEPT ![t] = s]
    BY <1>2 DEF Start, Finish, HasChild
  <2>2. at'[t] \in {"thinking", "over"} /\ \A u \in Turns \ {t} : at'[u] = at[u]
    BY <2>1 DEF SaTypeOK
  <2>3. \A u \in Turns : HasChild(u) => child[u] \in RunIds /\ child[u] # t
    BY DEF SaTree, SaTypeOK, RunIds
  <2>4. SaTree' BY <2>1, <2>2, <2>3 DEF SaTree, HasChild
  <2>5. NoOrphanWork' BY <2>1, <2>2 DEF NoOrphanWork, Live, HasChild
  <2> QED BY <2>4, <2>5
<1>3. ASSUME NEW t \in Turns, register_spawn(t) PROVE SaTree' /\ NoOrphanWork'
  <2> DEFINE n == used + 1
  <2>1. /\ n \in RunIds /\ used' = n /\ at[t] = "thinking"
        /\ child' = [child EXCEPT ![t] = n] /\ at' = [at EXCEPT ![t] = "pending"]
    BY <1>3 DEF register_spawn, SaTypeOK, RunIds
  <2>2. at[n] = "off" /\ n # t BY <2>1 DEF SaTree, SaTypeOK
  <2>3. /\ at'[t] = "pending" /\ child'[t] = n
        /\ \A u \in Turns \ {t} : at'[u] = at[u] /\ child'[u] = child[u]
    BY <2>1 DEF SaTypeOK
  <2>4. t \in RunIds => t <= used BY <2>1 DEF SaTree, SaTypeOK, RunIds
  <2>5. \A u \in Turns \ {t} : HasChild(u) => child[u] \in 1..used BY DEF SaTree
  <2>6. used \in Nat BY DEF SaTypeOK
  <2>7. SaTree'
    <3>1. \A u \in Turns : HasChild(u)' => child'[u] \in 1..used'
      BY <2>1, <2>3, <2>5, <2>6 DEF HasChild
    <3>2. \A u \in Turns \cap RunIds : HasChild(u)' => child'[u] > u
      BY <2>1, <2>3, <2>4, <2>6 DEF HasChild, SaTree, RunIds
    <3>3. \A u, v \in Turns : HasChild(u)' /\ HasChild(v)' /\ child'[u] = child'[v] => u = v
      BY <2>1, <2>3, <2>5, <2>6 DEF HasChild, SaTree
    <3>4. \A u \in Turns : at'[u] = "pending" => at'[child'[u]] = "off"
      <4>1. \A u \in Turns \ {t} : at[u] = "pending" => child[u] \in RunIds /\ child[u] # t
        BY <2>1, <2>5 DEF HasChild, SaTree, SaTypeOK, RunIds
      <4> QED BY <2>1, <2>2, <2>3, <4>1 DEF SaTree
    <3>5. \A u \in Turns : at'[u] = "waiting" => at'[child'[u]] # "off"
      <4>1. \A u \in Turns \ {t} : at[u] = "waiting" => child[u] \in RunIds
        BY <2>1, <2>5 DEF HasChild, SaTree, SaTypeOK, RunIds
      <4> QED BY <2>1, <2>2, <2>3, <4>1 DEF SaTree
    <3>6. \A r \in RunIds : r > used' => at'[r] = "off"
      BY <2>1, <2>2, <2>3, <2>4, <2>6 DEF SaTree, RunIds
    <3> QED BY <3>1, <3>2, <3>3, <3>4, <3>5, <3>6 DEF SaTree
  <2>8. \A r \in RunIds : r # n => runs'[r] = runs[r] BY <1>3, <2>1 DEF register_spawn, SaTypeOK
  <2>9. NoOrphanWork'
    <3> SUFFICES ASSUME NEW r \in RunIds, Live(r)'
                 PROVE  (\E u \in Turns : at'[u] = "waiting" /\ child'[u] = r) /\ runs'[r].state = "running"
      BY DEF NoOrphanWork
    <3>1. r # n /\ Live(r) BY <2>1, <2>2, <2>3 DEF Live
    <3>2. PICK u \in Turns : at[u] = "waiting" /\ child[u] = r BY <3>1 DEF NoOrphanWork
    <3> QED BY <2>1, <2>3, <2>8, <3>1, <3>2 DEF NoOrphanWork
  <2> QED BY <2>7, <2>9
<1>4. ASSUME NEW t \in Turns, mark_running(t) PROVE SaTree' /\ NoOrphanWork'
  <2> DEFINE r == child[t]
  <2>1. /\ at[t] = "pending" /\ r \in RunIds /\ at[r] = "off" /\ r # t /\ r \in Turns
        /\ UNCHANGED <<used, child>>
    BY <1>4 DEF mark_running, SaTree, HasChild, SaTypeOK, RunIds
  <2>2. /\ at'[t] = "waiting" /\ at'[r] = "thinking"
        /\ \A u \in Turns \ {t, r} : at'[u] = at[u]
    BY <1>4, <2>1 DEF mark_running, SaTypeOK
  <2>3. runs'[r].state = "running" /\ \A x \in RunIds \ {r} : runs'[x] = runs[x]
    BY <1>4, <2>1 DEF mark_running, SaTypeOK
  <2>4. \A u \in Turns \ {t} : HasChild(u) => child[u] # r /\ child[u] \in RunIds /\ child[u] \in Turns
    <3>1. HasChild(t) BY <2>1 DEF HasChild
    <3>2. \A u \in Turns : HasChild(u) => child[u] \in RunIds BY DEF SaTree, SaTypeOK, RunIds
    <3> QED BY <3>1, <3>2 DEF SaTree
  <2>5. \A u \in Turns : HasChild(u)' => HasChild(u) BY <2>1, <2>2 DEF HasChild
  <2>6. SaTree'
    <3>1. r \in 1..used BY <2>1 DEF SaTree, HasChild
    <3>2. \A x \in RunIds : x > used' => at'[x] = "off"
      <4>1. \A x \in RunIds : x > used => at[x] = "off" /\ x # t /\ x # r
        <5>1. ASSUME NEW x \in RunIds, x > used PROVE at[x] = "off" BY <5>1 DEF SaTree
        <5>2. ASSUME NEW x \in RunIds, x > used PROVE x # r BY <5>2, <3>1 DEF SaTypeOK, RunIds
        <5> QED BY <2>1, <5>1, <5>2
      <4> QED BY <2>1, <2>2, <4>1
    <3>3. \A u \in Turns : at'[u] = "pending" => at'[child'[u]] = "off"
      BY <2>1, <2>2, <2>4 DEF SaTree, HasChild
    <3>4. \A u \in Turns : at'[u] = "waiting" => at'[child'[u]] # "off"
      BY <2>1, <2>2, <2>4 DEF SaTree, HasChild
    <3> QED BY <2>1, <2>5, <3>2, <3>3, <3>4 DEF SaTree
  <2>7. NoOrphanWork'
    <3> SUFFICES ASSUME NEW x \in RunIds, Live(x)'
                 PROVE  (\E u \in Turns : at'[u] = "waiting" /\ child'[u] = x) /\ runs'[x].state = "running"
      BY DEF NoOrphanWork
    <3>1. CASE x = r BY <2>1, <2>2, <2>3, <3>1
    <3>2. CASE x # r
      <4>1. Live(x) BY <2>1, <2>2, <3>2 DEF Live
      <4>2. PICK u \in Turns : at[u] = "waiting" /\ child[u] = x BY <4>1 DEF NoOrphanWork
      <4> QED BY <2>1, <2>2, <2>3, <3>2, <4>1, <4>2 DEF NoOrphanWork
    <3> QED BY <3>1, <3>2
  <2> QED BY <2>6, <2>7
<1>5. ASSUME NEW t \in Turns, NEW D \in SUBSET Turns, at[t] # "off",
             \A u \in D : at[u] # "off",
             \A u \in D : at[u] = "waiting" => child[u] \in D,
             \A u \in Turns \ (D \cup {t}) : at'[u] = at[u] /\ child'[u] = child[u],
             \A u \in D \ {t} : at'[u] = "over",
             at'[t] \in {"thinking", "over"},
             at'[t] = "thinking" => at[t] = "waiting" /\ \A u \in D : at[u] = "waiting" => child[u] # t,
             at[t] = "waiting" => child[t] \in D,
             used' = used,
             \A r \in RunIds \ D : runs'[r] = runs[r],
             t \in RunIds => runs'[t] = runs[t] \/ at'[t] = "over"
      PROVE  SaTree' /\ NoOrphanWork'
  <2>1. \A u \in Turns : HasChild(u)' => HasChild(u) /\ u \notin D /\ u # t /\ child'[u] = child[u]
    BY <1>5 DEF HasChild
  <2>2. \A u \in Turns : HasChild(u) => child[u] \in Turns /\ child[u] \in RunIds
    BY DEF SaTree, SaTypeOK, RunIds
  <2>3. \A u \in Turns : at'[u] = "off" <=> at[u] = "off" BY <1>5
  <2>4. SaTree'
    <3>1. \A u \in Turns : at'[u] = "pending" => at'[child'[u]] = "off"
      BY <1>5, <2>1, <2>2, <2>3 DEF SaTree, HasChild
    <3>2. \A u \in Turns : at'[u] = "waiting" => at'[child'[u]] # "off"
      BY <1>5, <2>1, <2>2, <2>3 DEF SaTree, HasChild
    <3> QED BY <1>5, <2>1, <2>3, <3>1, <3>2 DEF SaTree
  <2>5. NoOrphanWork'
    <3> SUFFICES ASSUME NEW x \in RunIds, Live(x)'
                 PROVE  (\E u \in Turns : at'[u] = "waiting" /\ child'[u] = x) /\ runs'[x].state = "running"
      BY DEF NoOrphanWork
    <3>1. Live(x) BY <1>5 DEF Live
    <3>2. PICK u \in Turns : at[u] = "waiting" /\ child[u] = x BY <3>1 DEF NoOrphanWork
    <3>3. CASE x = t
      <4>1. u \notin D BY <1>5, <3>2, <3>3 DEF Live
      <4>2. u # t BY <3>2, <3>3, TurnsAndRuns DEF SaTree, HasChild, RunIds
      <4> QED BY <1>5, <3>1, <3>2, <3>3, <4>1, <4>2 DEF NoOrphanWork, Live
    <3>4. CASE x # t
      <4>1. x \notin D BY <1>5, <3>4 DEF Live
      <4>2. u \notin D /\ u # t BY <1>5, <3>2, <4>1
      <4> QED BY <1>5, <3>1, <3>2, <4>1, <4>2 DEF NoOrphanWork
    <3> QED BY <3>3, <3>4
  <2> QED BY <2>4, <2>5
<1>6. ASSUME NEW t \in Turns, complete(t) PROVE SaTree' /\ NoOrphanWork'
  <2> DEFINE D == {child[t]}
  <2>1. at[t] = "waiting" /\ at[child[t]] = "thinking" /\ child[t] # t /\ used' = used BY <1>6 DEF complete
  <2>2. child[t] \in RunIds /\ child[t] \in Turns BY <2>1 DEF SaTree, HasChild, SaTypeOK, RunIds
  <2>3. at' = [at EXCEPT ![t] = "thinking", ![child[t]] = "over"]
    BY <1>6 DEF complete
  <2>4. \A u \in Turns \ {t} : child'[u] = child[u] BY <1>6 DEF complete, SaTypeOK
  <2>5. \A r \in RunIds \ D : runs'[r] = runs[r] BY <1>6, <2>2 DEF complete, SaTypeOK
  <2>6. at'[t] = "thinking" /\ at'[child[t]] = "over" /\ \A u \in Turns \ (D \cup {t}) : at'[u] = at[u]
    BY <2>1, <2>2, <2>3 DEF SaTypeOK
  <2>7. D \in SUBSET Turns /\ \A u \in D : at[u] = "thinking" /\ at'[u] = "over" BY <2>1, <2>2, <2>6
  <2>8. child[t] \in D /\ t \notin D BY <2>1
  <2> HIDE DEF D
  <2> QED BY <1>5, <2>1, <2>4, <2>5, <2>6, <2>7, <2>8
<1>7. ASSUME NEW t \in Turns, Timeout(t) PROVE SaTree' /\ NoOrphanWork'
  <2> DEFINE r == child[t]  D == Awaited(r)
  <2>1. at[t] = "waiting" /\ used' = used BY <1>7 DEF Timeout
  <2>2. r \in RunIds /\ r \in Turns /\ at[r] # "off" BY <2>1 DEF SaTree, HasChild, SaTypeOK, RunIds
  <2>3. /\ D \subseteq Turns /\ r \in D
        /\ \A u \in D : at[u] = "waiting" => child[u] \in D
        /\ \A u \in D : at[u] # "off" /\ u \in RunIds /\ u >= r
    BY <2>2, AwaitedBelow
  <2> HIDE DEF D
  <2>4. at' = [Dropped(D) EXCEPT ![t] = "thinking"] BY <1>7 DEF Timeout, D
  <2>5. at'[t] = "thinking" /\ \A u \in Turns \ {t} : at'[u] = IF u \in D THEN "over" ELSE at[u]
    BY <2>4 DEF Dropped
  <2>6. t \notin D
    <3>1. t \in RunIds => r > t BY <2>1 DEF SaTree, HasChild
    <3> QED BY <2>2, <2>3, <3>1 DEF RunIds
  <2>7. ASSUME NEW u \in D, at[u] = "waiting" PROVE child[u] # t BY <2>3, <2>6, <2>7
  <2>8. \A u \in Turns \ {t} : child'[u] = child[u] BY <1>7 DEF Timeout, SaTypeOK
  <2>9. \A x \in RunIds \ D : runs'[x] = runs[x] BY <1>7, <2>2, <2>3 DEF Timeout, SaTypeOK
  <2> QED BY <1>5, <2>1, <2>3, <2>5, <2>6, <2>7, <2>8, <2>9
<1>8. ASSUME NEW t \in Tops, Drop(t) PROVE SaTree' /\ NoOrphanWork'
  <2> DEFINE D == Awaited(t)
  <2>1. at[t] # "off" /\ UNCHANGED <<runs, used, child>> BY <1>8 DEF Drop
  <2>2. /\ D \subseteq Turns /\ t \in D
        /\ \A u \in D : at[u] = "waiting" => child[u] \in D
        /\ \A u \in D : at[u] # "off"
    BY <2>1, AwaitedBelow
  <2> HIDE DEF D
  <2>3. at' = Dropped(D) BY <1>8 DEF Drop, D
  <2>4. \A u \in Turns : at'[u] = IF u \in D THEN "over" ELSE at[u] BY <2>3 DEF Dropped
  <2> QED BY <1>5, <2>1, <2>2, <2>4
<1> QED BY <1>1, <1>2, <1>3, <1>4, <1>6, <1>7, <1>8 DEF SaNext

\* No subagent works that nobody waits for: a timeout (runtime/src/lib.rs wraps the child's
\* turn in tokio::time::timeout) or a dropped turn stops everything below it, however deep,
\* for any number of turns, runs and any limits of the registry.
THEOREM NoOrphans == SaSpec => []NoOrphanWork
<1>1. SaInit => SaInv
  BY TurnsAndRuns DEF SaInit, SaInv, SaTypeOK, SaSessions, SaTree, HasChild, NoOrphanWork, Live, NoCaller
<1>2. SaInv /\ [SaNext]_saVars => SaInv' BY SaTypes, SaStep DEF SaInv
<1> QED BY <1>1, <1>2, PTL DEF SaSpec, SaInv

----------------------------------------------------------------------------
(* Browser sessions                                                         *)

\* A call of a browser tool.
BrCall ==
  [op : {"none", "page", "open", "close"}, name : BrNames \cup {0},
   step : {"idle", "start", "page", "limit", "create", "navigate", "dead", "insert", "snapshot", "request"},
   target : 0..brUsed]

\* A call that does nothing is none, the others are about a session, what an open stores
\* is a tab, and only a close asks for one to be closed.
BrCallOK(q) ==
  /\ q.step = "idle" => q.op = "none"
  /\ q.op # "none" => q.name \in BrNames
  /\ q.step = "insert" => q.target # 0
  /\ q.step = "request" => q.op = "close"

\* The types of the client and of the browser.
BrTypeOK ==
  /\ brUsed \in Nat /\ brFaults \in Nat /\ brDrops \in Nat /\ brRaced \in BOOLEAN
  /\ brLive \subseteq 1..brUsed
  /\ DOMAIN brSessions \subseteq BrNames /\ \A n \in DOMAIN brSessions : brSessions[n] \in 1..brUsed
  /\ brCalls \in [BrTurns -> BrCall]
  /\ \A t \in BrTurns : BrCallOK(brCalls[t])

\* An open or a close is under way.
Changing(t) == brCalls[t].op \in {"open", "close"}

\* The call alone answers for the tab in its hand: made or found and to be stored, or taken
\* out of the table and to be closed.
InHand(t) ==
  \/ brCalls[t].op = "open" /\ brCalls[t].step = "insert"
  \/ brCalls[t].op = "close" /\ brCalls[t].step = "request"

\* Without a race one call at a time changes a session.
BrOneCall == \A t, u \in BrTurns : Changing(t) /\ Changing(u) /\ brCalls[t].name = brCalls[u].name => t = u

\* Sessions have tabs of their own.
BrSessionTabs ==
  /\ \A n \in DOMAIN brSessions : brSessions[n] \in brLive
  /\ \A n, m \in DOMAIN brSessions : brSessions[n] = brSessions[m] => n = m

\* What an open knows of the table between two steps is still so.
BrKnows ==
  \A t \in BrTurns : brCalls[t].op = "open" =>
    LET n == brCalls[t].name g == brCalls[t].target s == brCalls[t].step
    IN /\ s \in {"limit", "create"} => n \notin DOMAIN brSessions
       /\ s = "navigate" => n \in DOMAIN brSessions /\ brSessions[n] = g
       /\ s = "insert" /\ n \in DOMAIN brSessions => brSessions[n] = g

\* A tab in a hand is there, in no other hand, and in no other session.
BrHands ==
  /\ \A t \in BrTurns : InHand(t) => brCalls[t].target \in brLive
  /\ \A t, u \in BrTurns : InHand(t) /\ InHand(u) /\ brCalls[t].target = brCalls[u].target => t = u
  /\ \A t \in BrTurns, n \in DOMAIN brSessions :
       InHand(t) /\ brSessions[n] = brCalls[t].target => brCalls[t].op = "open" /\ brCalls[t].name = n

BrOwned == BrOneCall /\ BrSessionTabs /\ BrKnows /\ BrHands

\* A session that is about to be taken for dead.
Dying(n) == \E t \in BrTurns : brCalls[t].op = "open" /\ brCalls[t].step = "dead" /\ brCalls[t].name = n

\* The tab has a session that stays, or is in the hand of a call; the tabs without either.
HasOwner(g) ==
  \/ \E n \in DOMAIN brSessions : brSessions[n] = g /\ ~Dying(n)
  \/ \E t \in BrTurns : InHand(t) /\ brCalls[t].target = g
Unowned == {g \in brLive : ~HasOwner(g)}

\* The inductive invariant: of every tab without an owner a failure or a dropped turn is known.
BrInv == BrTypeOK /\ (~brRaced => BrOwned /\ Cardinality(Unowned) <= brFaults + brDrops)

\* How a step leaves the calls.
LEMMA BrSetCall ==
  ASSUME BrTypeOK, NEW t \in BrTurns, NEW s, NEW g, BrSet(t, s, g)
  PROVE  /\ brCalls'[t].op = brCalls[t].op /\ brCalls'[t].name = brCalls[t].name
         /\ brCalls'[t].step = s /\ brCalls'[t].target = g
         /\ \A u \in BrTurns \ {t} : brCalls'[u] = brCalls[u]
         /\ brCalls' = [u \in BrTurns |-> brCalls'[u]]
<1>1. brCalls[t] \in BrCall /\ DOMAIN brCalls = BrTurns BY DEF BrTypeOK
<1> DEFINE q == [brCalls[t] EXCEPT !.step = s, !.target = g]
<1>2. brCalls' = [brCalls EXCEPT ![t] = q] BY DEF BrSet
<1>3. q.op = brCalls[t].op /\ q.name = brCalls[t].name /\ q.step = s /\ q.target = g BY <1>1 DEF BrCall
<1> HIDE DEF q
<1>4. brCalls'[t] = q /\ \A u \in BrTurns \ {t} : brCalls'[u] = brCalls[u] BY <1>1, <1>2
<1>5. brCalls' = [u \in BrTurns |-> brCalls'[u]] BY <1>1, <1>2
<1> QED BY <1>3, <1>4, <1>5

\* It is a call again.
LEMMA BrSetTyped ==
  ASSUME BrTypeOK, NEW t \in BrTurns, NEW g \in 0..brUsed',
         NEW s \in {"page", "limit", "create", "navigate", "dead", "insert", "snapshot", "request"}, BrSet(t, s, g)
  PROVE  brCalls'[t] \in BrCall'
<1>1. brCalls[t] \in BrCall /\ DOMAIN brCalls = BrTurns BY DEF BrTypeOK
<1> DEFINE q == [brCalls[t] EXCEPT !.step = s, !.target = g]
<1>2. brCalls' = [brCalls EXCEPT ![t] = q] BY DEF BrSet
<1>3. q \in BrCall' BY <1>1 DEF BrCall
<1> HIDE DEF q
<1> QED BY <1>1, <1>2, <1>3

\* How a return leaves them.
LEMMA BrReturnCall ==
  ASSUME BrTypeOK, NEW t \in BrTurns, BrReturn(t)
  PROVE  /\ brCalls'[t] = BrIdle /\ \A u \in BrTurns \ {t} : brCalls'[u] = brCalls[u]
         /\ brCalls' = [u \in BrTurns |-> brCalls'[u]]
<1>1. brCalls' = [brCalls EXCEPT ![t] = BrIdle] /\ DOMAIN brCalls = BrTurns BY DEF BrReturn, BrTypeOK
<1> QED BY <1>1

\* The types after a step that changes one call.
LEMMA BrTypesKept ==
  ASSUME BrTypeOK, NEW t \in BrTurns,
         \A u \in BrTurns \ {t} : brCalls'[u] = brCalls[u], brCalls' = [u \in BrTurns |-> brCalls'[u]],
         brCalls'[t] \in BrCall', BrCallOK(brCalls'[t]),
         brUsed' \in Nat, brUsed' >= brUsed, brFaults' \in Nat, brDrops' \in Nat, brRaced' \in BOOLEAN,
         brLive' \subseteq 1..brUsed',
         DOMAIN brSessions' \subseteq BrNames, \A n \in DOMAIN brSessions' : brSessions'[n] \in 1..brUsed'
  PROVE  BrTypeOK'
<1>1. BrCall \subseteq BrCall'
  <2>1. 0..brUsed \subseteq 0..brUsed' BY DEF BrTypeOK
  <2> QED BY <2>1 DEF BrCall
<1>2. \A u \in BrTurns : brCalls'[u] \in BrCall' BY <1>1 DEF BrTypeOK
<1>3. brCalls' \in [BrTurns -> BrCall'] BY <1>2
<1> QED BY <1>3 DEF BrTypeOK

\* Every step keeps the types.
LEMMA BrTypes == BrTypeOK /\ [BrNext]_brVars => BrTypeOK'
<1> SUFFICES ASSUME BrTypeOK, [BrNext]_brVars PROVE BrTypeOK'
  OBVIOUS
<1>1. CASE UNCHANGED brVars BY <1>1 DEF brVars, BrTypeOK, BrCall
<1>2. ASSUME NEW t \in BrTurns, NEW n \in BrNames, NEW op \in {"page", "open", "close"}, BrowserTool(t, op, n)
      PROVE  BrTypeOK'
  <2>1. [op |-> op, name |-> n, step |-> "start", target |-> 0] \in BrCall' BY <1>2 DEF BrowserTool, BrTypeOK, BrCall
  <2> DEFINE q == [op |-> op, name |-> n, step |-> "start", target |-> 0]
  <2>2. BrCallOK(q) BY DEF BrCallOK
  <2> HIDE DEF q
  <2>3. /\ brCalls' = [brCalls EXCEPT ![t] = q] /\ DOMAIN brCalls = BrTurns /\ brRaced' \in BOOLEAN
        /\ UNCHANGED <<brSessions, brLive, brUsed, brFaults, brDrops>>
    BY <1>2 DEF BrowserTool, BrTypeOK, q
  <2>4. /\ brCalls'[t] = q /\ \A u \in BrTurns \ {t} : brCalls'[u] = brCalls[u]
        /\ brCalls' = [u \in BrTurns |-> brCalls'[u]]
    BY <2>3
  <2>5. q \in BrCall' BY <2>1 DEF q
  <2>6. brUsed' \in Nat /\ brUsed' >= brUsed /\ brFaults' \in Nat /\ brDrops' \in Nat /\ brLive' \subseteq 1..brUsed'
        /\ DOMAIN brSessions' \subseteq BrNames /\ \A x \in DOMAIN brSessions' : brSessions'[x] \in 1..brUsed'
    BY <2>3 DEF BrTypeOK
  <2> QED BY <2>2, <2>3, <2>4, <2>5, <2>6, BrTypesKept
<1>3. ASSUME NEW t \in BrTurns, brUsed' \in Nat PROVE BrIdle \in BrCall'
  BY <1>3 DEF BrIdle, BrCall
<1>4. ASSUME NEW t \in BrTurns, BrReturn(t), brUsed' \in Nat, brUsed' >= brUsed, brFaults' \in Nat, brDrops' \in Nat, brRaced' = brRaced,
             brLive' \subseteq 1..brUsed',
             DOMAIN brSessions' \subseteq BrNames, \A n \in DOMAIN brSessions' : brSessions'[n] \in 1..brUsed'
      PROVE  BrTypeOK'
  <2>1. BrCallOK(BrIdle) BY DEF BrCallOK, BrIdle
  <2> QED BY <1>3, <1>4, <2>1, BrReturnCall, BrTypesKept DEF BrTypeOK
<1>5. ASSUME NEW t \in BrTurns, NEW g \in 0..brUsed', brUsed' \in Nat, brUsed' >= brUsed, brFaults' \in Nat, brDrops' \in Nat, brRaced' = brRaced,
             NEW s \in {"page", "limit", "create", "navigate", "dead", "insert", "snapshot", "request"}, BrSet(t, s, g),
             s = "insert" => g # 0, s = "request" => brCalls[t].op = "close",
             brLive' \subseteq 1..brUsed',
             DOMAIN brSessions' \subseteq BrNames, \A n \in DOMAIN brSessions' : brSessions'[n] \in 1..brUsed'
      PROVE  BrTypeOK'
  <2>3. BrCallOK(brCalls'[t])
    <3>1. /\ brCalls'[t].op = brCalls[t].op /\ brCalls'[t].name = brCalls[t].name
          /\ brCalls'[t].step = s /\ brCalls'[t].target = g
      BY <1>5, BrSetCall
    <3> QED BY <1>5, <3>1 DEF BrTypeOK, BrCallOK
  <2>4. brCalls'[t] \in BrCall' BY <1>5, BrSetTyped
  <2> QED BY <1>5, <2>3, <2>4, BrSetCall, BrTypesKept DEF BrTypeOK
<1>6. brUsed \in Nat /\ brUsed >= brUsed /\ brFaults \in Nat /\ brDrops \in Nat /\ brLive \subseteq 1..brUsed
      /\ DOMAIN brSessions \subseteq BrNames /\ (\A n \in DOMAIN brSessions : brSessions[n] \in 0..brUsed /\ brSessions[n] \in 1..brUsed)
      /\ 0 \in 0..brUsed
  BY DEF BrTypeOK
<1>7. ASSUME NEW t \in BrTurns PROVE brCalls[t].target \in 0..brUsed BY DEF BrTypeOK, BrCall
<1>8. ASSUME send_command_fails PROVE brFaults' \in Nat BY <1>6, <1>8 DEF send_command_fails
<1>9. ASSUME NEW n PROVE /\ DOMAIN BrWithout(n) \subseteq BrNames
                         /\ \A x \in DOMAIN BrWithout(n) : BrWithout(n)[x] \in 1..brUsed
  BY <1>6 DEF BrWithout
<1>10. ASSUME NEW t \in BrTurns, page_op(t) PROVE BrTypeOK'
  BY <1>4, <1>5, <1>6, <1>10 DEF page_op
<1>11. ASSUME NEW t \in BrTurns, open_lookup(t) PROVE BrTypeOK'
  BY <1>4, <1>5, <1>6, <1>11 DEF open_lookup
<1>12. ASSUME NEW t \in BrTurns, navigate_target(t) PROVE BrTypeOK'
  <2>1. 0 \notin brLive BY <1>6
  <2> QED BY <1>4, <1>5, <1>6, <1>7, <1>8, <1>12, <2>1 DEF navigate_target
<1>13. ASSUME NEW t \in BrTurns, remove_dead_session(t) PROVE BrTypeOK'
  BY <1>5, <1>6, <1>9, <1>13 DEF remove_dead_session
<1>14. ASSUME NEW t \in BrTurns, create_target(t) PROVE BrTypeOK'
  <2>1. CASE BrReturn(t) /\ UNCHANGED <<brLive, brUsed, brFaults>>
    BY <1>4, <1>6, <1>14, <2>1 DEF create_target
  <2>2. CASE /\ brUsed' = brUsed + 1 /\ brLive' = brLive \cup {brUsed + 1}
             /\ \/ BrSet(t, "insert", brUsed + 1) /\ UNCHANGED brFaults
                \/ BrReturn(t) /\ send_command_fails
    <3>1. brUsed' \in Nat /\ brUsed' >= brUsed /\ brUsed + 1 \in 0..brUsed' /\ brUsed + 1 # 0 /\ brLive' \subseteq 1..brUsed'
          /\ \A n \in DOMAIN brSessions : brSessions[n] \in 1..brUsed'
      BY <1>6, <2>2
    <3>2. brSessions' = brSessions /\ brDrops' = brDrops /\ brRaced' = brRaced BY <1>14 DEF create_target
    <3> QED BY <1>4, <1>5, <1>6, <1>8, <2>2, <3>1, <3>2
  <2> QED BY <1>14, <2>1, <2>2 DEF create_target
<1>15. ASSUME NEW t \in BrTurns, open_insert(t) PROVE BrTypeOK'
  <2>1. brCalls[t].target \in 1..brUsed /\ brCalls[t].name \in BrNames
    BY <1>6, <1>7, <1>15 DEF open_insert, BrTypeOK, BrCallOK
  <2>2. /\ DOMAIN brSessions' \subseteq BrNames
        /\ \A x \in DOMAIN brSessions' : brSessions'[x] \in 1..brUsed
    BY <1>6, <1>15, <2>1 DEF open_insert, BrWith
  <2> QED BY <1>5, <1>6, <1>7, <1>15, <2>2 DEF open_insert
<1>16. ASSUME NEW t \in BrTurns, snapshot_session(t) PROVE BrTypeOK'
  BY <1>4, <1>6, <1>16 DEF snapshot_session
<1>17. ASSUME NEW t \in BrTurns, close(t) PROVE BrTypeOK'
  <2>1. brUsed' = brUsed /\ brDrops' = brDrops /\ brRaced' = brRaced BY <1>17 DEF close
  <2>2. CASE /\ brCalls[t].name \in DOMAIN brSessions
             /\ BrSet(t, "request", brSessions[brCalls[t].name])
             /\ brSessions' = BrWithout(brCalls[t].name) /\ UNCHANGED <<brLive, brFaults>> /\ brCalls[t].op = "close"
    BY <1>5, <1>6, <1>9, <2>1, <2>2
  <2>3. CASE BrReturn(t) /\ brLive' \subseteq brLive /\ brSessions' = brSessions /\ brFaults' \in Nat
    BY <1>4, <1>6, <2>1, <2>3
  <2> QED BY <1>6, <1>8, <1>17, <2>1, <2>2, <2>3 DEF close
<1>18. ASSUME NEW t \in BrTurns, TurnDropped(t) PROVE BrTypeOK'
  <2>1. /\ BrReturn(t) /\ UNCHANGED <<brSessions, brFaults, brRaced>> /\ brDrops' \in {brDrops, brDrops + 1}
        /\ \/ UNCHANGED <<brLive, brUsed>>
           \/ brUsed' = brUsed + 1 /\ brLive' = brLive \cup {brUsed + 1}
           \/ brLive' = brLive \ {brCalls[t].target} /\ brUsed' = brUsed
    BY <1>18 DEF TurnDropped
  <2>2. brDrops' \in Nat BY <1>6, <2>1
  <2>3. CASE brUsed' = brUsed /\ brLive' \subseteq brLive BY <1>4, <1>6, <2>1, <2>2, <2>3
  <2>4. CASE brUsed' = brUsed + 1 /\ brLive' = brLive \cup {brUsed + 1}
    <3>1. brUsed' \in Nat /\ brUsed' >= brUsed /\ brLive' \subseteq 1..brUsed' BY <1>6, <2>4
    <3>2. \A n \in DOMAIN brSessions : brSessions[n] \in 1..brUsed' BY <1>6, <2>4
    <3> QED BY <1>4, <1>6, <2>1, <2>2, <3>1, <3>2
  <2> QED BY <2>1, <2>3, <2>4
<1> QED BY <1>1, <1>2, <1>10, <1>11, <1>12, <1>13, <1>14, <1>15, <1>16, <1>17, <1>18 DEF BrNext

\* A step that leaves the table and the tabs as they are, and takes no tab in hand that was
\* not there, keeps what is owned.
LEMMA BrQuietCall ==
  ASSUME BrTypeOK, BrOwned, NEW t \in BrTurns, UNCHANGED <<brSessions, brLive>>,
         \A u \in BrTurns \ {t} : brCalls'[u] = brCalls[u],
         Changing(t)' => brCalls'[t].op = brCalls[t].op /\ brCalls'[t].name = brCalls[t].name,
         ~InHand(t), ~InHand(t)',
         brCalls'[t].op = "open" =>
           /\ brCalls'[t].step \in {"limit", "create"} => brCalls[t].name \notin DOMAIN brSessions
           /\ brCalls'[t].step = "navigate" =>
                brCalls[t].name \in DOMAIN brSessions /\ brSessions[brCalls[t].name] = brCalls'[t].target
  PROVE  BrOwned'
<1>1. \A u \in BrTurns \ {t} : (Changing(u)' <=> Changing(u)) /\ (InHand(u)' <=> InHand(u))
  BY DEF Changing, InHand
<1>2. BrOneCall' BY <1>1 DEF BrOwned, BrOneCall, Changing
<1>3. BrSessionTabs' BY DEF BrOwned, BrSessionTabs
<1>5. BrKnows' BY DEF BrOwned, BrKnows, Changing, InHand
<1>6. BrHands' BY <1>1 DEF BrOwned, BrHands
<1> QED BY <1>2, <1>3, <1>5, <1>6 DEF BrOwned

\* So does a call that returns, whether tabs were made, or the tab in its hand was closed.
LEMMA BrReturnOwned ==
  ASSUME BrTypeOK, BrOwned, NEW t \in BrTurns, BrReturn(t), brSessions' = brSessions,
         \/ brLive \subseteq brLive'
         \/ brCalls[t].op = "close" /\ InHand(t) /\ brLive' = brLive \ {brCalls[t].target}
  PROVE  BrOwned'
<1> DEFINE g == brCalls[t].target
<1>1. brCalls'[t] = BrIdle /\ \A u \in BrTurns \ {t} : brCalls'[u] = brCalls[u] BY BrReturnCall
<1>2. ~Changing(t)' /\ ~InHand(t)' /\ brCalls'[t].op # "open" BY <1>1 DEF BrIdle, Changing, InHand
<1>3. \A u \in BrTurns \ {t} : (Changing(u)' <=> Changing(u)) /\ (InHand(u)' <=> InHand(u))
  BY <1>1 DEF Changing, InHand
<1>4. \A u \in BrTurns \ {t} : InHand(u) => brCalls[u].target \in brLive' BY DEF BrOwned, BrHands
<1>5. \A m \in DOMAIN brSessions : brSessions[m] \in brLive' BY DEF BrOwned, BrHands, BrSessionTabs
<1>6. BrOneCall' BY <1>1, <1>2, <1>3 DEF BrOwned, BrOneCall
<1>7. BrSessionTabs' BY <1>5 DEF BrOwned, BrSessionTabs
<1>9. BrKnows' BY <1>1, <1>2 DEF BrOwned, BrKnows
<1>10. BrHands' BY <1>1, <1>2, <1>3, <1>4 DEF BrOwned, BrHands
<1> QED BY <1>6, <1>7, <1>9, <1>10 DEF BrOwned

\* Without races every step keeps the sessions and the hands.
LEMMA BrStep == BrTypeOK /\ BrOwned /\ BrNext /\ ~brRaced' => BrOwned'
<1> SUFFICES ASSUME BrTypeOK, BrOwned, NEW t \in BrTurns, ~brRaced',
                    \/ \E n \in BrNames, op \in {"page", "open", "close"} : BrowserTool(t, op, n)
                    \/ page_op(t) \/ open_lookup(t) \/ navigate_target(t) \/ remove_dead_session(t)
                    \/ create_target(t) \/ open_insert(t) \/ snapshot_session(t) \/ close(t) \/ TurnDropped(t)
             PROVE  BrOwned'
  BY DEF BrNext
<1>2. ASSUME NEW n \in BrNames, NEW op \in {"page", "open", "close"}, BrowserTool(t, op, n) PROVE BrOwned'
  <2> DEFINE q == [op |-> op, name |-> n, step |-> "start", target |-> 0]
  <2>1. q.op = op /\ q.name = n /\ q.step = "start" OBVIOUS
  <2> HIDE DEF q
  <2>2. /\ brCalls'[t] = q /\ (\A u \in BrTurns \ {t} : brCalls'[u] = brCalls[u])
        /\ UNCHANGED <<brSessions, brLive>> /\ brCalls[t].step = "idle"
        /\ (op \in {"open", "close"} => \A u \in BrTurns \ {t} : ~(Changing(u) /\ brCalls[u].name = n))
    BY <1>2 DEF BrowserTool, BrTypeOK, Changing, q
  <2>3. ~Changing(t) BY <2>2 DEF BrTypeOK, BrCallOK, Changing
  <2>4. \A u \in BrTurns \ {t} : (Changing(u)' <=> Changing(u)) /\ (InHand(u)' <=> InHand(u))
    BY <2>2 DEF Changing, InHand
  <2>5. ~InHand(t) /\ ~InHand(t)' BY <2>1, <2>2 DEF InHand
  <2>6. BrOneCall' BY <2>1, <2>2, <2>4 DEF BrOwned, BrOneCall, Changing
  <2>7. BrSessionTabs' BY <2>2 DEF BrOwned, BrSessionTabs
  <2>9. BrKnows' BY <2>1, <2>2 DEF BrOwned, BrKnows
  <2>10. BrHands' BY <2>2, <2>4, <2>5 DEF BrOwned, BrHands
  <2> QED BY <2>6, <2>7, <2>9, <2>10 DEF BrOwned
<1>3. CASE page_op(t)
  <2>1. ~InHand(t) /\ UNCHANGED <<brSessions, brLive>> BY <1>3 DEF page_op, InHand
  <2>2. CASE BrReturn(t) BY <2>1, <2>2, BrReturnCall, BrQuietCall DEF BrIdle, Changing, InHand
  <2>3. CASE BrSet(t, "page", brSessions[brCalls[t].name])
    <3>1. brCalls[t].op = "page" BY <1>3 DEF page_op
    <3> QED BY <2>1, <2>3, <3>1, BrSetCall, BrQuietCall DEF Changing, InHand
  <2> QED BY <1>3, <2>2, <2>3 DEF page_op
<1>4. CASE open_lookup(t)
  <2>1. ~InHand(t) /\ UNCHANGED <<brSessions, brLive>> /\ brCalls[t].op = "open"
    BY <1>4 DEF open_lookup, InHand
  <2>2. CASE BrReturn(t) BY <2>1, <2>2, BrReturnCall, BrQuietCall DEF BrIdle, Changing, InHand
  <2>3. CASE brCalls[t].name \in DOMAIN brSessions /\ BrSet(t, "navigate", brSessions[brCalls[t].name])
    <3>1. /\ brCalls'[t].step = "navigate" /\ brCalls'[t].target = brSessions[brCalls[t].name]
          /\ brCalls'[t].op = "open" /\ brCalls'[t].name = brCalls[t].name
          /\ \A u \in BrTurns \ {t} : brCalls'[u] = brCalls[u]
      BY <2>1, <2>3, BrSetCall
    <3>2. ~InHand(t)' BY <3>1 DEF InHand
    <3> QED BY <2>1, <2>3, <3>1, <3>2, BrQuietCall
  <2>4. CASE brCalls[t].name \notin DOMAIN brSessions /\ (BrSet(t, "limit", 0) \/ BrSet(t, "create", 0))
    <3>1. PICK s \in {"limit", "create"} : BrSet(t, s, 0) BY <2>4
    <3>2. brCalls'[t].step \notin {"navigate", "dead", "insert", "request"} BY <3>1, BrSetCall
    <3> QED BY <2>1, <2>4, <3>1, <3>2, BrSetCall, BrQuietCall DEF Changing, InHand
  <2>5. brCalls[t].step = "limit" => brCalls[t].name \notin DOMAIN brSessions BY <2>1 DEF BrOwned, BrKnows
  <2> QED BY <1>4, <2>2, <2>3, <2>4, <2>5 DEF open_lookup
<1>5. CASE navigate_target(t)
  <2>1. /\ brCalls[t].op = "open" /\ brCalls[t].step = "navigate" /\ UNCHANGED <<brSessions, brLive>>
        /\ brCalls[t].name \in DOMAIN brSessions /\ brSessions[brCalls[t].name] = brCalls[t].target
    BY <1>5 DEF navigate_target, BrOwned, BrKnows
  <2>2. brCalls[t].target \in brLive BY <2>1 DEF BrOwned, BrSessionTabs
  <2> SUFFICES ASSUME BrSet(t, "insert", brCalls[t].target) PROVE BrOwned'
    <3>1. CASE BrSet(t, "dead", 0)
      <4>1. brCalls'[t].step = "dead" /\ ~InHand(t) /\ ~InHand(t)' BY <2>1, <3>1, BrSetCall DEF InHand
      <4> QED BY <2>1, <3>1, <4>1, BrSetCall, BrQuietCall
    <3> QED BY <1>5, <2>2, <3>1 DEF navigate_target
  <2>4. /\ brCalls'[t].op = "open" /\ brCalls'[t].name = brCalls[t].name /\ brCalls'[t].step = "insert"
        /\ brCalls'[t].target = brCalls[t].target /\ \A u \in BrTurns \ {t} : brCalls'[u] = brCalls[u]
    BY <2>1, BrSetCall
  <2>5. \A u \in BrTurns \ {t} : (Changing(u)' <=> Changing(u)) /\ (InHand(u)' <=> InHand(u))
    BY <2>4 DEF Changing, InHand
  <2>6. Changing(t) /\ Changing(t)' /\ InHand(t)' /\ ~InHand(t) BY <2>1, <2>4 DEF Changing, InHand
  <2>7. BrOneCall' BY <2>4, <2>5, <2>6 DEF BrOwned, BrOneCall
  <2>8. BrSessionTabs' BY <2>1 DEF BrOwned, BrSessionTabs
  <2>10. BrKnows' BY <2>1, <2>4 DEF BrOwned, BrKnows
  <2>11. ASSUME NEW u \in BrTurns \ {t}, InHand(u) PROVE brCalls[u].target # brCalls[t].target
    <3>1. Changing(u) BY <2>11 DEF InHand, Changing
    <3> QED BY <2>1, <2>6, <2>11, <3>1 DEF BrOwned, BrHands, BrOneCall
  <2>12. BrHands'
    <3>1. \A u \in BrTurns : InHand(u)' => brCalls'[u].target \in brLive' BY <2>1, <2>2, <2>4, <2>5 DEF BrOwned, BrHands
    <3>2. \A u, v \in BrTurns : InHand(u)' /\ InHand(v)' /\ brCalls'[u].target = brCalls'[v].target => u = v
      BY <2>4, <2>5, <2>11 DEF BrOwned, BrHands
    <3>3. \A u \in BrTurns, n \in DOMAIN brSessions :
            InHand(u)' /\ brSessions[n] = brCalls'[u].target => brCalls'[u].op = "open" /\ brCalls'[u].name = n
      BY <2>1, <2>4, <2>5 DEF BrOwned, BrHands, BrSessionTabs
    <3> QED BY <2>1, <3>1, <3>2, <3>3 DEF BrHands
  <2> QED BY <2>7, <2>8, <2>10, <2>12 DEF BrOwned
<1>6. CASE remove_dead_session(t)
  <2> DEFINE n == brCalls[t].name
  <2>1. /\ brCalls[t].op = "open" /\ brCalls[t].step = "dead" /\ brSessions' = BrWithout(n) /\ brLive' = brLive
        /\ BrSet(t, "create", 0)
    BY <1>6 DEF remove_dead_session
  <2>2. /\ brCalls'[t].op = "open" /\ brCalls'[t].name = n /\ brCalls'[t].step = "create"
        /\ \A u \in BrTurns \ {t} : brCalls'[u] = brCalls[u]
    BY <2>1, BrSetCall
  <2>3. /\ DOMAIN brSessions' = DOMAIN brSessions \ {n}
        /\ \A m \in DOMAIN brSessions \ {n} : brSessions'[m] = brSessions[m]
    BY <2>1 DEF BrWithout
  <2>4. \A u \in BrTurns \ {t} : (Changing(u)' <=> Changing(u)) /\ (InHand(u)' <=> InHand(u))
    BY <2>2 DEF Changing, InHand
  <2>5. Changing(t) /\ Changing(t)' /\ ~InHand(t)' BY <2>1, <2>2 DEF Changing, InHand
  <2>6. \A u \in BrTurns \ {t} : Changing(u) => brCalls[u].name # n BY <2>5 DEF BrOwned, BrOneCall
  <2>7. BrOneCall' BY <2>2, <2>4, <2>5 DEF BrOwned, BrOneCall
  <2>8. BrSessionTabs' BY <2>1, <2>3 DEF BrOwned, BrSessionTabs
  <2>9. BrKnows' BY <2>2, <2>3, <2>6 DEF BrOwned, BrKnows, Changing
  <2>10. BrHands' BY <2>1, <2>2, <2>3, <2>4, <2>5 DEF BrOwned, BrHands
  <2> QED BY <2>7, <2>8, <2>9, <2>10 DEF BrOwned
<1>7. CASE create_target(t)
  <2>1. /\ brCalls[t].op = "open" /\ brCalls[t].step = "create" /\ brSessions' = brSessions
        /\ brCalls[t].name \notin DOMAIN brSessions /\ ~InHand(t)
    BY <1>7 DEF create_target, BrOwned, BrKnows, InHand
  <2>2. CASE BrReturn(t) /\ UNCHANGED brLive BY <2>1, <2>2, BrReturnCall, BrQuietCall DEF BrIdle, Changing, InHand
  <2>3. CASE brLive' = brLive \cup {brUsed + 1} /\ BrSet(t, "insert", brUsed + 1)
    <3> DEFINE g == brUsed + 1
    <3>1. /\ brCalls'[t].op = "open" /\ brCalls'[t].name = brCalls[t].name /\ brCalls'[t].step = "insert"
          /\ brCalls'[t].target = g /\ \A u \in BrTurns \ {t} : brCalls'[u] = brCalls[u]
      BY <2>1, <2>3, BrSetCall
    <3>2. g \notin brLive BY DEF BrTypeOK
    <3>3. brLive' = brLive \cup {g} BY <2>3
    <3> HIDE DEF g
    <3>4. \A u \in BrTurns \ {t} : (Changing(u)' <=> Changing(u)) /\ (InHand(u)' <=> InHand(u))
      BY <3>1 DEF Changing, InHand
    <3>5. Changing(t) /\ Changing(t)' /\ InHand(t)' BY <2>1, <3>1 DEF Changing, InHand
    <3>6. BrOneCall' BY <3>1, <3>4, <3>5 DEF BrOwned, BrOneCall
    <3>7. BrSessionTabs' BY <2>1, <3>3 DEF BrOwned, BrSessionTabs
    <3>9. BrKnows' BY <2>1, <3>1 DEF BrOwned, BrKnows
    <3>10. BrHands'
      <4>1. \A u \in BrTurns : InHand(u)' => brCalls'[u].target \in brLive' BY <3>1, <3>3, <3>4 DEF BrOwned, BrHands
      <4>2. \A u, v \in BrTurns : InHand(u)' /\ InHand(v)' /\ brCalls'[u].target = brCalls'[v].target => u = v
        BY <3>1, <3>2, <3>4 DEF BrOwned, BrHands
      <4>3. \A u \in BrTurns, n \in DOMAIN brSessions :
              InHand(u)' /\ brSessions[n] = brCalls'[u].target => brCalls'[u].op = "open" /\ brCalls'[u].name = n
        BY <2>1, <3>1, <3>2, <3>4 DEF BrOwned, BrHands, BrSessionTabs
      <4> QED BY <2>1, <4>1, <4>2, <4>3 DEF BrHands
    <3> QED BY <3>6, <3>7, <3>9, <3>10 DEF BrOwned
  <2>4. CASE brLive' = brLive \cup {brUsed + 1} /\ BrReturn(t) BY <2>1, <2>4, BrReturnOwned
  <2> QED BY <1>7, <2>2, <2>3, <2>4 DEF create_target
<1>8. CASE open_insert(t)
  <2> DEFINE n == brCalls[t].name g == brCalls[t].target
  <2>1. /\ brCalls[t].op = "open" /\ brCalls[t].step = "insert" /\ brLive' = brLive
        /\ brSessions' = BrWith(n, g) /\ BrSet(t, "snapshot", g) /\ InHand(t) /\ Changing(t)
    BY <1>8 DEF open_insert, InHand, Changing
  <2>2. /\ brCalls'[t].op = "open" /\ brCalls'[t].name = n /\ brCalls'[t].step = "snapshot"
        /\ \A u \in BrTurns \ {t} : brCalls'[u] = brCalls[u]
    BY <2>1, BrSetCall
  <2>3. /\ DOMAIN brSessions' = DOMAIN brSessions \cup {n} /\ brSessions'[n] = g
        /\ \A m \in DOMAIN brSessions \ {n} : brSessions'[m] = brSessions[m] /\ brSessions[m] # g
    BY <2>1 DEF BrWith, BrOwned, BrHands
  <2>4. g \in brLive BY <2>1 DEF BrOwned, BrHands
  <2>5. \A u \in BrTurns \ {t} : /\ (Changing(u)' <=> Changing(u)) /\ (InHand(u)' <=> InHand(u))
                                  /\ (Changing(u) => brCalls[u].name # n)
                                  /\ (InHand(u) => brCalls[u].target # g)
    BY <2>1, <2>2 DEF Changing, InHand, BrOwned, BrOneCall, BrHands
  <2>6. Changing(t)' /\ ~InHand(t)' BY <2>2 DEF Changing, InHand
  <2>7. BrOneCall' BY <2>1, <2>2, <2>5, <2>6 DEF BrOwned, BrOneCall
  <2>8. BrSessionTabs' BY <2>1, <2>3, <2>4 DEF BrOwned, BrSessionTabs
  <2>10. BrKnows' BY <2>2, <2>3, <2>5 DEF BrOwned, BrKnows, Changing
  <2>11. BrHands'
    <3>1. \A u \in BrTurns : InHand(u)' => brCalls'[u].target \in brLive'
      BY <2>1, <2>2, <2>5, <2>6 DEF BrOwned, BrHands
    <3>2. \A u, v \in BrTurns : InHand(u)' /\ InHand(v)' /\ brCalls'[u].target = brCalls'[v].target => u = v
      BY <2>2, <2>5, <2>6 DEF BrOwned, BrHands
    <3>3. \A u \in BrTurns, m \in DOMAIN brSessions' :
            InHand(u)' /\ brSessions'[m] = brCalls'[u].target => brCalls'[u].op = "open" /\ brCalls'[u].name = m
      BY <2>2, <2>3, <2>5, <2>6 DEF BrOwned, BrHands
    <3> QED BY <3>1, <3>2, <3>3 DEF BrHands
  <2> QED BY <2>7, <2>8, <2>10, <2>11 DEF BrOwned
<1>9. CASE snapshot_session(t)
  <2>1. ~InHand(t) /\ UNCHANGED <<brSessions, brLive>> BY <1>9 DEF snapshot_session, InHand
  <2> QED BY <1>9, <2>1, BrReturnCall, BrQuietCall DEF snapshot_session, BrIdle, Changing, InHand
<1>10. CASE close(t)
  <2> DEFINE n == brCalls[t].name g == brCalls[t].target
  <2>1. brCalls[t].op = "close" /\ Changing(t) BY <1>10 DEF close, Changing
  <2>2. CASE brCalls[t].step = "start" /\ BrReturn(t) /\ UNCHANGED <<brSessions, brLive>>
    BY <2>2, BrReturnCall, BrQuietCall DEF BrIdle, Changing, InHand
  <2>3. CASE /\ brCalls[t].step = "start" /\ n \in DOMAIN brSessions /\ BrSet(t, "request", brSessions[n])
             /\ brSessions' = BrWithout(n) /\ UNCHANGED brLive
    <3>1. /\ brCalls'[t].op = "close" /\ brCalls'[t].name = n /\ brCalls'[t].step = "request"
          /\ brCalls'[t].target = brSessions[n] /\ \A u \in BrTurns \ {t} : brCalls'[u] = brCalls[u]
      BY <2>1, <2>3, BrSetCall
    <3>2. /\ DOMAIN brSessions' = DOMAIN brSessions \ {n}
          /\ \A m \in DOMAIN brSessions \ {n} : brSessions'[m] = brSessions[m] /\ brSessions[m] # brSessions[n]
      BY <2>3 DEF BrWithout, BrOwned, BrSessionTabs
    <3>3. brSessions[n] \in brLive BY <2>3 DEF BrOwned, BrSessionTabs
    <3>4. \A u \in BrTurns \ {t} : /\ (Changing(u)' <=> Changing(u)) /\ (InHand(u)' <=> InHand(u))
                                    /\ (Changing(u) => brCalls[u].name # n)
      BY <2>1, <3>1 DEF Changing, InHand, BrOwned, BrOneCall
    <3>5. \A u \in BrTurns \ {t} : InHand(u) => brCalls[u].target # brSessions[n]
      BY <2>3, <3>4 DEF InHand, Changing, BrOwned, BrHands
    <3>6. Changing(t)' /\ InHand(t)' /\ ~InHand(t) BY <2>1, <2>3, <3>1 DEF Changing, InHand
    <3>7. BrOneCall' BY <3>1, <3>4, <3>6 DEF BrOwned, BrOneCall
    <3>8. BrSessionTabs' BY <2>3, <3>2 DEF BrOwned, BrSessionTabs
    <3>10. BrKnows' BY <3>1, <3>2, <3>4 DEF BrOwned, BrKnows, Changing
    <3>11. BrHands'
      <4>1. \A u \in BrTurns : InHand(u)' => brCalls'[u].target \in brLive'
        BY <2>3, <3>1, <3>3, <3>4 DEF BrOwned, BrHands
      <4>2. \A u, v \in BrTurns : InHand(u)' /\ InHand(v)' /\ brCalls'[u].target = brCalls'[v].target => u = v
        BY <3>1, <3>4, <3>5 DEF BrOwned, BrHands
      <4>3. \A u \in BrTurns, m \in DOMAIN brSessions' :
              InHand(u)' /\ brSessions'[m] = brCalls'[u].target => brCalls'[u].op = "open" /\ brCalls'[u].name = m
        BY <3>1, <3>2, <3>4 DEF BrOwned, BrHands
      <4> QED BY <4>1, <4>2, <4>3 DEF BrHands
    <3> QED BY <3>7, <3>8, <3>10, <3>11 DEF BrOwned
  <2>4. CASE brCalls[t].step = "request" /\ brLive' = brLive \ {g} /\ BrReturn(t) /\ UNCHANGED brSessions
    BY <2>1, <2>4, BrReturnOwned DEF InHand
  <2>5. CASE BrReturn(t) /\ UNCHANGED <<brSessions, brLive>> BY <2>5, BrReturnOwned
  <2> QED BY <1>10, <2>2, <2>3, <2>4, <2>5 DEF close
<1>11. CASE TurnDropped(t)
  <2>1. /\ BrReturn(t) /\ brSessions' = brSessions
        /\ \/ brLive \subseteq brLive'
           \/ brCalls[t].step = "request" /\ brLive' = brLive \ {brCalls[t].target}
    BY <1>11 DEF TurnDropped
  <2>2. brCalls[t].step = "request" => brCalls[t].op = "close" /\ InHand(t) BY DEF BrTypeOK, BrCallOK, InHand
  <2> QED BY <2>1, <2>2, BrReturnOwned
<1> QED BY <1>2, <1>3, <1>4, <1>5, <1>6, <1>7, <1>8, <1>9, <1>10, <1>11

\* An owner of a tab before a step and after it: its session stays and was not about to die,
\* or the hand that holds it still does.
LEMMA OwnersStay ==
  ASSUME NEW X,
         \A g \in brLive' : g \in brLive \/ HasOwner(g)' \/ g \in X,
         \A g \in brLive' \ X : HasOwner(g) => HasOwner(g)'
  PROVE  Unowned' \subseteq Unowned \cup X
BY DEF Unowned

\* Without races a step leaves at most one more tab without an owner, and then a failure or a
\* dropped turn is counted.
LEMMA LostStep ==
  ASSUME BrTypeOK, BrOwned, BrNext, ~brRaced'
  PROVE  \/ Unowned' \subseteq Unowned /\ brFaults' + brDrops' >= brFaults + brDrops
         \/ \E g : Unowned' \subseteq Unowned \cup {g} /\ brFaults' + brDrops' = brFaults + brDrops + 1
<1> SUFFICES ASSUME NEW t \in BrTurns,
                    \/ \E n \in BrNames, op \in {"page", "open", "close"} : BrowserTool(t, op, n)
                    \/ page_op(t) \/ open_lookup(t) \/ navigate_target(t) \/ remove_dead_session(t)
                    \/ create_target(t) \/ open_insert(t) \/ snapshot_session(t) \/ close(t) \/ TurnDropped(t)
             PROVE  \/ Unowned' \subseteq Unowned /\ brFaults' + brDrops' >= brFaults + brDrops
                    \/ \E g : Unowned' \subseteq Unowned \cup {g} /\ brFaults' + brDrops' = brFaults + brDrops + 1
  BY DEF BrNext
<1>c. brFaults \in Nat /\ brDrops \in Nat BY DEF BrTypeOK
<1>s. ASSUME Unowned' \subseteq Unowned \cup {}, UNCHANGED <<brFaults, brDrops>>
      PROVE  Unowned' \subseteq Unowned /\ brFaults' + brDrops' >= brFaults + brDrops
  BY <1>c, <1>s
<1>l. ASSUME NEW g, Unowned' \subseteq Unowned \cup {g},
             (brFaults' = brFaults + 1 /\ brDrops' = brDrops) \/ (brFaults' = brFaults /\ brDrops' = brDrops + 1)
      PROVE  Unowned' \subseteq Unowned \cup {g} /\ brFaults' + brDrops' = brFaults + brDrops + 1
  BY <1>c, <1>l
\* The calls of the others own what they owned.
<1>o. ASSUME \A u \in BrTurns \ {t} : brCalls'[u] = brCalls[u]
      PROVE  /\ \A u \in BrTurns \ {t} : (InHand(u)' <=> InHand(u)) /\ brCalls'[u].target = brCalls[u].target
             /\ \A n : Dying(n)' => Dying(n) \/ (brCalls'[t].op = "open" /\ brCalls'[t].step = "dead" /\ brCalls'[t].name = n)
  BY <1>o DEF InHand, Dying
\* A call that leaves the table and the tabs as they are, lets no tab go and takes none for dead.
<1>q. ASSUME UNCHANGED <<brSessions, brLive>>, \A u \in BrTurns \ {t} : brCalls'[u] = brCalls[u], NEW X,
             InHand(t) => brCalls[t].target \in X \/ (InHand(t)' /\ brCalls'[t].target = brCalls[t].target),
             brCalls'[t].op = "open" /\ brCalls'[t].step = "dead" /\ brCalls'[t].name \in DOMAIN brSessions
               => brSessions[brCalls'[t].name] \in X
      PROVE  Unowned' \subseteq Unowned \cup X
  <2>1. ASSUME NEW g \in brLive' \ X, NEW n \in DOMAIN brSessions, brSessions[n] = g, ~Dying(n) PROVE HasOwner(g)'
    <3>1. ~Dying(n)' BY <1>o, <1>q, <2>1
    <3> QED BY <1>q, <2>1, <3>1 DEF HasOwner
  <2>2. ASSUME NEW g \in brLive' \ X, NEW u \in BrTurns, InHand(u), brCalls[u].target = g PROVE HasOwner(g)'
    <3>1. InHand(u)' /\ brCalls'[u].target = g BY <1>o, <1>q, <2>2
    <3> QED BY <3>1 DEF HasOwner
  <2> QED BY <1>q, <2>1, <2>2, OwnersStay DEF HasOwner
<1>2. ASSUME NEW n \in BrNames, NEW op \in {"page", "open", "close"}, BrowserTool(t, op, n)
      PROVE  Unowned' \subseteq Unowned /\ brFaults' + brDrops' >= brFaults + brDrops
  <2> DEFINE q == [op |-> op, name |-> n, step |-> "start", target |-> 0]
  <2>1. q.step = "start" OBVIOUS
  <2> HIDE DEF q
  <2>2. /\ brCalls'[t] = q /\ (\A u \in BrTurns \ {t} : brCalls'[u] = brCalls[u])
        /\ UNCHANGED <<brSessions, brLive, brFaults, brDrops>> /\ brCalls[t].step = "idle"
    BY <1>2 DEF BrowserTool, BrTypeOK, q
  <2>3. ~InHand(t) BY <2>2 DEF InHand
  <2>4. Unowned' \subseteq Unowned \cup {} BY <1>q, <2>1, <2>2, <2>3
  <2> QED BY <1>s, <2>2, <2>4
<1>3. ASSUME UNCHANGED <<brSessions, brLive, brFaults, brDrops>>, ~InHand(t),
             BrReturn(t) \/ \E s \in {"page", "limit", "create", "navigate"} : \E g : BrSet(t, s, g)
      PROVE  Unowned' \subseteq Unowned /\ brFaults' + brDrops' >= brFaults + brDrops
  <2>1. CASE BrReturn(t)
    <3>1. brCalls'[t].step = "idle" /\ \A u \in BrTurns \ {t} : brCalls'[u] = brCalls[u] BY <2>1, BrReturnCall DEF BrIdle
    <3>2. Unowned' \subseteq Unowned \cup {} BY <1>3, <1>q, <3>1
    <3> QED BY <1>3, <1>s, <3>2
  <2>2. ASSUME NEW s \in {"page", "limit", "create", "navigate"}, NEW g, BrSet(t, s, g)
        PROVE  Unowned' \subseteq Unowned /\ brFaults' + brDrops' >= brFaults + brDrops
    <3>1. brCalls'[t].step = s /\ \A u \in BrTurns \ {t} : brCalls'[u] = brCalls[u] BY <2>2, BrSetCall
    <3>2. Unowned' \subseteq Unowned \cup {} BY <1>3, <1>q, <3>1
    <3> QED BY <1>3, <1>s, <3>2
  <2> QED BY <1>3, <2>1, <2>2
<1>4. CASE page_op(t) \/ open_lookup(t) \/ snapshot_session(t)
  <2>1. /\ UNCHANGED <<brSessions, brLive, brFaults, brDrops>> /\ ~InHand(t)
        /\ BrReturn(t) \/ \E s \in {"page", "limit", "create", "navigate"} : \E g : BrSet(t, s, g)
    BY <1>4 DEF page_op, open_lookup, snapshot_session, InHand
  <2> QED BY <1>3, <2>1
<1>5. CASE navigate_target(t)
  <2> DEFINE g == brCalls[t].target
  <2>1. /\ brCalls[t].op = "open" /\ brCalls[t].step = "navigate" /\ UNCHANGED <<brSessions, brLive, brDrops>>
        /\ brCalls[t].name \in DOMAIN brSessions /\ brSessions[brCalls[t].name] = g /\ ~InHand(t)
    BY <1>5 DEF navigate_target, BrOwned, BrKnows, InHand
  <2>2. g \in brLive BY <2>1 DEF BrOwned, BrSessionTabs
  <2>3. CASE BrSet(t, "insert", g) /\ UNCHANGED brFaults
    <3>1. brCalls'[t].step = "insert" /\ \A u \in BrTurns \ {t} : brCalls'[u] = brCalls[u] BY <2>3, BrSetCall
    <3>2. Unowned' \subseteq Unowned \cup {} BY <1>q, <2>1, <3>1
    <3> QED BY <1>s, <2>1, <2>3, <3>2
  <2>4. CASE BrSet(t, "dead", 0) /\ send_command_fails
    <3>1. brCalls'[t].name = brCalls[t].name /\ \A u \in BrTurns \ {t} : brCalls'[u] = brCalls[u] BY <2>4, BrSetCall
    <3>2. Unowned' \subseteq Unowned \cup {g} BY <1>q, <2>1, <3>1
    <3> QED BY <1>l, <2>1, <2>4, <3>2 DEF send_command_fails
  <2> QED BY <1>5, <2>2, <2>3, <2>4 DEF navigate_target
<1>6. CASE remove_dead_session(t)
  <2> DEFINE n == brCalls[t].name
  <2>1. /\ brCalls[t].op = "open" /\ brCalls[t].step = "dead" /\ brSessions' = BrWithout(n)
        /\ UNCHANGED <<brLive, brFaults, brDrops>> /\ BrSet(t, "create", 0) /\ ~InHand(t)
    BY <1>6 DEF remove_dead_session, InHand
  <2>2. brCalls'[t].step = "create" /\ \A u \in BrTurns \ {t} : brCalls'[u] = brCalls[u] BY <2>1, BrSetCall
  <2>3. Dying(n) BY <2>1 DEF Dying
  <2>4. ASSUME NEW g \in brLive', NEW m \in DOMAIN brSessions, brSessions[m] = g, ~Dying(m) PROVE HasOwner(g)'
    <3>1. m \in DOMAIN brSessions' /\ brSessions'[m] = g BY <2>1, <2>3, <2>4 DEF BrWithout
    <3>2. ~Dying(m)' BY <1>o, <2>2, <2>4
    <3> QED BY <3>1, <3>2 DEF HasOwner
  <2>5. ASSUME NEW g \in brLive', NEW u \in BrTurns, InHand(u), brCalls[u].target = g PROVE HasOwner(g)'
    <3>1. InHand(u)' /\ brCalls'[u].target = g BY <1>o, <2>1, <2>2, <2>5
    <3> QED BY <3>1 DEF HasOwner
  <2>6. Unowned' \subseteq Unowned \cup {} BY <2>1, <2>4, <2>5, OwnersStay DEF HasOwner
  <2> QED BY <1>s, <2>1, <2>6
\* A tab is made: it is in a hand, or nobody's.
<1>7. ASSUME NEW g, brSessions' = brSessions, brLive' = brLive \cup {g}, ~InHand(t), NEW X,
             \A u \in BrTurns \ {t} : brCalls'[u] = brCalls[u], brCalls'[t].step # "dead", g \in X \/ HasOwner(g)'
      PROVE  Unowned' \subseteq Unowned \cup X
  <2>1. ASSUME NEW x \in brLive', NEW m \in DOMAIN brSessions, brSessions[m] = x, ~Dying(m) PROVE HasOwner(x)'
    <3>1. ~Dying(m)' BY <1>o, <1>7, <2>1
    <3> QED BY <1>7, <2>1, <3>1 DEF HasOwner
  <2>2. ASSUME NEW x \in brLive', NEW u \in BrTurns, InHand(u), brCalls[u].target = x PROVE HasOwner(x)'
    <3>1. InHand(u)' /\ brCalls'[u].target = x BY <1>o, <1>7, <2>2
    <3> QED BY <3>1 DEF HasOwner
  <2> QED BY <1>7, <2>1, <2>2, OwnersStay DEF HasOwner
<1>8. CASE create_target(t)
  <2>1. brCalls[t].op = "open" /\ brCalls[t].step = "create" /\ UNCHANGED <<brSessions, brDrops>> /\ ~InHand(t)
    BY <1>8 DEF create_target, InHand
  <2>2. CASE BrReturn(t) /\ UNCHANGED <<brLive, brUsed, brFaults>> BY <1>3, <2>1, <2>2
  <2>3. CASE brLive' = brLive \cup {brUsed + 1} /\ BrSet(t, "insert", brUsed + 1) /\ UNCHANGED brFaults
    <3>0. PICK g : g = brUsed + 1 OBVIOUS
    <3>1. /\ brCalls'[t].op = "open" /\ brCalls'[t].step = "insert" /\ brCalls'[t].target = g
          /\ \A u \in BrTurns \ {t} : brCalls'[u] = brCalls[u]
      BY <2>1, <2>3, <3>0, BrSetCall
    <3>2. HasOwner(g)' BY <3>1 DEF HasOwner, InHand
    <3>3. Unowned' \subseteq Unowned \cup {} BY <1>7, <2>1, <2>3, <3>0, <3>1, <3>2
    <3> QED BY <1>s, <2>1, <2>3, <3>3
  <2>4. CASE brLive' = brLive \cup {brUsed + 1} /\ BrReturn(t) /\ send_command_fails
    <3>1. brCalls'[t].step = "idle" /\ \A u \in BrTurns \ {t} : brCalls'[u] = brCalls[u] BY <2>4, BrReturnCall DEF BrIdle
    <3>2. Unowned' \subseteq Unowned \cup {brUsed + 1} BY <1>7, <2>1, <2>4, <3>1
    <3> QED BY <1>l, <2>1, <2>4, <3>2 DEF send_command_fails
  <2> QED BY <1>8, <2>2, <2>3, <2>4 DEF create_target
<1>9. CASE open_insert(t)
  <2>0. PICK n, g : n = brCalls[t].name /\ g = brCalls[t].target OBVIOUS
  <2>1. /\ brCalls[t].op = "open" /\ brCalls[t].step = "insert" /\ UNCHANGED <<brLive, brFaults, brDrops>>
        /\ brSessions' = BrWith(n, g) /\ BrSet(t, "snapshot", g) /\ InHand(t) /\ Changing(t)
    BY <1>9, <2>0 DEF open_insert, InHand, Changing
  <2>2. brCalls'[t].step = "snapshot" /\ \A u \in BrTurns \ {t} : brCalls'[u] = brCalls[u] BY <2>1, BrSetCall
  <2>3. /\ DOMAIN brSessions' = DOMAIN brSessions \cup {n} /\ brSessions'[n] = g
        /\ \A m \in DOMAIN brSessions \ {n} : brSessions'[m] = brSessions[m]
    BY <2>1 DEF BrWith
  <2>4. ~Dying(n)'
    <3>1. \A u \in BrTurns \ {t} : Changing(u) => brCalls[u].name # n BY <2>0, <2>1 DEF BrOwned, BrOneCall
    <3> QED BY <2>2, <3>1 DEF Dying, Changing
  <2>5. HasOwner(g)' BY <2>3, <2>4 DEF HasOwner
  <2>6. ASSUME NEW x \in brLive', NEW m \in DOMAIN brSessions, brSessions[m] = x, ~Dying(m) PROVE HasOwner(x)'
    <3>1. CASE m = n
      <4>1. x = g BY <2>0, <2>1, <2>6, <3>1 DEF BrOwned, BrKnows
      <4> QED BY <2>5, <4>1
    <3>2. CASE m # n
      <4>1. ~Dying(m)' BY <1>o, <2>2, <2>6
      <4> QED BY <2>3, <2>6, <3>2, <4>1 DEF HasOwner
    <3> QED BY <3>1, <3>2
  <2>7. ASSUME NEW x \in brLive', NEW u \in BrTurns, InHand(u), brCalls[u].target = x PROVE HasOwner(x)'
    <3>1. CASE u = t BY <2>0, <2>5, <2>7, <3>1
    <3>2. CASE u # t
      <4>1. InHand(u)' /\ brCalls'[u].target = x BY <1>o, <2>2, <2>7, <3>2
      <4> QED BY <4>1 DEF HasOwner
    <3> QED BY <3>1, <3>2
  <2>8. Unowned' \subseteq Unowned \cup {} BY <2>1, <2>6, <2>7, OwnersStay DEF HasOwner
  <2> QED BY <1>s, <2>1, <2>8
\* A call returns with a tab in its hand, open or closed now: nobody else's owner has gone.
<1>10. ASSUME BrReturn(t), brSessions' = brSessions, brLive' \subseteq brLive
       PROVE  Unowned' \subseteq Unowned \cup {brCalls[t].target}
  <2> DEFINE g == brCalls[t].target
  <2>1. brCalls'[t].step = "idle" /\ \A u \in BrTurns \ {t} : brCalls'[u] = brCalls[u] BY <1>10, BrReturnCall DEF BrIdle
  <2>2. ASSUME NEW x \in brLive' \ {g}, NEW m \in DOMAIN brSessions, brSessions[m] = x, ~Dying(m) PROVE HasOwner(x)'
    <3>1. ~Dying(m)' BY <1>o, <2>1, <2>2
    <3> QED BY <1>10, <2>2, <3>1 DEF HasOwner
  <2>3. ASSUME NEW x \in brLive' \ {g}, NEW u \in BrTurns, InHand(u), brCalls[u].target = x PROVE HasOwner(x)'
    <3>1. InHand(u)' /\ brCalls'[u].target = x BY <1>o, <2>1, <2>3
    <3> QED BY <3>1 DEF HasOwner
  <2> QED BY <1>10, <2>2, <2>3, OwnersStay DEF HasOwner
<1>11. CASE close(t)
  <2> DEFINE n == brCalls[t].name g == brCalls[t].target
  <2>1. brCalls[t].op = "close" /\ UNCHANGED brDrops BY <1>11 DEF close
  <2>2. CASE /\ brCalls[t].step = "start" /\ n \in DOMAIN brSessions /\ BrSet(t, "request", brSessions[n])
             /\ brSessions' = BrWithout(n) /\ UNCHANGED <<brLive, brFaults>>
    <3>0. PICK h : h = brSessions[n] OBVIOUS
    <3>1. /\ brCalls'[t].op = "close" /\ brCalls'[t].step = "request" /\ brCalls'[t].target = h
          /\ \A u \in BrTurns \ {t} : brCalls'[u] = brCalls[u]
      BY <2>1, <2>2, <3>0, BrSetCall
    <3>2. HasOwner(h)' BY <3>1 DEF HasOwner, InHand
    <3>3. ASSUME NEW x \in brLive', NEW m \in DOMAIN brSessions, brSessions[m] = x, ~Dying(m) PROVE HasOwner(x)'
      <4>1. CASE m = n BY <3>0, <3>2, <3>3, <4>1
      <4>2. CASE m # n
        <5>1. ~Dying(m)' BY <1>o, <3>1, <3>3
        <5>2. m \in DOMAIN brSessions' /\ brSessions'[m] = x BY <2>2, <3>3, <4>2 DEF BrWithout
        <5> QED BY <5>1, <5>2 DEF HasOwner
      <4> QED BY <4>1, <4>2
    <3>4. ASSUME NEW x \in brLive', NEW u \in BrTurns, InHand(u), brCalls[u].target = x PROVE HasOwner(x)'
      <4>1. u # t BY <2>1, <2>2, <3>4 DEF InHand
      <4>2. InHand(u)' /\ brCalls'[u].target = x BY <1>o, <3>1, <3>4, <4>1
      <4> QED BY <4>2 DEF HasOwner
    <3>5. Unowned' \subseteq Unowned \cup {} BY <2>2, <3>3, <3>4, OwnersStay DEF HasOwner
    <3> QED BY <1>s, <2>1, <2>2, <3>5
  <2>3. CASE brCalls[t].step = "start" /\ BrReturn(t) /\ UNCHANGED <<brSessions, brLive, brFaults>>
    BY <1>3, <2>1, <2>3 DEF InHand
  <2>4. CASE brLive' = brLive \ {g} /\ BrReturn(t) /\ UNCHANGED <<brSessions, brFaults>>
    <3>1. Unowned' \subseteq Unowned \cup {g} BY <1>10, <2>4
    <3>2. g \notin Unowned' BY <2>4 DEF Unowned
    <3>3. Unowned' \subseteq Unowned \cup {} BY <3>1, <3>2
    <3> QED BY <1>s, <2>1, <2>4, <3>3
  <2>5. CASE send_command_fails /\ BrReturn(t) /\ UNCHANGED <<brSessions, brLive>>
    <3>1. Unowned' \subseteq Unowned \cup {g} BY <1>10, <2>5
    <3> QED BY <1>l, <2>1, <2>5, <3>1 DEF send_command_fails
  <2> QED BY <1>11, <2>1, <2>2, <2>3, <2>4, <2>5 DEF close
<1>12. CASE TurnDropped(t)
  <2>1. BrReturn(t) /\ UNCHANGED <<brSessions, brFaults>> BY <1>12 DEF TurnDropped
  <2>2. CASE brCalls[t].step \notin {"create", "insert", "request"}
    <3>1. UNCHANGED <<brLive, brDrops>> /\ ~InHand(t) BY <1>12, <2>2 DEF TurnDropped, InHand
    <3> QED BY <1>3, <2>1, <3>1
  <2>3. CASE brCalls[t].step \in {"create", "insert", "request"} /\ brLive' \subseteq brLive
    <3>1. brDrops' = brDrops + 1 BY <1>12, <2>3 DEF TurnDropped
    <3>2. Unowned' \subseteq Unowned \cup {brCalls[t].target} BY <1>10, <2>1, <2>3
    <3> QED BY <1>l, <2>1, <3>1, <3>2
  <2>4. CASE brCalls[t].step = "create" /\ brLive' = brLive \cup {brUsed + 1}
    <3>1. brDrops' = brDrops + 1 /\ ~InHand(t) BY <1>12, <2>4 DEF TurnDropped, InHand
    <3>2. brCalls'[t].step = "idle" /\ \A u \in BrTurns \ {t} : brCalls'[u] = brCalls[u] BY <2>1, BrReturnCall DEF BrIdle
    <3>3. Unowned' \subseteq Unowned \cup {brUsed + 1} BY <1>7, <2>1, <2>4, <3>1, <3>2
    <3> QED BY <1>l, <2>1, <3>1, <3>3
  <2>5. brLive' \subseteq brLive \/ (brCalls[t].step = "create" /\ brLive' = brLive \cup {brUsed + 1})
    BY <1>12 DEF TurnDropped
  <2> QED BY <2>2, <2>3, <2>4, <2>5
<1> QED BY <1>2, <1>4, <1>5, <1>6, <1>8, <1>9, <1>11, <1>12

\* A browser tab that nobody knows takes a request that failed or a turn that was dropped, each at most
\* one, and no session names a tab that is gone, as long as no open overlaps a change of its session
\* (frankclaw-tools BrowserClient releases the table's lock before every request): for any
\* number of turns, sessions and tabs.
THEOREM TabsOwned == BrSpec => []TabsAreOwned
<1>1. BrInit => BrInv
  <2> SUFFICES ASSUME BrInit PROVE BrInv
    OBVIOUS
  <2>1. BrIdle \in BrCall /\ BrCallOK(BrIdle) BY DEF BrInit, BrIdle, BrCall, BrCallOK
  <2>2. BrTypeOK BY <2>1 DEF BrInit, BrTypeOK
  <2>3. \A t \in BrTurns : ~Changing(t) /\ ~InHand(t) /\ brCalls[t].op # "open"
    BY DEF BrInit, Changing, InHand, BrIdle
  <2>4. BrOwned BY <2>3 DEF BrInit, BrOwned, BrOneCall, BrSessionTabs, BrKnows, BrHands
  <2>5. Unowned = {} BY DEF BrInit, Unowned
  <2>6. Cardinality(Unowned) = 0 BY <2>5, FS_EmptySet
  <2> QED BY <2>2, <2>4, <2>6 DEF BrInv, BrInit
<1>f. BrTypeOK => IsFiniteSet(brLive)
  <2> SUFFICES ASSUME BrTypeOK PROVE IsFiniteSet(brLive) OBVIOUS
  <2>1. brUsed \in Nat /\ brLive \subseteq 1..brUsed BY DEF BrTypeOK
  <2>2. IsFiniteSet(1..brUsed) BY <2>1, FS_Interval
  <2> QED BY <2>1, <2>2, FS_Subset
<1>u. ASSUME NEW A, NEW B, IsFiniteSet(B), A \subseteq B PROVE IsFiniteSet(A) /\ Cardinality(A) <= Cardinality(B)
                                                               /\ Cardinality(A) \in Nat /\ Cardinality(B) \in Nat
  BY <1>u, FS_Subset, FS_CardinalityType
<1>2. BrInv /\ [BrNext]_brVars => BrInv'
  <2> SUFFICES ASSUME BrInv, [BrNext]_brVars PROVE BrInv'
    OBVIOUS
  <2>1. BrTypeOK /\ BrTypeOK' BY BrTypes DEF BrInv
  <2>2. CASE UNCHANGED brVars
    <3>1. UNCHANGED Unowned BY <2>2 DEF brVars, Unowned, HasOwner, Dying, InHand
    <3> QED BY <2>1, <2>2, <3>1 DEF brVars, BrInv, BrOwned, BrOneCall, BrSessionTabs, BrKnows, BrHands, Changing, InHand
  <2>3. ASSUME BrNext, ~brRaced' PROVE BrOwned' /\ Cardinality(Unowned') <= brFaults' + brDrops'
    <3>1. ~brRaced
      BY <2>3 DEF BrNext, BrowserTool, page_op, open_lookup, navigate_target, remove_dead_session,
           create_target, open_insert, snapshot_session, close, TurnDropped
    <3>2. BrOwned /\ Cardinality(Unowned) <= brFaults + brDrops BY <3>1 DEF BrInv
    <3>3. IsFiniteSet(Unowned) BY <1>f, <1>u, <2>1 DEF Unowned
    <3>4. brFaults \in Nat /\ brDrops \in Nat BY <2>1 DEF BrTypeOK
    <3>n. ASSUME NEW u \in Nat, NEW v \in Nat PROVE u + v \in Nat OBVIOUS
    <3>m. brFaults' \in Nat /\ brDrops' \in Nat BY <2>1 DEF BrTypeOK
    <3>5. BrOwned' BY <2>1, <2>3, <3>2, BrStep
    <3>6. PICK x \in Nat, y \in Nat, k \in Nat :
            /\ x = brFaults + brDrops /\ y = brFaults' + brDrops'
            /\ k = Cardinality(Unowned)
      <4>1. Cardinality(Unowned) \in Nat BY <3>3, FS_CardinalityType
      <4>2. brFaults + brDrops \in Nat /\ brFaults' + brDrops' \in Nat BY ONLY <3>4, <3>n, <3>m, Zenon
      <4> QED BY <4>1, <4>2
    <3>r. PICK m : m = Cardinality(Unowned') OBVIOUS
    <3>7. k <= x BY <3>2, <3>6
    <3>8. ASSUME Unowned' \subseteq Unowned, y >= x PROVE m <= y
      <4>1. m \in Nat /\ m <= k BY <1>u, <3>3, <3>6, <3>8, <3>r
      <4> QED BY ONLY <3>7, <3>8, <4>1
    <3>9. ASSUME NEW g, Unowned' \subseteq Unowned \cup {g}, y = x + 1 PROVE m <= y
      <4>1. IsFiniteSet(Unowned \cup {g}) /\ Cardinality(Unowned \cup {g}) \in {k, k + 1}
        BY <3>3, <3>6, FS_AddElement
      <4>2. m \in Nat /\ m <= Cardinality(Unowned \cup {g}) BY <1>u, <3>6, <3>9, <3>r, <4>1
      <4> QED BY <3>7, <3>9, <4>1, <4>2
    <3>10. \/ Unowned' \subseteq Unowned /\ y >= x
           \/ \E g : Unowned' \subseteq Unowned \cup {g} /\ y = x + 1
      BY <2>1, <2>3, <3>2, <3>6, LostStep
    <3>11. m <= y BY ONLY <3>8, <3>9, <3>10
    <3> QED BY <3>5, <3>6, <3>11, <3>r
  <2> QED BY <2>1, <2>2, <2>3 DEF BrInv
<1>3. BrInv => TabsAreOwned
  <2> SUFFICES ASSUME BrInv, ~brRaced
               PROVE  /\ Cardinality(brLive \ Held) <= brFaults + brDrops
                      /\ \A n \in DOMAIN brSessions : brSessions[n] \in brLive
    BY DEF TabsAreOwned
  <2>1. brLive \ Held \subseteq Unowned BY DEF Unowned, Held, HasOwner
  <2>2. IsFiniteSet(Unowned) BY <1>f, <1>u DEF Unowned, BrInv
  <2>3. Cardinality(brLive \ Held) <= Cardinality(Unowned) /\ Cardinality(brLive \ Held) \in Nat /\ Cardinality(Unowned) \in Nat
    BY <1>u, <2>1, <2>2
  <2>4. brFaults \in Nat /\ brDrops \in Nat /\ Cardinality(Unowned) <= brFaults + brDrops BY DEF BrInv, BrTypeOK
  <2> QED BY <2>3, <2>4 DEF BrInv, BrOwned, BrSessionTabs
<1> QED BY <1>1, <1>2, <1>3, PTL DEF BrSpec

----------------------------------------------------------------------------
(* MCP client                                                               *)

\* A call of a tool of the server.
McCallType ==
  [op : {"none", "list_tools", "call_tool"}, step : {"idle", "ensure", "write", "wait", "notify"},
   id : Nat, alone : BOOLEAN]

\* The types the pipes and the calls keep.
McTypeOK ==
  /\ mcKind \in {"stdio", "http"} /\ mcNext \in Nat \ {0} /\ mcGone \in Nat /\ mcStray \in Nat
  /\ mcIn \in Seq(Nat) /\ mcOut \in Seq(Nat) /\ mcWritten \in Seq(Nat)
  /\ mcCalls \in [McpTurns -> McCallType]

\* Ids count the lines written.
McIdsCount == Len(mcWritten) = mcNext - 1 /\ \A i \in 1..(mcNext - 1) : mcWritten[i] = i

\* The answers read so far: every other request waits, was given up, or lost its place to a line
\* that answers nothing; and the requests the server has answered.
Heard == mcNext - 1 - Cardinality(Waiting) - mcGone - mcStray
Said == mcNext - 1 - Len(mcIn)

\* The answers among the lines of s are those to h+1..m, in order.
Answering(s, h, m) ==
  /\ h \in Nat /\ m \in Nat /\ h <= m
  /\ \A i \in 1..Len(s) : s[i] # 0 => h < s[i] /\ s[i] <= m
  /\ \A i, j \in 1..Len(s) : i < j /\ s[i] # 0 /\ s[j] # 0 => s[i] < s[j]
  /\ \A k \in (h + 1)..m : \E i \in 1..Len(s) : s[i] = k

\* The two pipes hold what was written last: the requests not yet answered and the answers not yet read.
McOrder ==
  /\ IsFiniteSet(Waiting) /\ Answering(mcOut, Heard, Said)
  /\ \A i \in 1..Len(mcIn) : mcIn[i] = Said + i

\* Who reads, waits; who is alone, wrote last.
McAlone ==
  /\ mcReader \subseteq Waiting
  /\ \A t \in McpTurns : mcCalls[t].step = "wait" /\ mcCalls[t].alone => Waiting = {t} /\ mcCalls[t].id = mcNext - 1

\* What has been answered.
McAnswered ==
  \A d \in mcDone : d.alone /\ ~d.http /\ ~d.torn /\ d.answered # 0 =>
    /\ d.asked \in 1..(mcNext - 1) /\ d.gone \in Nat /\ d.stray \in Nat
    /\ d.answered \in 1..(mcNext - 1) /\ d.answered = d.asked - d.gone - d.stray

\* The inductive invariant; over HTTP there are no pipes, and a torn line upsets them for good.
McInv ==
  /\ McTypeOK /\ McIdsCount /\ McAnswered
  /\ mcKind = "http" => mcReader = {}
  /\ mcKind = "stdio" => McAlone
  /\ mcKind = "stdio" /\ mcTorn = "no" => McOrder

\* Sequences at their two ends.
LEMMA Ends ==
  ASSUME NEW s \in Seq(Nat), NEW x \in Nat
  PROVE  /\ Append(s, x) \in Seq(Nat) /\ Len(Append(s, x)) = Len(s) + 1
         /\ \A i \in 1..Len(s) : Append(s, x)[i] = s[i]
         /\ Append(s, x)[Len(s) + 1] = x
         /\ Len(s) \in Nat
  OBVIOUS

\* What is left of a sequence.
LEMMA Rests ==
  ASSUME NEW s \in Seq(Nat), s # <<>>
  PROVE  /\ Tail(s) \in Seq(Nat) /\ Len(Tail(s)) = Len(s) - 1 /\ Len(s) \in Nat \ {0}
         /\ Head(s) \in Nat /\ Head(s) = s[1]
         /\ \A i \in 1..(Len(s) - 1) : Tail(s)[i] = s[i + 1]
  OBVIOUS

\* One line, or none, behind what is in a pipe.
LEMMA Lines ==
  ASSUME NEW s \in Seq(Nat), NEW x \in Nat
  PROVE  s \o <<x>> = Append(s, x) /\ s \o <<>> = s
<1>1. s \o <<>> = s OBVIOUS
<1> DEFINE n == Len(s)
           u == s \o <<x>>
           v == Append(s, x)
<1>2. u \in Seq(Nat) /\ Len(u) = n + 1 /\ (\A i \in 1..n : u[i] = s[i]) /\ u[n + 1] = x OBVIOUS
<1>3. v \in Seq(Nat) /\ Len(v) = n + 1 /\ (\A i \in 1..n : v[i] = s[i]) /\ v[n + 1] = x BY Ends
<1>4. n \in Nat OBVIOUS
<1> HIDE DEF n, u, v
<1>5. \A i \in 1..(n + 1) : u[i] = v[i]
  <2>1. \A i \in 1..(n + 1) : i \in 1..n \/ i = n + 1 BY <1>4
  <2> QED BY <1>2, <1>3, <2>1
<1>6. u = v BY <1>2, <1>3, <1>5
<1> QED BY <1>1, <1>6 DEF u, v

\* The server answers the next request.
LEMMA OneMoreSaid ==
  ASSUME NEW s \in Seq(Nat), NEW h, NEW m, Answering(s, h, m)
  PROVE  Answering(Append(s, m + 1), h, m + 1)
<1> DEFINE u == Append(s, m + 1)
           n == Len(s)
<1>1. h \in Nat /\ m \in Nat /\ h <= m BY DEF Answering
<1>2. n \in Nat /\ Len(u) = n + 1 /\ (\A i \in 1..n : u[i] = s[i]) /\ u[n + 1] = m + 1 BY <1>1, Ends
<1>3. /\ \A i \in 1..n : s[i] # 0 => h < s[i] /\ s[i] <= m
      /\ \A i, j \in 1..n : i < j /\ s[i] # 0 /\ s[j] # 0 => s[i] < s[j]
      /\ \A k \in (h + 1)..m : \E i \in 1..n : s[i] = k
  BY DEF Answering
<1>4. \A i \in 1..n : s[i] \in Nat OBVIOUS
<1> HIDE DEF u, n
<1>5. \A i \in 1..(n + 1) : i \in 1..n \/ i = n + 1 BY <1>2
<1>6. ASSUME NEW i \in 1..(n + 1), u[i] # 0 PROVE h < u[i] /\ u[i] <= m + 1
  <2>1. CASE i = n + 1 BY <1>1, <1>2, <2>1
  <2>2. CASE i \in 1..n
    <3>1. s[i] \in Nat /\ h < s[i] /\ s[i] <= m /\ u[i] = s[i] BY <1>2, <1>3, <1>4, <1>6, <2>2
    <3> QED BY <1>1, <3>1
  <2> QED BY <1>5, <2>1, <2>2
<1>7. ASSUME NEW i \in 1..(n + 1), NEW j \in 1..(n + 1), i < j, u[i] # 0, u[j] # 0 PROVE u[i] < u[j]
  <2>1. i \in 1..n BY <1>2, <1>7
  <2>2. s[i] \in Nat /\ s[i] <= m /\ u[i] = s[i] BY <1>2, <1>3, <1>4, <1>7, <2>1
  <2>3. CASE j = n + 1 BY <1>1, <1>2, <2>2, <2>3
  <2>4. CASE j \in 1..n BY <1>2, <1>3, <1>7, <2>1, <2>4
  <2> QED BY <1>5, <2>3, <2>4
<1>8. ASSUME NEW k \in (h + 1)..(m + 1) PROVE \E i \in 1..(n + 1) : u[i] = k
  <2>1. CASE k = m + 1 BY <1>2, <2>1
  <2>2. CASE k \in (h + 1)..m
    <3>1. PICK i \in 1..n : s[i] = k BY <1>3, <2>2
    <3>2. i \in 1..(n + 1) /\ u[i] = k BY <1>2, <3>1
    <3> QED BY <3>2
  <2> QED BY <1>1, <2>1, <2>2
<1>9. m + 1 \in Nat /\ h <= m + 1 BY <1>1
<1>10. Answering(u, h, m + 1) BY <1>1, <1>2, <1>6, <1>7, <1>8, <1>9 DEF Answering
<1> QED BY <1>10 DEF u

\* It writes a line that answers nothing.
LEMMA OneMoreNote ==
  ASSUME NEW s \in Seq(Nat), NEW h, NEW m, Answering(s, h, m)
  PROVE  Answering(Append(s, 0), h, m)
<1> DEFINE u == Append(s, 0)
           n == Len(s)
<1>2. n \in Nat /\ Len(u) = n + 1 /\ (\A i \in 1..n : u[i] = s[i]) /\ u[n + 1] = 0 BY Ends
<1>3. /\ h \in Nat /\ m \in Nat /\ h <= m
      /\ \A i \in 1..n : s[i] # 0 => h < s[i] /\ s[i] <= m
      /\ \A i, j \in 1..n : i < j /\ s[i] # 0 /\ s[j] # 0 => s[i] < s[j]
      /\ \A k \in (h + 1)..m : \E i \in 1..n : s[i] = k
  BY DEF Answering
<1> HIDE DEF u, n
<1>5. \A i \in 1..(n + 1) : u[i] # 0 => i \in 1..n BY <1>2
<1>8. ASSUME NEW k \in (h + 1)..m PROVE \E i \in 1..(n + 1) : u[i] = k
  <2>1. PICK i \in 1..n : s[i] = k BY <1>3
  <2>2. i \in 1..(n + 1) /\ u[i] = k BY <1>2, <2>1
  <2> QED BY <2>2
<1> QED BY <1>2, <1>3, <1>5, <1>8 DEF Answering, u

\* The first line is taken: it answers nothing, or it is the first answer not yet read.
LEMMA OneLess ==
  ASSUME NEW s \in Seq(Nat), s # <<>>, NEW h, NEW m, Answering(s, h, m)
  PROVE  /\ Head(s) = 0 => Answering(Tail(s), h, m)
         /\ Head(s) # 0 => Head(s) = h + 1 /\ Head(s) <= m /\ Answering(Tail(s), h + 1, m)
<1> DEFINE u == Tail(s)
           n == Len(s)
<1>1. /\ u \in Seq(Nat) /\ n \in Nat \ {0} /\ Len(u) = n - 1 /\ Head(s) = s[1]
      /\ \A i \in 1..(n - 1) : u[i] = s[i + 1]
  BY Rests
<1>2. /\ h \in Nat /\ m \in Nat /\ h <= m
      /\ \A i \in 1..n : s[i] # 0 => h < s[i] /\ s[i] <= m
      /\ \A i, j \in 1..n : i < j /\ s[i] # 0 /\ s[j] # 0 => s[i] < s[j]
      /\ \A k \in (h + 1)..m : \E i \in 1..n : s[i] = k
  BY DEF Answering
<1>3. \A i \in 1..n : s[i] \in Nat OBVIOUS
<1> HIDE DEF u, n
<1>4. \A i \in 1..(n - 1) : i + 1 \in 1..n /\ 1 < i + 1 BY <1>1
<1>5. \A i, j \in 1..(n - 1) : i < j /\ u[i] # 0 /\ u[j] # 0 => u[i] < u[j]
  <2> SUFFICES ASSUME NEW i \in 1..(n - 1), NEW j \in 1..(n - 1), i < j, u[i] # 0, u[j] # 0 PROVE u[i] < u[j]
    OBVIOUS
  <2>1. i + 1 \in 1..n /\ j + 1 \in 1..n /\ i + 1 < j + 1 BY <1>1
  <2>2. u[i] = s[i + 1] /\ u[j] = s[j + 1] BY <1>1
  <2> QED BY <1>2, <2>1, <2>2
<1>6. 1 \in 1..n BY <1>1
<1>7. ASSUME NEW k \in (h + 1)..m, s[1] # k PROVE \E i \in 1..(n - 1) : u[i] = k
  <2>1. PICK i \in 1..n : s[i] = k BY <1>2
  <2>2. i - 1 \in 1..(n - 1) /\ (i - 1) + 1 = i BY <1>1, <1>7, <2>1
  <2>3. u[i - 1] = k BY <1>1, <2>1, <2>2
  <2> QED BY <2>2, <2>3
<1>8. CASE s[1] = 0
  <2>1. \A i \in 1..(n - 1) : u[i] # 0 => h < u[i] /\ u[i] <= m BY <1>1, <1>2, <1>4
  <2>2. \A k \in (h + 1)..m : \E i \in 1..(n - 1) : u[i] = k BY <1>2, <1>7, <1>8
  <2> QED BY <1>1, <1>2, <1>5, <1>8, <2>1, <2>2 DEF Answering, u
<1>9. CASE s[1] # 0
  <2>1. s[1] \in Nat /\ h < s[1] /\ s[1] <= m BY <1>2, <1>3, <1>6, <1>9
  <2>2. s[1] = h + 1
    <3>1. h + 1 \in (h + 1)..m BY <1>2, <2>1
    <3>2. PICK i \in 1..n : s[i] = h + 1 BY <1>2, <3>1
    <3>3. i = 1 \/ s[1] < s[i] BY <1>1, <1>2, <1>6, <1>9, <3>2
    <3> QED BY <1>2, <2>1, <3>2, <3>3
  <2>3. ASSUME NEW i \in 1..(n - 1), u[i] # 0 PROVE h + 1 < u[i] /\ u[i] <= m
    <3>1. i + 1 \in 1..n /\ 1 < i + 1 /\ u[i] = s[i + 1] /\ s[i + 1] # 0 BY <1>1, <1>4, <2>3
    <3>2. s[1] < s[i + 1] /\ s[i + 1] <= m BY <1>2, <1>6, <1>9, <3>1
    <3> QED BY <2>2, <3>1, <3>2
  <2>4. ASSUME NEW k \in ((h + 1) + 1)..m PROVE \E i \in 1..(n - 1) : u[i] = k
    <3>1. k \in (h + 1)..m /\ s[1] # k BY <1>2, <2>2
    <3> QED BY <1>7, <3>1
  <2>5. h + 1 \in Nat /\ h + 1 <= m BY <1>2, <2>1, <2>2
  <2> QED BY <1>1, <1>2, <1>5, <2>1, <2>2, <2>3, <2>4, <2>5, <1>9 DEF Answering, u
<1> QED BY <1>8, <1>9

\* A place is an id.
LEMMA Places ==
  ASSUME McTypeOK, McIdsCount, NEW i \in 1..(mcNext - 1)
  PROVE  Place(i) = i
<1>1. DOMAIN mcWritten = 1..(mcNext - 1) BY DEF McTypeOK, McIdsCount
<1>2. i \in DOMAIN mcWritten /\ mcWritten[i] = i BY <1>1 DEF McIdsCount
<1>3. \A j \in DOMAIN mcWritten : mcWritten[j] = i => j = i BY <1>1 DEF McIdsCount
<1> QED BY <1>2, <1>3 DEF Place

\* Every step of a turn keeps the calls typed.
LEMMA McTypes == McTypeOK /\ [McNext]_mcVars => McTypeOK'
<1> SUFFICES ASSUME McTypeOK, [McNext]_mcVars PROVE McTypeOK'
  OBVIOUS
<1>0. mcIn \in Seq(Nat) /\ mcOut \in Seq(Nat) BY DEF McTypeOK
<1>1. CASE UNCHANGED mcVars BY <1>1 DEF mcVars, mcPipes, McTypeOK
<1>2. McIdle \in McCallType BY DEF McIdle, McCallType
<1>3. ASSUME NEW t \in McpTurns, McFail(t) PROVE mcCalls' \in [McpTurns -> McCallType]
  BY <1>2, <1>3 DEF McFail, McTypeOK
<1>4. ASSUME NEW t \in McpTurns, NEW s \in {"write", "wait", "ensure", "notify"}, McStep(t, s)
      PROVE  mcCalls' \in [McpTurns -> McCallType]
  <2>1. [mcCalls[t] EXCEPT !.step = s] \in McCallType BY DEF McTypeOK, McCallType
  <2>2. mcCalls' = [mcCalls EXCEPT ![t] = [mcCalls[t] EXCEPT !.step = s]] BY <1>4 DEF McStep
  <2> HIDE DEF McCallType
  <2> QED BY <2>1, <2>2 DEF McTypeOK
<1>5. ASSUME NEW t \in McpTurns, NEW x, Accept(t, x) PROVE mcCalls' \in [McpTurns -> McCallType]
  BY <1>2, <1>4, <1>5 DEF Accept, McTypeOK
<1>6. CASE McpServer
  <2>1. mcIn' \in Seq(Nat) /\ mcOut' \in Seq(Nat)
    <3>1. CASE UNCHANGED <<mcIn, mcOut>> BY <1>0, <3>1
    <3>2. CASE mcIn # <<>> /\ mcOut' = Append(mcOut, Head(mcIn)) /\ mcIn' = Tail(mcIn)
      <4>1. Head(mcIn) \in Nat /\ Tail(mcIn) \in Seq(Nat) BY <1>0, <3>2, Rests
      <4> QED BY <1>0, <3>2, <4>1, Ends
    <3>3. CASE mcOut' = Append(mcOut, 0) /\ UNCHANGED mcIn BY <1>0, <3>3, Ends
    <3> QED BY <1>6, <3>1, <3>2, <3>3 DEF McpServer
  <2> QED BY <1>6, <2>1 DEF McpServer, McTypeOK
<1>7. ASSUME NEW t \in McpTurns, McCall(t) PROVE McTypeOK'
  <2>1. \A op \in {"list_tools", "call_tool"} : [McIdle EXCEPT !.op = op, !.step = "ensure"] \in McCallType
    BY DEF McIdle, McCallType
  <2>2. mcCalls' \in [McpTurns -> McCallType]
    <3>1. CASE UNCHANGED mcCalls BY <3>1 DEF McTypeOK
    <3>2. ASSUME NEW op \in {"list_tools", "call_tool"},
                 mcCalls' = [mcCalls EXCEPT ![t] = [McIdle EXCEPT !.op = op, !.step = "ensure"]]
          PROVE  mcCalls' \in [McpTurns -> McCallType]
      BY <2>1, <3>2 DEF McTypeOK
    <3> QED BY <1>7, <3>1, <3>2 DEF McCall
  <2> QED BY <1>7, <2>2 DEF McCall, mcPipes, McTypeOK
<1>8. ASSUME NEW t \in McpTurns, ensure_initialized(t) PROVE McTypeOK'
  BY <1>4, <1>8 DEF ensure_initialized, mcPipes, McTypeOK
<1>9. ASSUME NEW t \in McpTurns, send_write(t) PROVE McTypeOK'
  <2>1. \A u \in McpTurns : mcCalls[u] \in McCallType BY DEF McTypeOK
  <2>2. [mcCalls[t] EXCEPT !.step = "wait", !.id = mcNext, !.alone = Waiting = {}] \in McCallType
    <3>1. (Waiting = {}) \in BOOLEAN OBVIOUS
    <3> HIDE DEF Waiting
    <3> QED BY <2>1, <3>1 DEF McCallType, McTypeOK
  <2>3. \A u \in McpTurns : [mcCalls[u] EXCEPT !.alone = FALSE] \in McCallType BY <2>1 DEF McCallType
  <2>4. mcCalls' \in [McpTurns -> McCallType] BY <1>9, <2>1, <2>2, <2>3 DEF send_write
  <2>5. mcWritten' \in Seq(Nat) BY <1>9, Ends DEF send_write, McTypeOK
  <2>6. mcNext' = mcNext + 1 /\ UNCHANGED <<mcKind, mcOut, mcGone, mcStray>> BY <1>9 DEF send_write
  <2>7. mcIn' = mcIn \/ mcIn' = mcIn \o <<mcNext>> BY <1>9 DEF send_write, WriteLine
  <2>8. mcIn' \in Seq(Nat)
    <3>1. mcNext \in Nat BY DEF McTypeOK
    <3>2. mcIn' = mcIn \/ mcIn' = Append(mcIn, mcNext)
      <4>1. mcIn \o <<mcNext>> = Append(mcIn, mcNext) BY <1>0, <3>1, Lines
      <4> QED BY <2>7, <4>1
    <3>3. Append(mcIn, mcNext) \in Seq(Nat) BY <1>0, <3>1, Ends
    <3> QED BY <1>0, <3>2, <3>3
  <2> QED BY <2>4, <2>5, <2>6, <2>8 DEF McTypeOK
<1>10. ASSUME NEW t \in McpTurns, send_write_fails(t) \/ stdout_lock(t) PROVE McTypeOK'
  BY <1>3, <1>10 DEF send_write_fails, stdout_lock, mcPipes, McTypeOK
<1>11. ASSUME NEW t \in McpTurns, read_line(t) PROVE McTypeOK'
  <2>1. mcCalls' \in [McpTurns -> McCallType] BY <1>3, <1>5, <1>11 DEF read_line
  <2>2. mcOut' \in Seq(Nat) BY <1>11, Rests DEF read_line, McTypeOK
  <2> QED BY <1>11, <2>1, <2>2 DEF read_line, McTypeOK
<1>12. ASSUME NEW t \in McpTurns, read_timeout(t) \/ read_eof(t) \/ CallerGone(t) PROVE McTypeOK'
  <2>1. McFail(t) /\ UNCHANGED <<mcKind, mcIn, mcOut, mcWritten, mcNext, mcStray>> /\ (mcGone' = mcGone + 1 \/ mcGone' = mcGone)
    BY <1>12 DEF read_timeout, read_eof, CallerGone, mcPipes
  <2> QED BY <1>3, <2>1 DEF McTypeOK
<1>13. ASSUME NEW t \in McpTurns, send_http(t) PROVE McTypeOK'
  <2>1. mcCalls' \in [McpTurns -> McCallType] BY <1>3, <1>5, <1>13 DEF send_http
  <2> QED BY <1>13, <2>1 DEF send_http, mcPipes, McTypeOK
<1>14. ASSUME NEW t \in McpTurns, initialized_notification(t) PROVE McTypeOK'
  <2>1. mcIn' = mcIn \/ mcIn' = mcIn \o <<>> BY <1>14 DEF initialized_notification, WriteLine
  <2>2. mcIn' = mcIn BY <1>0, <2>1, Lines
  <2> QED BY <1>4, <1>14, <2>2 DEF initialized_notification, McTypeOK
<1> QED BY <1>1, <1>6, <1>7, <1>8, <1>9, <1>10, <1>11, <1>12, <1>13, <1>14 DEF McNext

\* Who waits after a call fails or is answered.
LEMMA WaitingLeft ==
  ASSUME McTypeOK, NEW t \in McpTurns, DOMAIN mcCalls' = McpTurns,
         mcCalls'[t].step # "wait", \A u \in McpTurns \ {t} : mcCalls'[u] = mcCalls[u]
  PROVE  Waiting' = Waiting \ {t}
  BY DEF Waiting

\* A turn steps.
LEMMA OneSteps ==
  ASSUME McTypeOK, NEW t \in McpTurns, NEW s, s # "wait", McStep(t, s)
  PROVE  DOMAIN mcCalls' = McpTurns /\ mcCalls'[t].step # "wait" /\ \A u \in McpTurns \ {t} : mcCalls'[u] = mcCalls[u]
<1>1. DOMAIN mcCalls = McpTurns /\ mcCalls[t] \in McCallType BY DEF McTypeOK
<1>2. mcCalls' = [mcCalls EXCEPT ![t] = [mcCalls[t] EXCEPT !.step = s]] BY DEF McStep
<1>3. [mcCalls[t] EXCEPT !.step = s].step = s BY <1>1 DEF McCallType
<1> QED BY <1>1, <1>2, <1>3

\* A call ends: nobody new waits, and who is left is as before.
LEMMA CallEnds ==
  ASSUME McTypeOK, NEW t \in McpTurns, NEW x, McFail(t) \/ Accept(t, x)
  PROVE  /\ DOMAIN mcCalls' = McpTurns /\ mcCalls'[t].step # "wait"
         /\ \A u \in McpTurns \ {t} : mcCalls'[u] = mcCalls[u]
         /\ mcReader' = mcReader \ {t}
<1>1. DOMAIN mcCalls = McpTurns BY DEF McTypeOK
<1>2. CASE mcCalls' = [mcCalls EXCEPT ![t] = McIdle] BY <1>1, <1>2 DEF McIdle, McFail, Accept
<1>3. CASE McStep(t, "notify")
  <2>1. mcReader' = mcReader \ {t} BY DEF McFail, Accept
  <2> QED BY <1>3, <2>1, OneSteps
<1> QED BY <1>2, <1>3 DEF McFail, Accept

\* What a call without a change of the pipes keeps: it neither starts nor ends to wait.
LEMMA McCalm ==
  ASSUME McInv, McTypeOK', UNCHANGED <<mcKind, mcIn, mcOut, mcWritten, mcNext, mcGone, mcStray, mcDone>>,
         Waiting' = Waiting, \A u \in Waiting : mcCalls'[u] = mcCalls[u],
         mcTorn' = "no" => mcTorn = "no",
         mcKind = "stdio" => mcReader' \subseteq Waiting,
         mcKind = "http" => mcReader' = {}
  PROVE  McInv'
<1>1. McIdsCount' /\ McAnswered' BY DEF McInv, McIdsCount, McAnswered
<1>2. Heard' = Heard /\ Said' = Said BY DEF Heard, Said
<1>3. McOrder => McOrder'
  <2> SUFFICES ASSUME McOrder PROVE McOrder'
    OBVIOUS
  <2>1. Answering(mcOut', Heard', Said') BY <1>2 DEF McOrder
  <2> QED BY <1>2, <2>1 DEF McOrder, Answering
<1>4. mcKind = "stdio" /\ McAlone => McAlone'
  <2>1. \A u \in McpTurns : mcCalls'[u].step = "wait" => u \in Waiting /\ mcCalls[u].step = "wait" /\ mcCalls'[u] = mcCalls[u]
    BY DEF Waiting
  <2> QED BY <2>1 DEF McAlone
<1> QED BY <1>1, <1>3, <1>4 DEF McInv

\* The server writes, or dies.
LEMMA McServes == McInv /\ McTypeOK' /\ McpServer => McInv'
<1> SUFFICES ASSUME McInv, McTypeOK', McpServer PROVE McInv'
  OBVIOUS
<1>0. mcIn \in Seq(Nat) /\ mcOut \in Seq(Nat) /\ Len(mcIn) \in Nat /\ mcNext \in Nat BY DEF McInv, McTypeOK
<1>1. UNCHANGED <<mcKind, mcTorn, mcWritten, mcNext, mcCalls, mcReader, mcGone, mcStray, mcDone>> BY DEF McpServer
<1>2. Waiting' = Waiting BY <1>1 DEF Waiting
<1>3. CASE UNCHANGED <<mcIn, mcOut>>
  <2>1. mcKind = "stdio" => mcReader' \subseteq Waiting BY <1>1 DEF McInv, McAlone
  <2> QED BY <1>1, <1>2, <1>3, <2>1, McCalm DEF McInv
<1>4. ASSUME mcKind = "stdio", mcTorn = "no" => McOrder' PROVE McInv'
  <2>1. McAlone' BY <1>1, <1>2, <1>4 DEF McInv, McAlone
  <2>2. McIdsCount' /\ McAnswered' BY <1>1 DEF McInv, McIdsCount, McAnswered
  <2> QED BY <1>1, <1>4, <2>1, <2>2 DEF McInv
<1>5. Heard' = Heard BY <1>1, <1>2 DEF Heard
<1>6. ASSUME mcKind = "stdio", mcIn # <<>>, mcOut' = Append(mcOut, Head(mcIn)), mcIn' = Tail(mcIn), mcTorn = "no" PROVE McOrder'
  <2> DEFINE n == Len(mcIn)
  <2>1. /\ n \in Nat \ {0} /\ Len(mcIn') = n - 1 /\ Head(mcIn) = mcIn[1]
        /\ \A i \in 1..(n - 1) : mcIn'[i] = mcIn[i + 1]
    BY <1>0, <1>6, Rests
  <2>2. /\ IsFiniteSet(Waiting) /\ Answering(mcOut, Heard, Said) /\ Said \in Nat
        /\ \A i \in 1..n : mcIn[i] = Said + i
    BY <1>6 DEF McInv, McOrder, Answering
  <2>3. Said' = Said + 1 BY <1>0, <1>1, <2>1 DEF Said
  <2> HIDE DEF n
  <2>4. 1 \in 1..n BY <2>1
  <2>5. Head(mcIn) = Said + 1 BY <2>1, <2>2, <2>4
  <2>6. Answering(mcOut', Heard, Said + 1) BY <1>0, <1>6, <2>2, <2>5, OneMoreSaid
  <2>7. ASSUME NEW i \in 1..(n - 1) PROVE mcIn'[i] = (Said + 1) + i
    <3>1. i + 1 \in 1..n BY <2>1
    <3>2. mcIn'[i] = Said + (i + 1) BY <2>1, <2>2, <3>1
    <3> QED BY <2>2, <3>2
  <2>8. Answering(mcOut', Heard', Said') BY <1>5, <2>3, <2>6
  <2>9. Answering(mcOut, Heard, Said)' BY <2>8 DEF Answering
  <2> QED BY <1>2, <2>1, <2>2, <2>3, <2>7, <2>9 DEF McOrder
<1>7. ASSUME mcKind = "stdio", mcOut' = Append(mcOut, 0), UNCHANGED mcIn, mcTorn = "no" PROVE McOrder'
  <2>1. Said' = Said BY <1>1, <1>7 DEF Said
  <2>2. Answering(mcOut', Heard, Said) BY <1>0, <1>7, OneMoreNote DEF McInv, McOrder
  <2>3. Answering(mcOut, Heard, Said)' BY <1>5, <2>1, <2>2 DEF Answering
  <2> QED BY <1>2, <1>7, <2>1, <2>3 DEF McInv, McOrder
<1> QED BY <1>3, <1>4, <1>6, <1>7 DEF McpServer

\* Whatever else a turn does to the pipes, a request comes into its pipe.
LEMMA McWrites ==
  ASSUME McInv, McTypeOK', NEW t \in McpTurns, send_write(t)
  PROVE  McInv'
<1>0. McTypeOK BY DEF McInv
<1>a. mcIn \in Seq(Nat) /\ mcOut \in Seq(Nat) /\ Len(mcIn) \in Nat BY <1>0 DEF McTypeOK
<1>b. mcReader \subseteq Waiting /\ Waiting \subseteq McpTurns BY DEF McInv, McAlone, McTypeOK, Waiting
<1>c. mcCalls \in [McpTurns -> McCallType] /\ mcNext \in Nat \ {0} /\ mcGone \in Nat /\ mcStray \in Nat BY <1>0 DEF McTypeOK
<1>1. /\ mcNext' = mcNext + 1 /\ mcWritten' = Append(mcWritten, mcNext)
      /\ mcKind = "stdio" => WriteLine(<<mcNext>>)
      /\ UNCHANGED <<mcKind, mcOut, mcReader, mcGone, mcStray, mcDone>>
      /\ mcCalls[t].step = "write"
  BY DEF send_write
<1>2. /\ mcCalls'[t] = [mcCalls[t] EXCEPT !.step = "wait", !.id = mcNext, !.alone = Waiting = {}]
      /\ \A u \in Waiting : u # t => mcCalls'[u] = [mcCalls[u] EXCEPT !.alone = FALSE]
      /\ \A u \in McpTurns \ (Waiting \cup {t}) : mcCalls'[u] = mcCalls[u]
  BY <1>b DEF send_write
<1>3. t \notin Waiting BY <1>1 DEF Waiting
<1>4. /\ mcCalls'[t].step = "wait" /\ mcCalls'[t].id = mcNext
      /\ mcCalls'[t].alone <=> Waiting = {}
  <2> DEFINE w == Waiting = {}
  <2>1. mcCalls'[t] = [mcCalls[t] EXCEPT !.step = "wait", !.id = mcNext, !.alone = w] BY <1>2
  <2> HIDE DEF w
  <2>2. mcCalls[t] \in McCallType BY <1>c
  <2>3. mcCalls'[t].alone = w /\ mcCalls'[t].step = "wait" /\ mcCalls'[t].id = mcNext
    BY <2>1, <2>2 DEF McCallType
  <2> QED BY <2>3 DEF w
<1>5. \A u \in Waiting : mcCalls'[u].step = "wait" /\ ~mcCalls'[u].alone
  <2>1. \A u \in Waiting : mcCalls[u] \in McCallType /\ mcCalls[u].step = "wait" BY <1>c, <1>b DEF Waiting
  <2>2. \A r \in McCallType : [r EXCEPT !.alone = FALSE].step = r.step /\ [r EXCEPT !.alone = FALSE].alone = FALSE
    BY DEF McCallType
  <2> SUFFICES ASSUME NEW u \in Waiting PROVE mcCalls'[u].step = "wait" /\ ~mcCalls'[u].alone
    OBVIOUS
  <2>3. mcCalls'[u] = [mcCalls[u] EXCEPT !.alone = FALSE] BY <1>2, <1>3
  <2>4. mcCalls'[u].step = mcCalls[u].step /\ mcCalls'[u].alone = FALSE BY <2>1, <2>2, <2>3
  <2> QED BY <2>1, <2>4
<1>6. Waiting' = Waiting \cup {t}
  <2>1. \A u \in McpTurns : mcCalls'[u].step = "wait" <=> u \in Waiting \cup {t}
    BY <1>2, <1>4, <1>5 DEF Waiting
  <2> QED BY <1>b, <2>1 DEF Waiting
<1>7. McIdsCount'
  <2>1. mcWritten \in Seq(Nat) BY <1>0 DEF McTypeOK
  <2>2. /\ Len(mcWritten') = Len(mcWritten) + 1 /\ mcWritten'[Len(mcWritten) + 1] = mcNext
        /\ \A i \in 1..Len(mcWritten) : mcWritten'[i] = mcWritten[i]
    BY <1>c, <1>1, <2>1, Ends
  <2>3. Len(mcWritten) = mcNext - 1 /\ \A i \in 1..(mcNext - 1) : mcWritten[i] = i BY DEF McInv, McIdsCount
  <2> QED BY <1>c, <1>1, <2>2, <2>3 DEF McIdsCount
<1>8. McAnswered' BY <1>c, <1>1 DEF McInv, McAnswered
<1>9. ASSUME mcKind = "stdio" PROVE McAlone'
  <2>1. mcReader' \subseteq Waiting' BY <1>b, <1>1, <1>6
  <2>2. ASSUME NEW u \in McpTurns, mcCalls'[u].step = "wait", mcCalls'[u].alone
        PROVE  Waiting' = {u} /\ mcCalls'[u].id = mcNext' - 1
    <3>1. u = t BY <1>2, <1>5, <2>2 DEF Waiting
    <3> QED BY <1>c, <1>1, <1>4, <1>6, <2>2, <3>1
  <2> QED BY <2>1, <2>2 DEF McAlone
<1>10. ASSUME mcKind = "stdio", mcTorn' = "no" PROVE McOrder'
  <2>1. mcTorn = "no" /\ mcIn' = mcIn \o <<mcNext>> BY <1>1, <1>10 DEF WriteLine
  <2> DEFINE n == Len(mcIn)
  <2>2. /\ Len(mcIn') = n + 1 /\ mcIn'[n + 1] = mcNext
        /\ \A i \in 1..n : mcIn'[i] = mcIn[i]
    BY <1>a, <1>c, <2>1, Ends, Lines
  <2>3. IsFiniteSet(Waiting) /\ Answering(mcOut, Heard, Said) /\ Said \in Nat /\ \A i \in 1..n : mcIn[i] = Said + i
    BY <1>10, <2>1 DEF McInv, McOrder, Answering
  <2>4. Cardinality(Waiting) \in Nat BY <2>3, FS_CardinalityType
  <2>5. IsFiniteSet(Waiting') /\ Cardinality(Waiting') = Cardinality(Waiting) + 1 BY <1>3, <1>6, <2>3, FS_AddElement
  <2>6. Heard' = Heard
    <3>1. Heard' = mcNext' - 1 - Cardinality(Waiting') - mcGone' - mcStray' BY DEF Heard
    <3>2. Heard' = (mcNext + 1) - 1 - (Cardinality(Waiting) + 1) - mcGone - mcStray BY <1>1, <2>5, <3>1
    <3> QED BY <1>c, <2>4, <3>2 DEF Heard
  <2>7. Said' = Said BY <1>a, <1>c, <1>1, <2>2 DEF Said
  <2>8. Answering(mcOut, Heard, Said)' BY <1>1, <2>3, <2>6, <2>7 DEF Answering
  <2>9. Said + (n + 1) = mcNext BY <1>a, <1>c DEF Said
  <2>10. n \in Nat BY <1>a
  <2> HIDE DEF n
  <2>11. \A i \in 1..(n + 1) : mcIn'[i] = Said + i BY <2>2, <2>3, <2>9, <2>10
  <2> QED BY <2>2, <2>5, <2>7, <2>8, <2>11 DEF McOrder
<1> QED BY <1>1, <1>7, <1>8, <1>9, <1>10 DEF McInv

\* A turn that waits gives up, or takes the first line.
LEMMA McLeaves ==
  ASSUME McInv, McTypeOK', NEW t \in McpTurns, NEW x, McFail(t) \/ Accept(t, x),
         UNCHANGED <<mcKind, mcIn, mcTorn, mcWritten, mcNext>>, mcKind = "stdio", t \in Waiting, McAnswered',
         \/ /\ mcOut # <<>> /\ mcOut' = Tail(mcOut) /\ mcGone' = mcGone
            /\ mcStray' = IF Head(mcOut) = 0 THEN mcStray + 1 ELSE mcStray
         \/ mcOut' = mcOut /\ mcGone' = mcGone + 1 /\ mcStray' = mcStray
  PROVE  McInv'
<1>0. McTypeOK BY DEF McInv
<1>a. mcIn \in Seq(Nat) /\ mcOut \in Seq(Nat) BY <1>0 DEF McTypeOK
<1>b. mcReader \subseteq Waiting BY DEF McInv, McAlone
<1>c. mcNext \in Nat /\ mcGone \in Nat /\ mcStray \in Nat BY <1>0 DEF McTypeOK
<1>1. /\ DOMAIN mcCalls' = McpTurns /\ mcCalls'[t].step # "wait"
      /\ \A u \in McpTurns \ {t} : mcCalls'[u] = mcCalls[u]
      /\ mcReader' = mcReader \ {t}
  BY <1>0, CallEnds
<1>2. Waiting' = Waiting \ {t} BY <1>0, <1>1, WaitingLeft
<1>3. McIdsCount' BY DEF McInv, McIdsCount
<1>4. ASSUME mcTorn = "no" PROVE McOrder'
  <2>1. IsFiniteSet(Waiting) /\ Answering(mcOut, Heard, Said) /\ \A i \in 1..Len(mcIn) : mcIn[i] = Said + i
    BY <1>4 DEF McInv, McOrder
  <2>2. Cardinality(Waiting) \in Nat BY <2>1, FS_CardinalityType
  <2>3. IsFiniteSet(Waiting') /\ Cardinality(Waiting') = Cardinality(Waiting) - 1 BY <1>2, <2>1, FS_RemoveElement
  <2>4. Said' = Said BY DEF Said
  <2>5. Heard' = mcNext - 1 - (Cardinality(Waiting) - 1) - mcGone' - mcStray' BY <2>3 DEF Heard
  <2>6. Answering(mcOut', Heard', Said)
    <3>1. CASE mcOut' = mcOut /\ mcGone' = mcGone + 1 /\ mcStray' = mcStray
      <4>1. Heard' = Heard BY <1>c, <2>2, <2>5, <3>1 DEF Heard
      <4> QED BY <2>1, <3>1, <4>1
    <3>2. CASE mcOut # <<>> /\ mcOut' = Tail(mcOut) /\ mcGone' = mcGone /\ Head(mcOut) = 0 /\ mcStray' = mcStray + 1
      <4>1. Heard' = Heard BY <1>c, <2>2, <2>5, <3>2 DEF Heard
      <4>2. Answering(mcOut', Heard, Said) BY <1>a, <2>1, <3>2, OneLess
      <4> QED BY <4>1, <4>2
    <3>3. CASE mcOut # <<>> /\ mcOut' = Tail(mcOut) /\ mcGone' = mcGone /\ Head(mcOut) # 0 /\ mcStray' = mcStray
      <4>1. Heard' = Heard + 1 BY <1>c, <2>2, <2>5, <3>3 DEF Heard
      <4>2. Answering(mcOut', Heard + 1, Said) BY <1>a, <2>1, <3>3, OneLess
      <4> QED BY <4>1, <4>2
    <3> QED BY <3>1, <3>2, <3>3
  <2>7. Answering(mcOut, Heard, Said)' BY <2>4, <2>6 DEF Answering
  <2> QED BY <2>1, <2>3, <2>4, <2>7 DEF McOrder
<1>5. McAlone'
  <2>1. mcReader' \subseteq Waiting' BY <1>b, <1>1, <1>2
  <2>2. ASSUME NEW u \in McpTurns, mcCalls'[u].step = "wait", mcCalls'[u].alone PROVE FALSE
    <3>1. u # t /\ mcCalls[u].step = "wait" /\ mcCalls[u].alone BY <1>1, <2>2
    <3>2. Waiting = {u} BY <3>1 DEF McInv, McAlone
    <3> QED BY <3>1, <3>2
  <2> QED BY <2>1, <2>2 DEF McAlone
<1> QED BY <1>3, <1>4, <1>5 DEF McInv

\* The line that is taken for the answer of a request nobody overlaps.
LEMMA McTakes ==
  ASSUME McInv, NEW t \in Waiting, mcKind = "stdio", mcTorn = "no", mcCalls[t].alone, mcOut # <<>>, Head(mcOut) # 0
  PROVE  /\ mcCalls[t].id \in 1..(mcNext - 1) /\ Head(mcOut) \in 1..(mcNext - 1)
         /\ Head(mcOut) = mcCalls[t].id - mcGone - mcStray
<1>0. /\ mcOut \in Seq(Nat) /\ mcNext \in Nat \ {0} /\ mcGone \in Nat /\ mcStray \in Nat /\ Len(mcIn) \in Nat
  BY DEF McInv, McTypeOK
<1>1. t \in McpTurns /\ mcCalls[t].step = "wait" BY DEF Waiting
<1>2. Waiting = {t} /\ mcCalls[t].id = mcNext - 1 BY <1>1 DEF McInv, McAlone
<1>3. Cardinality(Waiting) = 1 BY <1>2, FS_Singleton
<1>4. Answering(mcOut, Heard, Said) BY DEF McInv, McOrder
<1>5. Head(mcOut) = Heard + 1 /\ Head(mcOut) <= Said BY <1>0, <1>4, OneLess
<1>6. Heard \in Nat /\ Said \in Nat BY <1>4 DEF Answering
<1>7. Heard = mcNext - 1 - 1 - mcGone - mcStray BY <1>3 DEF Heard
<1>8. Said <= mcNext - 1 BY <1>0 DEF Said
<1>9. mcCalls[t].id \in 1..(mcNext - 1)
  <2>1. 0 < Heard + 1 /\ Heard + 1 <= mcNext - 1
    <3>1. Heard + 1 <= Said BY <1>5
    <3> QED BY <1>0, <1>6, <1>8, <3>1
  <2>2. mcNext - 1 \in 1..(mcNext - 1) BY <1>0, <1>6, <2>1
  <2> QED BY <1>2, <2>2
<1>10. Head(mcOut) \in 1..(mcNext - 1)
  <2>1. Heard + 1 <= Said BY <1>5
  <2>2. Heard + 1 \in 1..(mcNext - 1) BY <1>0, <1>6, <1>8, <2>1
  <2> QED BY <1>5, <2>2
<1>11. Head(mcOut) = mcCalls[t].id - mcGone - mcStray
  <2>1. Heard + 1 = (mcNext - 1) - mcGone - mcStray BY <1>0, <1>7
  <2> QED BY <1>2, <1>5, <2>1
<1> QED BY <1>9, <1>10, <1>11

\* Every step keeps the balance of the pipes and of those who wait.
LEMMA McSteps == McInv /\ [McNext]_mcVars => McInv'
<1> SUFFICES ASSUME McInv, [McNext]_mcVars PROVE McInv'
  OBVIOUS
<1>0. McTypeOK /\ McTypeOK' BY McTypes DEF McInv
<1>b. Waiting \subseteq McpTurns /\ (mcKind = "stdio" => mcReader \subseteq Waiting) BY DEF McInv, McAlone, Waiting
<1>c. mcCalls \in [McpTurns -> McCallType] BY <1>0 DEF McTypeOK
<1>1. CASE UNCHANGED mcVars
  <2>1. Waiting' = Waiting BY <1>1 DEF mcVars, Waiting
  <2> QED BY <1>0, <1>1, <1>b, <2>1, McCalm DEF mcVars, mcPipes, McInv
<1>2. ASSUME NEW t \in McpTurns, t \notin Waiting, mcCalls'[t].step # "wait", DOMAIN mcCalls' = McpTurns,
             \A u \in McpTurns \ {t} : mcCalls'[u] = mcCalls[u],
             UNCHANGED <<mcKind, mcIn, mcOut, mcWritten, mcNext, mcGone, mcStray, mcDone>>,
             mcTorn' = "no" => mcTorn = "no", mcReader' \subseteq mcReader
      PROVE  McInv'
  <2>1. Waiting' = Waiting BY <1>0, <1>2, WaitingLeft
  <2>2. \A u \in Waiting : mcCalls'[u] = mcCalls[u] BY <1>b, <1>2
  <2>3. mcKind = "http" => mcReader' = {} BY <1>2 DEF McInv
  <2>4. mcKind = "stdio" => mcReader' \subseteq Waiting BY <1>b, <1>2
  <2> QED BY <1>0, <1>2, <2>1, <2>2, <2>3, <2>4, McCalm
<1>3. ASSUME NEW t \in McpTurns, McCall(t) \/ ensure_initialized(t) PROVE McInv'
  <2>1. /\ UNCHANGED <<mcKind, mcIn, mcOut, mcTorn, mcWritten, mcNext, mcGone, mcStray, mcDone, mcReader>>
        /\ mcCalls[t].step \in {"idle", "ensure"}
    BY <1>3 DEF McCall, ensure_initialized, mcPipes
  <2>2. /\ mcCalls'[t].step # "wait" /\ DOMAIN mcCalls' = McpTurns
        /\ \A u \in McpTurns \ {t} : mcCalls'[u] = mcCalls[u]
    <3>1. CASE UNCHANGED mcCalls BY <1>c, <2>1, <3>1
    <3>2. ASSUME NEW op, mcCalls' = [mcCalls EXCEPT ![t] = [McIdle EXCEPT !.op = op, !.step = "ensure"]]
          PROVE  /\ mcCalls'[t].step # "wait" /\ DOMAIN mcCalls' = McpTurns
                 /\ \A u \in McpTurns \ {t} : mcCalls'[u] = mcCalls[u]
      BY <1>c, <3>2 DEF McIdle
    <3>3. CASE McStep(t, "write") BY <1>0, <3>3, OneSteps
    <3> QED BY <1>3, <3>1, <3>2, <3>3 DEF McCall, ensure_initialized
  <2>3. t \notin Waiting BY <2>1 DEF Waiting
  <2> QED BY <1>2, <2>1, <2>2, <2>3
<1>4. ASSUME NEW t \in McpTurns, send_write_fails(t) \/ (CallerGone(t) /\ t \notin Waiting) PROVE McInv'
  <2>1. McFail(t) BY <1>4 DEF send_write_fails, CallerGone
  <2>2. /\ mcCalls'[t].step # "wait" /\ DOMAIN mcCalls' = McpTurns /\ mcReader' = mcReader \ {t}
        /\ \A u \in McpTurns \ {t} : mcCalls'[u] = mcCalls[u]
    BY <1>0, <2>1, CallEnds
  <2>3. t \notin Waiting BY <1>4 DEF send_write_fails, Waiting
  <2>4. mcCalls[t].step # "wait" BY <2>3 DEF Waiting
  <2>5. UNCHANGED <<mcKind, mcIn, mcOut, mcWritten, mcNext, mcGone, mcStray, mcDone>>
    BY <1>4, <2>4 DEF send_write_fails, CallerGone, mcPipes
  <2>6. mcTorn' = "no" => mcTorn = "no" BY <1>4 DEF send_write_fails, CallerGone, mcPipes
  <2> QED BY <1>2, <2>2, <2>3, <2>5, <2>6
<1>5. ASSUME NEW t \in McpTurns, stdout_lock(t) PROVE McInv'
  <2>1. /\ UNCHANGED <<mcKind, mcIn, mcOut, mcTorn, mcWritten, mcNext, mcGone, mcStray, mcDone, mcCalls>>
        /\ mcReader' = {t} /\ t \in Waiting /\ mcKind = "stdio"
    BY <1>5 DEF stdout_lock, mcPipes, Waiting
  <2>2. Waiting' = Waiting BY <2>1 DEF Waiting
  <2> QED BY <1>0, <2>1, <2>2, McCalm DEF McInv, Waiting
<1>6. ASSUME NEW t \in McpTurns, initialized_notification(t) PROVE McInv'
  <2>1. /\ mcCalls[t].step = "notify" /\ McStep(t, "write")
        /\ UNCHANGED <<mcKind, mcOut, mcWritten, mcNext, mcGone, mcStray, mcDone, mcReader>>
        /\ UNCHANGED <<mcIn, mcTorn>> \/ WriteLine(<<>>)
    BY <1>6 DEF initialized_notification
  <2>2. mcIn' = mcIn
    <3>1. mcIn \in Seq(Nat) BY <1>0 DEF McTypeOK
    <3>2. mcIn' = mcIn \/ mcIn' = mcIn \o <<>> BY <2>1 DEF WriteLine
    <3>3. 0 \in Nat OBVIOUS
    <3> QED BY <3>1, <3>2, <3>3, Lines
  <2>3. mcTorn' = "no" => mcTorn = "no" BY <2>1 DEF WriteLine
  <2>4. t \notin Waiting BY <2>1 DEF Waiting
  <2>5. /\ mcCalls'[t].step # "wait" /\ DOMAIN mcCalls' = McpTurns
        /\ \A u \in McpTurns \ {t} : mcCalls'[u] = mcCalls[u]
    BY <1>0, <2>1, OneSteps
  <2> QED BY <1>2, <2>1, <2>2, <2>3, <2>4, <2>5
<1>7. ASSUME NEW t \in McpTurns, mcReader = {t} PROVE mcKind = "stdio" /\ t \in Waiting
  BY <1>0, <1>b, <1>7 DEF McInv, McTypeOK
<1>8. ASSUME NEW t \in McpTurns, read_timeout(t) \/ read_eof(t) PROVE McInv'
  <2>1. /\ mcReader = {t} /\ McFail(t) /\ mcGone' = mcGone + 1
        /\ UNCHANGED <<mcKind, mcIn, mcOut, mcTorn, mcWritten, mcNext, mcStray, mcDone>>
    BY <1>8 DEF read_timeout, read_eof, mcPipes
  <2>2. McAnswered' BY <2>1 DEF McInv, McAnswered
  <2>3. mcKind = "stdio" /\ t \in Waiting BY <1>7, <2>1
  <2> QED BY <1>0, <2>1, <2>2, <2>3, McLeaves
<1>9. ASSUME NEW t \in McpTurns, CallerGone(t), t \in Waiting PROVE McInv'
  <2>1. mcCalls[t].step = "wait" BY <1>9 DEF Waiting
  <2>2. /\ McFail(t) /\ mcTorn' = mcTorn
        /\ UNCHANGED <<mcKind, mcIn, mcOut, mcWritten, mcNext, mcStray, mcDone>>
        /\ mcGone' = IF mcKind = "stdio" THEN mcGone + 1 ELSE mcGone
    BY <1>9, <2>1 DEF CallerGone
  <2>3. McAnswered' BY <2>2 DEF McInv, McAnswered
  <2>4. CASE mcKind = "stdio" BY <1>0, <1>9, <2>2, <2>3, <2>4, McLeaves
  <2>5. CASE mcKind = "http"
    <3>1. mcReader' = {} BY <2>2, <2>5 DEF McFail, McInv
    <3>2. McIdsCount' BY <2>2 DEF McInv, McIdsCount
    <3> QED BY <1>0, <2>2, <2>3, <2>5, <3>1, <3>2 DEF McInv
  <2> QED BY <1>0, <2>4, <2>5 DEF McTypeOK
<1>10. ASSUME NEW t \in McpTurns, read_line(t) PROVE McInv'
  <2>1. /\ mcReader = {t} /\ mcOut # <<>> /\ mcOut' = Tail(mcOut)
        /\ mcStray' = IF Head(mcOut) = 0 THEN mcStray + 1 ELSE mcStray
        /\ UNCHANGED <<mcKind, mcIn, mcTorn, mcWritten, mcNext, mcGone>>
        /\ Accept(t, Head(mcOut)) \/ (McFail(t) /\ UNCHANGED mcDone)
    BY <1>10 DEF read_line
  <2>2. mcKind = "stdio" /\ t \in Waiting BY <1>7, <2>1
  <2>3. McAnswered'
    <3>1. CASE UNCHANGED mcDone BY <2>1, <3>1 DEF McInv, McAnswered
    <3>2. CASE Accept(t, Head(mcOut))
      <4> DEFINE d == [asked |-> mcCalls[t].id, answered |-> Head(mcOut), http |-> mcKind = "http",
                       alone |-> mcCalls[t].alone, gone |-> mcGone, stray |-> mcStray, torn |-> mcTorn # "no"]
      <4>1. mcDone' = mcDone \cup {d} BY <3>2 DEF Accept
      <4>2. /\ d.asked = mcCalls[t].id /\ d.answered = Head(mcOut) /\ d.alone = mcCalls[t].alone
            /\ d.gone = mcGone /\ d.stray = mcStray /\ (d.torn <=> mcTorn # "no")
        OBVIOUS
      <4> HIDE DEF d
      <4>3. ASSUME d.alone, ~d.torn, d.answered # 0
            PROVE  /\ d.asked \in 1..(mcNext - 1) /\ d.gone \in Nat /\ d.stray \in Nat
                   /\ d.answered \in 1..(mcNext - 1) /\ d.answered = d.asked - d.gone - d.stray
        <5>1. mcCalls[t].alone /\ mcTorn = "no" /\ Head(mcOut) # 0 BY <4>2, <4>3
        <5>2. mcGone \in Nat /\ mcStray \in Nat BY <1>0 DEF McTypeOK
        <5> QED BY <2>1, <2>2, <4>2, <5>1, <5>2, McTakes
      <4> QED BY <2>1, <4>1, <4>3 DEF McInv, McAnswered
    <3> QED BY <2>1, <3>1, <3>2
  <2> QED BY <1>0, <2>1, <2>2, <2>3, McLeaves
<1>11. ASSUME NEW t \in McpTurns, send_http(t) PROVE McInv'
  <2>1. /\ mcKind = "http" /\ UNCHANGED <<mcKind, mcWritten, mcNext>>
        /\ Accept(t, mcCalls[t].id) \/ (McFail(t) /\ UNCHANGED mcDone)
    BY <1>11 DEF send_http
  <2>2. mcReader' = {} BY <1>0, <2>1, CallEnds DEF McInv
  <2>3. McAnswered'
    <3>1. CASE UNCHANGED mcDone BY <2>1, <3>1 DEF McInv, McAnswered
    <3>2. CASE Accept(t, mcCalls[t].id)
      <4> DEFINE d == [asked |-> mcCalls[t].id, answered |-> mcCalls[t].id, http |-> mcKind = "http",
                       alone |-> mcCalls[t].alone, gone |-> mcGone, stray |-> mcStray, torn |-> mcTorn # "no"]
      <4>1. mcDone' = mcDone \cup {d} BY <3>2 DEF Accept
      <4>2. d.http = TRUE BY <2>1
      <4> HIDE DEF d
      <4> QED BY <2>1, <4>1, <4>2 DEF McInv, McAnswered
    <3> QED BY <2>1, <3>1, <3>2
  <2>4. McIdsCount' BY <2>1 DEF McInv, McIdsCount
  <2> QED BY <1>0, <2>1, <2>2, <2>3, <2>4 DEF McInv
<1> QED BY <1>0, <1>1, <1>3, <1>4, <1>5, <1>6, <1>8, <1>9, <1>10, <1>11, McServes, McWrites DEF McNext

\* Over pipes whose lines no dropped turn has torn, a request that nobody overlaps is given the line of
\* the request written as many places before its own as requests had been given up and lines read that
\* answer nothing (mcp/mod.rs reads the next line and does not compare its id): for any number of turns
\* and requests.
THEOREM AnswersLag == McSpec => []AnswersLagByTimeouts
<1>1. McInit => McInv
  <2> SUFFICES ASSUME McInit PROVE McInv
    OBVIOUS
  <2>1. McIdle \in McCallType /\ McIdle.step = "idle" BY DEF McIdle, McCallType
  <2>2. McTypeOK /\ Waiting = {} BY <2>1 DEF McInit, McTypeOK, Waiting
  <2>3. McIdsCount /\ McAnswered BY DEF McInit, McIdsCount, McAnswered
  <2>4. McAlone BY <2>1, <2>2 DEF McInit, McAlone
  <2>5. Heard = 0 /\ Said = 0
    <3>1. mcNext = 1 /\ mcGone = 0 /\ mcStray = 0 /\ mcIn = <<>> BY DEF McInit
    <3>2. Cardinality(Waiting) = 0 BY <2>2, FS_EmptySet
    <3>3. Heard = 1 - 1 - 0 - 0 - 0 BY <3>1, <3>2 DEF Heard
    <3>4. Said = 1 - 1 - 0 BY <3>1 DEF Said
    <3> QED BY <3>3, <3>4
  <2>6. McOrder BY <2>2, <2>5, FS_EmptySet DEF McInit, McOrder, Answering
  <2> QED BY <2>2, <2>3, <2>4, <2>6 DEF McInv, McInit
<1>2. McInv => AnswersLagByTimeouts
  <2> SUFFICES ASSUME McInv, NEW d \in mcDone, d.alone, ~d.http, ~d.torn, d.answered # 0
               PROVE  Place(d.answered) = Place(d.asked) - d.gone - d.stray
    BY DEF AnswersLagByTimeouts
  <2>1. d.asked \in 1..(mcNext - 1) /\ d.answered \in 1..(mcNext - 1) /\ d.answered = d.asked - d.gone - d.stray
    BY DEF McInv, McAnswered
  <2>2. Place(d.asked) = d.asked /\ Place(d.answered) = d.answered BY <2>1, Places DEF McInv
  <2> QED BY <2>1, <2>2
<1> QED BY <1>1, <1>2, McSteps, PTL DEF McSpec

----------------------------------------------------------------------------
(* The session store.                                                       *)

\* A key of three parts.
LEMMA ThreeParts ==
  ASSUME NEW S, NEW a \in S, NEW b \in S, NEW c \in S
  PROVE  <<a, b, c>> = <<a, b>> \o <<c>>
<1> DEFINE u == <<a, b, c>>
           v == <<a, b>> \o <<c>>
<1>1. u \in Seq(S) /\ Len(u) = 3 /\ u[1] = a /\ u[2] = b /\ u[3] = c OBVIOUS
<1>2. v \in Seq(S) /\ Len(v) = 3 /\ v[1] = a /\ v[2] = b /\ v[3] = c OBVIOUS
<1> HIDE DEF u, v
<1>3. \A i \in 1..3 : u[i] = v[i] BY <1>1, <1>2
<1>4. u = v BY <1>1, <1>2, <1>3
<1> QED BY <1>4 DEF u, v

\* Which conversations have one key: those of one peer, all direct ones of a channel with "main",
\* all of a channel with "global".
OneKey(c, d) ==
  /\ c.channel = d.channel
  /\ c.channel = "console" => c.agent = d.agent
  /\ c.channel # "console" /\ srScope # "global" =>
       IF Direct(c) /\ Direct(d) THEN srScope = "main" \/ c.from = d.from
       ELSE Direct(c) = Direct(d) /\ c.place = d.place /\ c.topic = d.topic

\* Conversations have the same key exactly when that is so.
LEMMA KeysTellApart ==
  ASSUME srScope \in {"main", "per_peer", "per_channel_peer", "global"},
         NEW c \in SrConvs, NEW d \in SrConvs
  PROVE  session_key(c) = session_key(d) <=> OneKey(c, d)
<1> DEFINE scope(x) == resolve_inbound_account_scope(srScope, x)
           thread(x) == IF x.group THEN thread_id(x) ELSE <<>>
           Names == (UNION {{x.agent, x.channel, x.from, x.place, x.topic} : x \in SrConvs})
                      \cup {SrAgent, "topic", "thread", "group", "main", "default", "global", "control", "web"}
<1>1. \A x \in SrConvs : x \in SrConv BY SrConstants DEF SrConstants
<1>2. \A x \in SrConvs : /\ Direct(x) => thread(x) = <<>>
                         /\ ~Direct(x) => x.group /\ x.place # "" /\ thread(x) = thread_id(x)
  BY <1>1, SrNames DEF SrNames, Direct, thread_id, SrConv
<1>3. \A x \in SrConvs : ~Direct(x) =>
        \/ x.channel \in {"telegram", "discord", "web", "slack"} /\ x.topic = "" /\ thread(x) = <<x.place>>
        \/ x.channel = "telegram" /\ x.topic # "" /\ thread(x) = <<x.place, "topic", x.topic>>
        \/ x.channel = "slack" /\ x.topic # "" /\ thread(x) = <<x.place, "thread", x.topic>>
        \/ x.channel = "signal" /\ x.topic = "" /\ thread(x) = <<"group", x.place>>
  BY <1>1, <1>2, SrNames DEF SrNames, thread_id, SrConv
<1> HIDE DEF thread
<1>4. /\ SrAgent \in Names /\ "topic" \in Names /\ "thread" \in Names /\ "group" \in Names /\ "main" \in Names
      /\ "default" \in Names /\ "global" \in Names /\ "control" \in Names /\ "web" \in Names
  OBVIOUS
<1>5. \A x \in SrConvs : x.agent \in Names /\ x.channel \in Names /\ x.from \in Names /\ x.place \in Names /\ x.topic \in Names
  OBVIOUS
<1> HIDE DEF Names
<1>6. \A a, b, c1 \in Names : /\ <<a>> \in Seq(Names) /\ <<a, b>> \in Seq(Names) /\ <<a, b, c1>> \in Seq(Names)
                               /\ <<a>> # <<>> /\ <<a, b>> # <<>> /\ <<a, b, c1>> # <<>>
  OBVIOUS
<1>7. \A a, b, c1, a1, b1, c2 \in Names :
        /\ (<<a>> = <<a1>> <=> a = a1) /\ <<a>> # <<a1, b1>> /\ <<a>> # <<a1, b1, c2>>
        /\ (<<a, b>> = <<a1, b1>> <=> a = a1 /\ b = b1)
        /\ (<<a, b, c1>> = <<a1, b1, c2>> <=> a = a1 /\ b = b1 /\ c1 = c2)
  OBVIOUS
<1>8. \A x \in SrConvs : thread(x) \in Seq(Names) /\ (Direct(x) => thread(x) = <<>>) /\ (~Direct(x) => thread(x) # <<>>)
  <2> SUFFICES ASSUME NEW x \in SrConvs
               PROVE  thread(x) \in Seq(Names) /\ (Direct(x) => thread(x) = <<>>) /\ (~Direct(x) => thread(x) # <<>>)
    OBVIOUS
  <2>1. CASE thread(x) = <<>> /\ Direct(x)
    <3>1. <<>> \in Seq(Names) OBVIOUS
    <3> QED BY <2>1, <3>1
  <2>2. CASE ~Direct(x)
    <3>1. x.place \in Names /\ x.topic \in Names BY <1>5
    <3>2. /\ <<x.place>> \in Seq(Names) /\ <<"group", x.place>> \in Seq(Names)
          /\ <<x.place, "topic", x.topic>> \in Seq(Names) /\ <<x.place, "thread", x.topic>> \in Seq(Names)
      BY <1>4, <3>1
    <3>3. /\ <<x.place>> # <<>> /\ <<"group", x.place>> # <<>>
          /\ <<x.place, "topic", x.topic>> # <<>> /\ <<x.place, "thread", x.topic>> # <<>>
      OBVIOUS
    <3>4. thread(x) \in {<<x.place>>, <<"group", x.place>>, <<x.place, "topic", x.topic>>, <<x.place, "thread", x.topic>>}
      BY <1>3, <2>2
    <3> HIDE DEF thread
    <3> QED BY <2>2, <3>2, <3>3, <3>4
  <2> QED BY <1>2, <2>1, <2>2
<1>9. \A x, y \in SrConvs : ~Direct(x) /\ ~Direct(y) /\ x.channel = y.channel =>
        (thread(x) = thread(y) <=> x.place = y.place /\ x.topic = y.topic)
  <2> SUFFICES ASSUME NEW x \in SrConvs, NEW y \in SrConvs, ~Direct(x), ~Direct(y), x.channel = y.channel
               PROVE  thread(x) = thread(y) <=> x.place = y.place /\ x.topic = y.topic
    OBVIOUS
  <2>1. /\ <<x.place>> = <<y.place>> <=> x.place = y.place
        /\ <<"group", x.place>> = <<"group", y.place>> <=> x.place = y.place
        /\ <<x.place, "topic", x.topic>> = <<y.place, "topic", y.topic>> <=> x.place = y.place /\ x.topic = y.topic
        /\ <<x.place, "thread", x.topic>> = <<y.place, "thread", y.topic>> <=> x.place = y.place /\ x.topic = y.topic
    OBVIOUS
  <2>2. /\ <<x.place>> # <<y.place, "topic", y.topic>> /\ <<x.place>> # <<y.place, "thread", y.topic>>
        /\ <<y.place>> # <<x.place, "topic", x.topic>> /\ <<y.place>> # <<x.place, "thread", x.topic>>
    OBVIOUS
  <2>3. CASE x.topic = "" /\ y.topic = "" /\ x.channel # "signal"
    <3>1. thread(x) = <<x.place>> /\ thread(y) = <<y.place>> BY <1>3, <2>3
    <3> QED BY <2>1, <2>3, <3>1
  <2>4. CASE x.channel = "signal"
    <3>1. thread(x) = <<"group", x.place>> /\ thread(y) = <<"group", y.place>> /\ x.topic = "" /\ y.topic = ""
      BY <1>3, <2>4
    <3> QED BY <2>1, <3>1
  <2>5. CASE x.channel = "telegram" /\ (x.topic # "" \/ y.topic # "")
    <3>1. /\ thread(x) = IF x.topic = "" THEN <<x.place>> ELSE <<x.place, "topic", x.topic>>
          /\ thread(y) = IF y.topic = "" THEN <<y.place>> ELSE <<y.place, "topic", y.topic>>
      BY <1>3, <2>5
    <3> QED BY <2>1, <2>2, <2>5, <3>1
  <2>6. CASE x.channel = "slack" /\ (x.topic # "" \/ y.topic # "")
    <3>1. /\ thread(x) = IF x.topic = "" THEN <<x.place>> ELSE <<x.place, "thread", x.topic>>
          /\ thread(y) = IF y.topic = "" THEN <<y.place>> ELSE <<y.place, "thread", y.topic>>
      BY <1>3, <2>6
    <3> QED BY <2>1, <2>2, <2>6, <3>1
  <2> QED BY <1>3, <2>3, <2>4, <2>5, <2>6
<1>10. \A x, y \in SrConvs : Direct(x) /\ ~Direct(y) /\ x.channel = y.channel =>
        thread(y) # <<x.from>> /\ thread(y) # <<"main">>
  <2> SUFFICES ASSUME NEW x \in SrConvs, NEW y \in SrConvs, ~Direct(y), x.channel = y.channel
               PROVE  thread(y) # <<x.from>> /\ thread(y) # <<"main">>
    OBVIOUS
  <2>1. y.place # "main" /\ x.from # y.place BY SrNames DEF SrNames
  <2>2. ASSUME NEW n, n # y.place PROVE <<n>> # <<y.place>> BY <2>2
  <2>3. ASSUME NEW n
        PROVE  <<n>> # <<"group", y.place>> /\ <<n>> # <<y.place, "topic", y.topic>> /\ <<n>> # <<y.place, "thread", y.topic>>
    OBVIOUS
  <2>4. thread(y) \in {<<y.place>>, <<"group", y.place>>, <<y.place, "topic", y.topic>>, <<y.place, "thread", y.topic>>}
    BY <1>3
  <2> QED BY <2>1, <2>2, <2>3, <2>4
<1> DEFINE peer(x) == IF Direct(x) THEN <<x.from>> ELSE thread(x)
<1>11. \A x \in SrConvs : peer(x) \in Seq(Names) /\ peer(x) # <<>> BY <1>8, <1>6, <1>5
<1>12. \A x \in SrConvs :
        /\ srScope = "global" => scope(x) = <<"global">>
        /\ srScope = "main" => scope(x) = IF Direct(x) THEN <<"main">> ELSE thread(x)
        /\ srScope = "per_peer" => scope(x) = peer(x)
        /\ srScope = "per_channel_peer" => scope(x) = <<"default">> \o peer(x)
  BY <1>8 DEF resolve_inbound_account_scope, unwrap_or, thread
<1> HIDE DEF scope, peer
<1>13. \A a \in Seq(Names) : /\ <<"default">> \o a \in Seq(Names) /\ (<<"default">> \o a)[1] = "default"
                             /\ Len(<<"default">> \o a) = Len(a) + 1
                             /\ \A i \in 1..Len(a) : (<<"default">> \o a)[i + 1] = a[i]
  BY <1>4
<1>14. \A a, b \in Seq(Names) : <<"default">> \o a = <<"default">> \o b => a = b
  <2> SUFFICES ASSUME NEW a \in Seq(Names), NEW b \in Seq(Names), <<"default">> \o a = <<"default">> \o b PROVE a = b
    OBVIOUS
  <2>1. Len(a) = Len(b) BY <1>13
  <2>2. \A i \in 1..Len(a) : a[i] = b[i] BY <1>13, <2>1
  <2> QED BY <2>1, <2>2
<1>15. \A x \in SrConvs : scope(x) \in Seq(Names)
  <2> SUFFICES ASSUME NEW x \in SrConvs PROVE scope(x) \in Seq(Names) OBVIOUS
  <2>1. <<"global">> \in Seq(Names) /\ <<"main">> \in Seq(Names) BY <1>4
  <2>2. thread(x) \in Seq(Names) /\ peer(x) \in Seq(Names) BY <1>8, <1>11
  <2>3. <<"default">> \o peer(x) \in Seq(Names) BY <1>13, <2>2
  <2>4. scope(x) \in {<<"global">>, <<"main">>, thread(x), peer(x), <<"default">> \o peer(x)} BY <1>12
  <2> QED BY <2>1, <2>2, <2>3, <2>4
<1>16. \A x \in SrConvs : x.channel = "web" => scope(x) # <<"control">>
  <2> SUFFICES ASSUME NEW x \in SrConvs, x.channel = "web" PROVE scope(x) # <<"control">> OBVIOUS
  <2>1. ~Direct(x) => thread(x) = <<x.place>> BY <1>3
  <2>2. "control" \notin {x.from, x.place} BY SrNames DEF SrNames
  <2>3. peer(x) # <<"control">> /\ (~Direct(x) => thread(x) # <<"control">>) BY <1>7, <1>4, <1>5, <2>1, <2>2 DEF peer
  <2>4. <<"main">> # <<"control">> /\ <<"global">> # <<"control">> OBVIOUS
  <2>5. <<"default">> \o peer(x) # <<"control">>
    <3>1. (<<"default">> \o peer(x))[1] = "default" BY <1>13, <1>11
    <3>2. <<"control">>[1] # "default" OBVIOUS
    <3> QED BY <3>1, <3>2
  <2> QED BY <1>12, <2>3, <2>4, <2>5
<1>17. ASSUME NEW x \in SrConvs, NEW y \in SrConvs, x.channel = y.channel, x.channel # "console"
       PROVE  scope(x) = scope(y) <=> OneKey(x, y)
  <2>1. CASE srScope = "global" BY <1>12, <1>17, <2>1 DEF OneKey
  <2>2. CASE srScope = "main"
    <3>1. (Direct(x) /\ ~Direct(y) => thread(y) # <<"main">>) /\ (Direct(y) /\ ~Direct(x) => thread(x) # <<"main">>)
      BY <1>10, <1>17
    <3>2. ~Direct(x) /\ ~Direct(y) => (thread(x) = thread(y) <=> x.place = y.place /\ x.topic = y.topic)
      BY <1>9, <1>17
    <3>3. /\ scope(x) = (IF Direct(x) THEN <<"main">> ELSE thread(x))
          /\ scope(y) = (IF Direct(y) THEN <<"main">> ELSE thread(y))
      BY <1>12, <2>2
    <3>4. OneKey(x, y) <=> IF Direct(x) /\ Direct(y) THEN TRUE
                             ELSE Direct(x) = Direct(y) /\ x.place = y.place /\ x.topic = y.topic
      BY <1>17, <2>2 DEF OneKey
    <3>5. (Direct(x) <=> Direct(y)) <=> (Direct(x) = Direct(y)) BY DEF Direct
    <3> QED BY <3>1, <3>2, <3>3, <3>4, <3>5
  <2>3. peer(x) = peer(y) <=> IF Direct(x) /\ Direct(y) THEN x.from = y.from
                              ELSE Direct(x) = Direct(y) /\ x.place = y.place /\ x.topic = y.topic
    <3>1. (Direct(x) /\ ~Direct(y) => thread(y) # <<x.from>>) /\ (Direct(y) /\ ~Direct(x) => thread(x) # <<y.from>>)
      BY <1>10, <1>17
    <3>2. ~Direct(x) /\ ~Direct(y) => (thread(x) = thread(y) <=> x.place = y.place /\ x.topic = y.topic)
      BY <1>9, <1>17
    <3>3. <<x.from>> = <<y.from>> <=> x.from = y.from OBVIOUS
    <3>4. /\ peer(x) = (IF Direct(x) THEN <<x.from>> ELSE thread(x))
          /\ peer(y) = (IF Direct(y) THEN <<y.from>> ELSE thread(y))
      BY DEF peer
    <3>5. (Direct(x) <=> Direct(y)) <=> (Direct(x) = Direct(y)) BY DEF Direct
    <3> QED BY <3>1, <3>2, <3>3, <3>4, <3>5
  <2>4. srScope \in {"per_peer", "per_channel_peer"} => (scope(x) = scope(y) <=> peer(x) = peer(y))
    BY <1>12, <1>14, <1>11
  <2>5. CASE srScope \in {"per_peer", "per_channel_peer"} BY <1>17, <2>3, <2>4, <2>5 DEF OneKey
  <2> QED BY <2>1, <2>2, <2>5
<1>18. \A x \in SrConvs : session_key(x) =
         IF x.channel = "console" THEN <<x.agent, "web">> \o <<"control">> ELSE <<SrAgent, x.channel>> \o scope(x)
  <2> SUFFICES ASSUME NEW x \in SrConvs
               PROVE  session_key(x) = IF x.channel = "console" THEN <<x.agent, "web">> \o <<"control">>
                                       ELSE <<SrAgent, x.channel>> \o scope(x)
    OBVIOUS
  <2>1. <<x.agent, "web", "control">> = <<x.agent, "web">> \o <<"control">> BY <1>5, <1>4, ThreeParts
  <2> QED BY <2>1 DEF session_key, scope
<1>19. /\ c.channel \in Names /\ d.channel \in Names /\ c.agent \in Names /\ d.agent \in Names
       /\ scope(c) \in Seq(Names) /\ scope(d) \in Seq(Names) /\ <<"control">> \in Seq(Names)
  BY <1>15, <1>6, <1>5, <1>4
<1> DEFINE key(a, b, s) == <<a, b>> \o s
<1>20. ASSUME NEW a \in Names, NEW b \in Names, NEW a1 \in Names, NEW b1 \in Names, NEW s \in Seq(Names), NEW t \in Seq(Names)
      PROVE  key(a, b, s) = key(a1, b1, t) => a = a1 /\ b = b1 /\ s = t
  <2>1. \A x, y \in Names, r \in Seq(Names) :
          LET u == <<x, y>> \o r
          IN Len(u) = 2 + Len(r) /\ u[1] = x /\ u[2] = y /\ \A i \in 1..Len(r) : u[i + 2] = r[i]
    OBVIOUS
  <2> SUFFICES ASSUME <<a, b>> \o s = <<a1, b1>> \o t PROVE a = a1 /\ b = b1 /\ s = t
    OBVIOUS
  <2>2. a = a1 /\ b = b1 /\ Len(s) = Len(t) BY <2>1
  <2>3. \A i \in 1..Len(s) : s[i] = t[i] BY <2>1, <2>2
  <2> QED BY <2>2, <2>3
<1> DEFINE web == "web"
           control == <<"control">>
<1>21. ASSUME NEW x \in SrConvs
       PROVE  /\ x.channel # "console" => session_key(x) = key(SrAgent, x.channel, scope(x))
              /\ x.channel = "console" => session_key(x) = key(x.agent, web, control)
  BY <1>18
<1>22. web \in Names /\ control \in Seq(Names) BY <1>19, <1>4
<1>23. \A x \in SrConvs : x.channel = web => scope(x) # control BY <1>16
<1> HIDE DEF key, web, control
<1>24. CASE c.channel # "console" /\ d.channel # "console"
  <2>1. session_key(c) = key(SrAgent, c.channel, scope(c)) /\ session_key(d) = key(SrAgent, d.channel, scope(d))
    BY <1>21, <1>24
  <2>2. SrAgent \in Names BY <1>4
  <2>3. key(SrAgent, c.channel, scope(c)) = key(SrAgent, d.channel, scope(d)) => c.channel = d.channel /\ scope(c) = scope(d)
    BY <1>19, <1>20, <2>2
  <2>4. c.channel = d.channel /\ scope(c) = scope(d) => key(SrAgent, c.channel, scope(c)) = key(SrAgent, d.channel, scope(d))
    OBVIOUS
  <2>5. session_key(c) = session_key(d) <=> c.channel = d.channel /\ scope(c) = scope(d) BY <2>1, <2>3, <2>4
  <2> QED BY <1>17, <1>24, <2>5 DEF OneKey
<1>25. CASE c.channel = "console" /\ d.channel = "console"
  <2>1. session_key(c) = key(c.agent, web, control) /\ session_key(d) = key(d.agent, web, control)
    BY <1>21, <1>25
  <2>2. key(c.agent, web, control) = key(d.agent, web, control) => c.agent = d.agent
    BY <1>19, <1>20, <1>22
  <2>3. c.agent = d.agent => key(c.agent, web, control) = key(d.agent, web, control)
    OBVIOUS
  <2>4. session_key(c) = session_key(d) <=> c.agent = d.agent BY <2>1, <2>2, <2>3
  <2> QED BY <1>25, <2>4 DEF OneKey
<1>26. ASSUME NEW x \in SrConvs, NEW y \in SrConvs, x.channel = "console", y.channel # "console",
              scope(y) \in Seq(Names)
       PROVE  session_key(x) # session_key(y)
  <2>1. session_key(x) = key(x.agent, web, control) /\ session_key(y) = key(SrAgent, y.channel, scope(y))
    BY <1>21, <1>26
  <2>2. x.agent \in Names /\ y.channel \in Names BY <1>5
  <2>3. SrAgent \in Names BY <1>4
  <2>4. key(x.agent, web, control) = key(SrAgent, y.channel, scope(y)) =>
          web = y.channel /\ control = scope(y)
    BY <1>19, <1>22, <1>20, <1>26, <2>2, <2>3
  <2> QED BY <1>23, <1>26, <2>1, <2>4
<1>27. CASE (c.channel = "console") # (d.channel = "console")
  BY <1>19, <1>26, <1>27 DEF OneKey
<1> QED BY <1>24, <1>25, <1>27

\* A row holds what was said.
Holds(r, s) == r.key = session_key(s.conv) /\ r.n = s.n /\ r.role = s.role

\* The inductive invariant: the rows hold what was said and is to be kept, and nothing else,
\* under the keys of the conversations it was said in.
SrInv ==
  /\ srScope \in {"main", "per_peer", "per_channel_peer", "global"} /\ IsFiniteSet(DOMAIN srSess)
  /\ srPc # "idle" => srCur \in SrConvs
  /\ \A s \in srSaid : s.conv \in SrConvs
  /\ \A r \in srRows : \E s \in srSaid : Holds(r, s)
  /\ \A s \in srSaid : \E r \in srRows : Holds(r, s)

\* Removing the sessions of some keys forgets what was said under them.
LEMMA RemovalKeeps ==
  ASSUME SrInv, NEW keys, srScope' = srScope, srRows' = {r \in srRows : r.key \notin keys}, Forget(keys),
         IsFiniteSet(DOMAIN srSess'), UNCHANGED <<srPc, srCur>>
  PROVE  SrInv'
<1>1. \A r, s : Holds(r, s)' <=> Holds(r, s) BY DEF Holds, session_key
<1>2. srSaid' = {s \in srSaid : session_key(s.conv) \notin keys} BY DEF Forget
<1>3. \A r, s : Holds(r, s) => r.key = session_key(s.conv) BY DEF Holds
<1> QED BY <1>1, <1>2, <1>3 DEF SrInv

\* A session over the limit is one of more than SrMax of its agent.
LEMMA OverflowIsCrowded ==
  ASSUME NEW sess, IsFiniteSet(DOMAIN sess), NEW k \in Overflow(sess)
  PROVE  Cardinality({j \in DOMAIN sess : agent_of(j) = agent_of(k)}) > SrMax
<1> DEFINE last_used(j) == IF sess[j].last = 0 THEN sess[j].created ELSE sess[j].last
           agents == {j \in DOMAIN sess : agent_of(j) = agent_of(k)}
           recent == {j \in DOMAIN sess : agent_of(j) = agent_of(k) /\ last_used(j) >= last_used(k)}
<1>1. Cardinality(recent) > SrMax BY DEF Overflow
<1>2. IsFiniteSet(agents) /\ recent \subseteq agents BY FS_Subset
<1>3. Cardinality(recent) <= Cardinality(agents) /\ Cardinality(recent) \in Nat /\ Cardinality(agents) \in Nat
  BY <1>2, FS_Subset, FS_CardinalityType
<1>4. SrMax \in Nat BY SrConstants DEF SrConstants
<1> QED BY <1>1, <1>3, <1>4

\* Every step keeps the rows and what was said in step.
LEMMA SessionsKept == SrInv /\ [SrNext]_srVars => SrInv'
<1> SUFFICES ASSUME SrInv, [SrNext]_srVars PROVE SrInv' OBVIOUS
<1> USE DEF srTables, srTurn, srEnv
<1>1. srScope' = srScope => \A r, s : Holds(r, s)' <=> Holds(r, s) BY DEF Holds, session_key
<1>2. ASSUME srScope' = srScope, IsFiniteSet(DOMAIN srSess'), UNCHANGED <<srRows, srSaid>>,
             srPc' # "idle" => srCur' \in SrConvs
      PROVE  SrInv'
  BY <1>1, <1>2 DEF SrInv
<1>3. ASSUME NEW k, NEW e, sr_upsert(k, e) PROVE IsFiniteSet(DOMAIN srSess')
  <2>1. DOMAIN srSess' = DOMAIN srSess \cup {k} BY <1>3 DEF sr_upsert
  <2> QED BY <2>1, FS_AddElement DEF SrInv
<1>4. ASSUME NEW c \in SrConvs, SrTake(c) PROVE SrInv'
  BY <1>2, <1>4 DEF SrTake, SrInv
<1>5. CASE sr_ensure \/ sr_model \/ sr_read \/ deliver
  BY <1>2, <1>5 DEF sr_ensure, sr_model, sr_read, deliver, Step, Quit, SrInv
<1>6. CASE sr_create \/ usage_write \/ record_write
  <2>1. srPc # "idle" /\ UNCHANGED <<srRows, srSaid, srScope>> /\ (srPc' = "idle" \/ srCur' = srCur)
    BY <1>6 DEF sr_create, usage_write, record_write, Step, Quit
  <2>2. IsFiniteSet(DOMAIN srSess') BY <1>3, <1>6 DEF sr_create, usage_write, record_write
  <2> QED BY <1>2, <2>1, <2>2 DEF SrInv
<1>7. CASE append_date
  <2>1. DOMAIN srSess' = DOMAIN srSess BY <1>7 DEF append_date
  <2> QED BY <1>2, <1>7, <2>1 DEF append_date, Step, SrInv
<1>8. CASE append_insert /\ Exists(Key)
  <2> DEFINE r0 == [key |-> Key, n |-> srN, role |-> srPc, form |-> srKey]
             s0 == [conv |-> srCur, n |-> srN, role |-> srPc]
  <2>1. /\ srRows' = srRows \cup {r0} /\ srSaid' = srSaid \cup {s0} /\ srCur' = srCur /\ srPc # "idle"
        /\ UNCHANGED <<srSess, srScope>>
    BY <1>8 DEF append_insert, Step
  <2>2. Holds(r0, s0) /\ s0.conv = srCur BY DEF Holds, Key
  <2> HIDE DEF r0, s0
  <2> QED BY <1>1, <2>1, <2>2 DEF SrInv
<1>9. CASE append_insert /\ ~Exists(Key)
  BY <1>2, <1>9 DEF append_insert, Quit, SrInv
<1>10. ASSUME NEW k, reset(k) \/ sessions_delete(k) PROVE SrInv'
  <2>1. /\ srRows' = {r \in srRows : r.key \notin {k}} /\ Forget({k}) /\ UNCHANGED <<srPc, srCur, srScope>>
        /\ (srSess' = srSess \/ DOMAIN srSess' = DOMAIN srSess \ {k})
    BY <1>10 DEF reset, sessions_delete, sr_delete
  <2>2. IsFiniteSet(DOMAIN srSess') BY <2>1, FS_RemoveElement DEF SrInv
  <2> QED BY <2>1, <2>2, RemovalKeeps
<1>11. CASE Maintenance
  <2> DEFINE young == [k \in DOMAIN srSess \ Outdated |-> srSess[k]]
             gone == Outdated \cup Overflow(young)
             crowded(k) == Cardinality({j \in DOMAIN young : agent_of(j) = agent_of(k)}) > SrMax
  <2>1. sr_delete(gone) /\ Forget({k \in gone : k \in Outdated \/ crowded(k)}) /\ UNCHANGED <<srPc, srCur, srScope>>
    BY <1>11 DEF Maintenance
  <2>2. IsFiniteSet(DOMAIN young) /\ DOMAIN young = DOMAIN srSess \ Outdated
    BY FS_Subset DEF SrInv
  <2>3. \A k \in Overflow(young) : crowded(k)
    <3> HIDE DEF young
    <3> QED BY <2>2, OverflowIsCrowded
  <2>4. {k \in gone : k \in Outdated \/ crowded(k)} = gone BY <2>3
  <2>5. DOMAIN srSess' = DOMAIN srSess \ gone /\ srRows' = {r \in srRows : r.key \notin gone}
    BY <2>1 DEF sr_delete
  <2>6. Forget(gone) BY <2>1, <2>4
  <2> HIDE DEF gone
  <2>7. IsFiniteSet(DOMAIN srSess') BY <2>5, FS_Subset DEF SrInv
  <2> QED BY <2>1, <2>5, <2>6, <2>7, RemovalKeeps
<1>12. CASE SrTick \/ SrRestart
  BY <1>2, <1>12 DEF SrTick, SrRestart, Quit, SrInv
<1>13. CASE UNCHANGED srVars
  BY <1>2, <1>13 DEF srVars, SrInv
<1> QED BY <1>4, <1>5, <1>6, <1>7, <1>8, <1>9, <1>10, <1>11, <1>12, <1>13 DEF SrNext

\* For any conversations whose names are told apart, any limits and under every scoping: a
\* conversation finds in its session what was said in it and nothing said to another agent, and with
\* the scopings that separate peers exactly what its own peer said, whatever
\* operators, maintenance, restarts and writers of whole rows do in between (core/session.rs,
\* sessions/store.rs).
THEOREM HistoriesAreKept == SrSpec => []HistoryIsKept
<1>1. SrInit => SrInv
  <2> SUFFICES ASSUME SrInit PROVE SrInv OBVIOUS
  <2>1. DOMAIN srSess = {} BY DEF SrInit
  <2> QED BY <2>1, FS_EmptySet DEF SrInit, SrInv
<1>2. SrInv => HistoryIsKept
  <2> SUFFICES ASSUME SrInv, NEW c \in SrConvs
               PROVE  /\ SaidIn({c}) \subseteq Found(c)
                      /\ Found(c) \subseteq SaidIn({d \in SrConvs : AgentFor(d) = AgentFor(c)})
                      /\ srScope \in {"per_peer", "per_channel_peer"} =>
                           Found(c) = SaidIn({d \in SrConvs : OnePeer(d, c)})
    BY DEF HistoryIsKept
  <2>1. Found(c) = SaidIn({d \in SrConvs : OneKey(d, c)})
    <3>1. \A s \in srSaid : s.conv \in SrConvs /\ (session_key(s.conv) = session_key(c) <=> OneKey(s.conv, c))
      BY KeysTellApart DEF SrInv
    <3> QED BY <3>1 DEF SrInv, Holds, Found, SaidIn
  <2>2. OneKey(c, c) BY DEF OneKey
  <2>3. \A d \in SrConvs : OneKey(d, c) => AgentFor(d) = AgentFor(c) BY DEF OneKey, AgentFor
  <2>4. srScope \in {"per_peer", "per_channel_peer"} => \A d \in SrConvs : OneKey(d, c) <=> OnePeer(d, c)
    BY DEF OneKey, OnePeer
  <2>5. \A S, U : S \subseteq U => SaidIn(S) \subseteq SaidIn(U) BY DEF SaidIn
  <2>6. {c} \subseteq {d \in SrConvs : OneKey(d, c)} BY <2>2
  <2>7. {d \in SrConvs : OneKey(d, c)} \subseteq {d \in SrConvs : AgentFor(d) = AgentFor(c)} BY <2>3
  <2>8. srScope \in {"per_peer", "per_channel_peer"} =>
          {d \in SrConvs : OneKey(d, c)} = {d \in SrConvs : OnePeer(d, c)}
    BY <2>4
  <2> QED BY <2>1, <2>5, <2>6, <2>7, <2>8
<1> QED BY <1>1, <1>2, SessionsKept, PTL DEF SrSpec

----------------------------------------------------------------------------
(* Pairing. The theorem rests on what holds of all three copies of the      *)
(* state: the gateway's, the file's and the CLI's.                          *)

\* A copy holds only approvals that an operator gave.
Given == approved \subseteq granted /\ fileApproved \subseteq granted /\ cliApproved \subseteq granted

\* The inductive invariant of the gate.
GateInv == Given /\ OnlyGranted /\ verdict \in [Peers -> {"none", "queued", "asked", "error", "turn"}]

\* Every step keeps the gate's invariant.
LEMMA GateInductive == GateInv /\ [Next]_vars => GateInv'
<1> SUFFICES ASSUME GateInv, [Next]_vars PROVE GateInv' OBVIOUS
<1> USE DEF GateInv, Given, OnlyGranted
<1>1. CASE UNCHANGED vars BY <1>1 DEF vars, mem, file, cliVars
<1>2. CASE EndSave \/ SaveFails
  BY <1>2 DEF EndSave, SaveFails, Answer, mem, cliVars
<1>3. CASE CliTruncate \/ CliWrite BY <1>3 DEF CliTruncate, CliWrite, mem
<1>4. CASE Crash BY <1>4 DEF Crash, mem, file, cliVars
<1>5. CASE Restart BY <1>5 DEF Restart, file, cliVars
<1>6. ASSUME NEW p \in Peers, Arrive(p) PROVE GateInv'
  BY <1>6 DEF Arrive, mem, file, cliVars
<1>7. ASSUME NEW p \in Peers, Message(p) PROVE GateInv'
  <2>1. CASE Turn(p)
    BY <1>7, <2>1 DEF Message, Turn, SenderAllowed, IsApproved, mem, file, cliVars
  <2>2. CASE Ask(p) BY <1>7, <2>2 DEF Message, Ask, BeginSave, mem, file, cliVars
  <2> QED BY <1>7, <2>1, <2>2 DEF Message
<1>8. ASSUME NEW p \in Peers, HttpApprove(p) PROVE GateInv'
  BY <1>8 DEF HttpApprove, BeginSave, cliVars
<1>9. ASSUME NEW p \in Peers, CliOpen(p) PROVE GateInv'
  BY <1>9 DEF CliOpen, mem, file
<1> QED BY <1>1, <1>2, <1>3, <1>4, <1>5, <1>6, <1>7, <1>8, <1>9 DEF Next

\* Nobody starts a turn whom no operator approved for that account, whatever the
\* gateway and the CLI write over each other's file and whenever the gateway ends.
THEOREM NoTurnUnapproved == Spec => []OnlyGranted
<1>1. Init => GateInv BY DEF Init, GateInv, Given, OnlyGranted
<1>2. GateInv => OnlyGranted BY DEF GateInv
<1> QED BY <1>1, <1>2, GateInductive, PTL DEF Spec

=============================================================================
