-------------------------- MODULE GatewayChat_proofs --------------------------
(***************************************************************************)
(* Proofs about GatewayChat for any number of connections, runs, keys and  *)
(* calls and any queue sizes: what active_runs holds, that an approval     *)
(* that was announced can be resolved, and that only allowed calls run.    *)
(***************************************************************************)
EXTENDS GatewayChat, TLAPS

\* Approval ids, and the frames a client sends.
CallIds == Runs \X Nat
Frame == [op : Ops, arg : Runs \cup Keys \cup Sessions \cup CallIds, d : Decisions]

\* The types the proofs need.
GwTypeOK ==
  /\ inbox \in [Conns -> Seq(Frame)] /\ seen \in [Conns -> SUBSET CallIds]
  /\ pc \in [Runs -> {"idle", "round", "model", "tools", "wait", "done"}]
  /\ calls \in [Runs -> Nat]
  /\ active \in [Keys \cup Sessions -> Runs \cup {None}]
  /\ cancelled \subseteq Runs /\ clashed \subseteq Runs
  /\ askq \subseteq CallIds /\ pending \subseteq CallIds
  /\ decision \in [Runs -> Decisions \cup {"none"}]

\* An approval id a client knows: its call was made, and the run's task is done with it.
Announced(id) == id \in CallIds /\ id[2] <= calls[id[1]] /\ id \notin askq

\* What a frame on its way to the gateway is about.
FrameOK(c, f) ==
  /\ f.op = "send" => f.arg \in Runs /\ RunConn[f.arg] = c /\ pc[f.arg] = "idle"
  /\ f.op = "cancel" => f.arg \in Keys
  /\ f.op = "delete" => f.arg \in Sessions
  /\ f.op = "resolve" => Announced(f.arg)

\* The frames on their way; a chat.send is sent once.
GwInboxOK ==
  \A c \in Conns :
    /\ \A i \in 1..Len(inbox[c]) : FrameOK(c, inbox[c][i])
    /\ \A i, j \in 1..Len(inbox[c]) :
         inbox[c][i].op = "send" /\ inbox[c][j].op = "send" /\ inbox[c][i].arg = inbox[c][j].arg => i = j

\* The registry: sessions are no keys of it, a cancelled run has begun, and two runs under
\* way under one key have clashed.
GwRegistry ==
  /\ \A s \in Sessions : active[s] = None
  /\ \A r \in cancelled : pc[r] # "idle"
  /\ \A q, r \in Runs : q # r /\ Live(q) /\ Live(r) /\ RunKey[q] = RunKey[r] => q \in clashed
  /\ RegistryExact

\* The approvals: one that is asked for or pending is the one its run waits for, and a run
\* that waits without a decision has one; a decision other than a denial was for this call.
GwApprovals ==
  /\ \A id \in askq \cup pending : pc[id[1]] = "wait" /\ calls[id[1]] = id[2] /\ decision[id[1]] = "none"
  /\ \A r \in Runs : pc[r] = "wait" /\ decision[r] = "none" => <<r, calls[r]>> \in askq \cup pending
  /\ \A r \in Runs : decision[r] # "none" => pc[r] = "wait"
  /\ \A r \in Runs : decision[r] \notin {"none", "deny"} => <<r, calls[r]>> \in allowed
  /\ \A c \in Conns : \A id \in seen[c] : Announced(id)
  /\ OnlyAllowedCallsRun

\* The inductive invariant.
GwInv == GwTypeOK /\ GwInboxOK /\ GwRegistry /\ GwApprovals

\* What the gateway's constants are.
LEMMA Constants ==
  /\ \A r \in Runs : RunConn[r] \in Conns /\ RunKey[r] \in Keys
  /\ Keys \cap Sessions = {} /\ None \notin Runs
  BY GatewayConstants DEF GatewayConstants

\* Nothing of this changes when clients stall or leave, responses are sent and deltas flow.
Still == UNCHANGED <<inbox, seen, pc, calls, active, cancelled, clashed, askq, pending, decision, allowed, executed>>

LEMMA StillSteps ==
  /\ \A c \in Conns : ClientStalls(c) \/ ClientCloses(c) \/ SendResponse(c) \/ Disconnect(c) \/ Outbound(c) => Still
  /\ \A r \in Runs : ModelDelta(r) \/ ForwardDelta(r) => Still
  /\ UNCHANGED vars => Still
  BY DEF Still, ClientStalls, ClientCloses, SendResponse, Disconnect, Outbound, ModelDelta, ForwardDelta,
         vars, clientVars, connVars, runVars, regVars, apprVars

\* Reading takes the first frame out of the inbox.
LEMMA ReadsFirst ==
  ASSUME GwTypeOK, NEW c \in Conns, NEW op, Reads(c, op)
  PROVE  /\ Head(inbox[c]) = inbox[c][1] /\ 1 \in 1..Len(inbox[c]) /\ inbox[c][1] \in Frame /\ inbox[c][1].op = op
         /\ inbox' \in [Conns -> Seq(Frame)] /\ seen' = seen
         /\ \A b \in Conns \ {c} : inbox'[b] = inbox[b]
         /\ Len(inbox[c]) \in Nat /\ Len(inbox'[c]) = Len(inbox[c]) - 1
         /\ \A i \in 1..Len(inbox'[c]) : i + 1 \in 1..Len(inbox[c]) /\ inbox'[c][i] = inbox[c][i + 1]
<1>1. inbox[c] \in Seq(Frame) /\ inbox[c] # <<>> /\ inbox' = [inbox EXCEPT ![c] = Tail(inbox[c])]
      /\ seen' = seen /\ Head(inbox[c]).op = op
  BY DEF Reads, GwTypeOK
<1>2. /\ Tail(inbox[c]) \in Seq(Frame) /\ Len(inbox[c]) \in Nat \ {0} /\ Len(Tail(inbox[c])) = Len(inbox[c]) - 1
      /\ Head(inbox[c]) = inbox[c][1] /\ inbox[c][1] \in Frame
      /\ \A i \in 1..(Len(inbox[c]) - 1) : Tail(inbox[c])[i] = inbox[c][i + 1]
  BY <1>1
<1>3. inbox'[c] = Tail(inbox[c]) BY <1>1 DEF GwTypeOK
<1> QED BY <1>1, <1>2, <1>3 DEF GwTypeOK

\* What the ends of a run change.
LEMMA Finishes ==
  ASSUME GwTypeOK, NEW r \in Runs, NEW how, Finish(r, how)
  PROVE  /\ pc' = [pc EXCEPT ![r] = "done"] /\ active' = [active EXCEPT ![RunKey[r]] = None]
         /\ UNCHANGED <<cancelled, clashed, inbox, seen>>
  BY DEF Finish, clientVars

\* Every step keeps the types.
LEMMA GwTypes == GwInv /\ [Next]_vars => GwTypeOK'
<1> SUFFICES ASSUME GwTypeOK, GwInboxOK, [Next]_vars PROVE GwTypeOK'
  BY DEF GwInv
<1> USE Constants
<1>1. CASE Still BY <1>1 DEF Still, GwTypeOK
<1>2. ASSUME NEW c \in Conns, ClientSends(c) PROVE GwTypeOK'
  <2>1. PICK f \in Frames(c) : inbox' = [inbox EXCEPT ![c] = Append(inbox[c], f)] BY <1>2 DEF ClientSends
  <2>2. f \in Frame
    <3>1. seen[c] \subseteq CallIds BY DEF GwTypeOK
    <3> QED BY <3>1 DEF Frames, Frame, Ops, Decisions
  <2>3. inbox[c] \in Seq(Frame) BY DEF GwTypeOK
  <2>4. Append(inbox[c], f) \in Seq(Frame) BY <2>2, <2>3
  <2>5. UNCHANGED <<seen, pc, calls, active, cancelled, clashed, askq, pending, decision>>
    BY <1>2 DEF ClientSends, connVars, runVars, regVars, apprVars
  <2> QED BY <2>1, <2>4, <2>5 DEF GwTypeOK
<1>3. ASSUME NEW c \in Conns, Forbidden(c) PROVE GwTypeOK'
  <2>1. UNCHANGED <<pc, calls, active, cancelled, clashed, askq, pending, decision>>
    BY <1>3 DEF Forbidden, runVars, regVars, apprVars
  <2> QED BY <1>3, <2>1, ReadsFirst DEF Forbidden, GwTypeOK
<1>4. ASSUME NEW c \in Conns, ChatSend(c) PROVE GwTypeOK'
  <2>1. inbox' \in [Conns -> Seq(Frame)] /\ seen' = seen /\ Head(inbox[c]) = inbox[c][1]
        /\ FrameOK(c, inbox[c][1]) /\ inbox[c][1].op = "send"
    BY <1>4, ReadsFirst DEF ChatSend, GwInboxOK
  <2>2. inbox[c][1].arg \in Runs BY <2>1 DEF FrameOK
  <2>3. UNCHANGED <<calls, cancelled, askq, pending, decision>> BY <1>4 DEF ChatSend, apprVars
  <2>4. pc' \in [Runs -> {"idle", "round", "model", "tools", "wait", "done"}] BY <1>4, <2>1, <2>2 DEF ChatSend, GwTypeOK
  <2>5. active' \in [Keys \cup Sessions -> Runs \cup {None}] BY <1>4, <2>1, <2>2 DEF ChatSend, GwTypeOK
  <2>6. clashed' \subseteq Runs BY <1>4, <2>1, <2>2 DEF ChatSend, GwTypeOK
  <2> QED BY <2>1, <2>3, <2>4, <2>5, <2>6 DEF GwTypeOK
<1>5. ASSUME NEW c \in Conns, ChatCancel(c) \/ SessionsDelete(c) PROVE GwTypeOK'
  <2>1. PICK op \in {"cancel", "delete"} : Reads(c, op) /\ CancelKey(Head(inbox[c]).arg)
    BY <1>5 DEF ChatCancel, SessionsDelete
  <2>2. inbox' \in [Conns -> Seq(Frame)] /\ seen' = seen /\ Head(inbox[c]) = inbox[c][1]
        /\ FrameOK(c, inbox[c][1]) /\ inbox[c][1].op = op
    BY <2>1, ReadsFirst DEF GwInboxOK
  <2>3. inbox[c][1].arg \in Keys \cup Sessions BY <2>2 DEF FrameOK
  <2>4. UNCHANGED <<pc, calls, askq, pending, decision>> BY <1>5 DEF ChatCancel, SessionsDelete, runVars, apprVars
  <2>5. active' \in [Keys \cup Sessions -> Runs \cup {None}] /\ cancelled' \subseteq Runs /\ clashed' = clashed
    BY <2>1, <2>2, <2>3 DEF CancelKey, GwTypeOK
  <2> QED BY <2>2, <2>4, <2>5 DEF GwTypeOK
<1>6. ASSUME NEW c \in Conns, ToolApprovalResolve(c) PROVE GwTypeOK'
  <2>1. Reads(c, "resolve") /\ UNCHANGED <<pc, calls, active, cancelled, clashed>>
    BY <1>6 DEF ToolApprovalResolve, runVars, regVars
  <2>2. inbox' \in [Conns -> Seq(Frame)] /\ seen' = seen /\ Head(inbox[c]) = inbox[c][1] /\ inbox[c][1] \in Frame
    BY <2>1, ReadsFirst
  <2>3. askq' = askq /\ pending' \subseteq CallIds BY <1>6 DEF ToolApprovalResolve, apprVars, GwTypeOK
  <2>4. inbox[c][1].d \in Decisions BY <2>2 DEF Frame
  <2>5. decision' \in [Runs -> Decisions \cup {"none"}]
    BY <1>6, <2>2, <2>4 DEF ToolApprovalResolve, apprVars, GwTypeOK
  <2> QED BY <2>1, <2>2, <2>3, <2>5 DEF GwTypeOK
<1>7. ASSUME NEW r \in Runs, NEW how, Finish(r, how), UNCHANGED <<calls, apprVars>> PROVE GwTypeOK'
  <2>1. /\ pc' = [pc EXCEPT ![r] = "done"] /\ active' = [active EXCEPT ![RunKey[r]] = None]
        /\ UNCHANGED <<cancelled, clashed, inbox, seen, calls, askq, pending, decision>>
    BY <1>7, Finishes DEF apprVars
  <2> QED BY <2>1 DEF GwTypeOK
<1>8. ASSUME NEW r \in Runs, NEW w \in {"round", "model", "tools", "wait"}, pc' = [pc EXCEPT ![r] = w], Keeps(r),
             calls' \in [Runs -> Nat], askq' \subseteq CallIds, pending' \subseteq CallIds,
             decision' \in [Runs -> Decisions \cup {"none"}]
      PROVE  GwTypeOK'
  BY <1>8 DEF Keeps, clientVars, regVars, GwTypeOK
<1>9. calls \in [Runs -> Nat] /\ askq \subseteq CallIds /\ pending \subseteq CallIds
      /\ decision \in [Runs -> Decisions \cup {"none"}]
  BY DEF GwTypeOK
<1>10. ASSUME NEW r \in Runs, NEW n, NextCall(r, n)
       PROVE  \E w \in {"round", "tools"} : pc' = [pc EXCEPT ![r] = w]
  BY <1>10 DEF NextCall
<1>11. ASSUME NEW r \in Runs, StartRound(r) PROVE GwTypeOK'
  BY <1>7, <1>8, <1>9, <1>11 DEF StartRound, apprVars
<1>12. ASSUME NEW r \in Runs, ModelReturns(r) PROVE GwTypeOK'
  BY <1>7, <1>8, <1>9, <1>12 DEF ModelReturns, apprVars
<1>13. ASSUME NEW r \in Runs, ModelCancelled(r) PROVE GwTypeOK'
  BY <1>7, <1>13 DEF ModelCancelled
<1>14. ASSUME NEW r \in Runs, StartCall(r) PROVE GwTypeOK'
  <2>1. CASE Finish(r, "cancelled") /\ UNCHANGED <<calls, apprVars>> BY <1>7, <2>1
  <2>2. CASE calls' = [calls EXCEPT ![r] = @ + 1] /\ Keeps(r) /\ r \notin cancelled
    <3>1. calls' \in [Runs -> Nat] /\ <<r, calls'[r]>> \in CallIds BY <1>9, <2>2 DEF CallIds
    <3>2. \/ askq' = askq \cup {<<r, calls'[r]>>} /\ pc' = [pc EXCEPT ![r] = "wait"] /\ UNCHANGED <<pending, decision>>
          \/ (\E w \in {"round", "tools"} : pc' = [pc EXCEPT ![r] = w]) /\ UNCHANGED <<askq, pending, decision>>
      BY <1>10, <1>14, <2>2 DEF StartCall, Execute, Finish, apprVars, regVars, Keeps
    <3> QED BY <1>8, <1>9, <2>2, <3>1, <3>2
  <2> QED BY <1>14, <2>1, <2>2 DEF StartCall
<1>15. ASSUME NEW r \in Runs, Decided(r) PROVE GwTypeOK'
  <2>1. PICK w \in {"round", "tools"} : pc' = [pc EXCEPT ![r] = w] BY <1>10, <1>15 DEF Decided, Execute
  <2>2. decision' \in [Runs -> Decisions \cup {"none"}] BY <1>9, <1>15 DEF Decided
  <2> QED BY <1>8, <1>9, <1>15, <2>1, <2>2 DEF Decided
<1>16. ASSUME NEW id \in Ids, StoreApproval(id) PROVE GwTypeOK'
  BY <1>16 DEF StoreApproval, clientVars, connVars, runVars, regVars, GwTypeOK
<1>17. ASSUME NEW id \in Ids, AnnounceApproval(id) PROVE GwTypeOK'
  <2>1. id \in CallIds /\ askq' \subseteq CallIds BY <1>17 DEF AnnounceApproval, GwTypeOK
  <2>2. seen' \in [Conns -> SUBSET CallIds] BY <1>17, <2>1 DEF AnnounceApproval, GwTypeOK
  <2>3. UNCHANGED <<inbox, pending, decision, pc, calls, active, cancelled, clashed>>
    BY <1>17 DEF AnnounceApproval, runVars, regVars
  <2> QED BY <2>1, <2>2, <2>3 DEF GwTypeOK
<1> QED
  BY <1>1, <1>2, <1>3, <1>4, <1>5, <1>6, <1>11, <1>12, <1>13, <1>14, <1>15, <1>16, <1>17, StillSteps
  DEF Next, Client, Connection, Handler, Run, Provider, Approval

\* What each step of a run does to the calls and the approvals.
LEMMA RunSteps ==
  ASSUME GwTypeOK, NEW r \in Runs, StartRound(r) \/ ModelReturns(r) \/ ModelCancelled(r) \/ StartCall(r) \/ Decided(r)
  PROVE  /\ inbox' = inbox /\ seen' = seen /\ Live(r)
         /\ \/ Keeps(r) /\ \E w \in {"round", "model", "tools", "wait"} : pc' = [pc EXCEPT ![r] = w]
            \/ \E how \in {"ok", "error", "cancelled"} : Finish(r, how) /\ UNCHANGED <<calls, executed, apprVars>> /\ pc[r] # "wait"
<1> DEFINE G == /\ inbox' = inbox /\ seen' = seen /\ Live(r)
                /\ \/ Keeps(r) /\ \E w \in {"round", "model", "tools", "wait"} : pc' = [pc EXCEPT ![r] = w]
                   \/ \E how \in {"ok", "error", "cancelled"} : Finish(r, how) /\ UNCHANGED <<calls, executed, apprVars>> /\ pc[r] # "wait"
<1>1. ASSUME NEW how \in {"ok", "error", "cancelled"}, Finish(r, how), UNCHANGED <<calls, executed, apprVars>>,
             pc[r] \in {"round", "model", "tools"}
      PROVE  G
  BY <1>1 DEF Finish, clientVars, Live
<1>2. ASSUME NEW w \in {"round", "model", "tools", "wait"}, pc' = [pc EXCEPT ![r] = w], Keeps(r),
             pc[r] \in {"round", "model", "tools", "wait"}
      PROVE  G
  BY <1>2 DEF Keeps, clientVars, Live
<1> SUFFICES G BY DEF G
<1> HIDE DEF G
<1>3. ASSUME NEW n, NextCall(r, n) PROVE \E w \in {"round", "tools"} : pc' = [pc EXCEPT ![r] = w]
  BY <1>3 DEF NextCall
<1>4. CASE StartRound(r) BY <1>1, <1>2, <1>4 DEF StartRound
<1>5. CASE ModelReturns(r) BY <1>1, <1>2, <1>5 DEF ModelReturns
<1>6. CASE ModelCancelled(r) BY <1>1, <1>6 DEF ModelCancelled
<1>7. CASE StartCall(r)
  <2>1. CASE Finish(r, "cancelled") /\ UNCHANGED <<calls, executed, apprVars>> BY <1>1, <1>7, <2>1 DEF StartCall
  <2>2. CASE Keeps(r) /\ \E w \in {"round", "tools", "wait"} : pc' = [pc EXCEPT ![r] = w] BY <1>2, <1>7, <2>2 DEF StartCall
  <2> QED BY <1>3, <1>7, <2>1, <2>2 DEF StartCall, Execute
<1>8. CASE Decided(r)
  <2>1. \E w \in {"round", "tools"} : pc' = [pc EXCEPT ![r] = w] BY <1>3, <1>8 DEF Decided, Execute
  <2> QED BY <1>2, <1>8, <2>1 DEF Decided
<1> QED BY <1>4, <1>5, <1>6, <1>7, <1>8

\* A step that leaves the registry alone and starts or ends no run.
LEMMA RegistryAlone ==
  ASSUME GwTypeOK, GwRegistry, UNCHANGED <<active, cancelled, clashed>>,
         \A r \in Runs : (Live(r)' <=> Live(r)) /\ (pc'[r] = "idle" => pc[r] = "idle")
  PROVE  GwRegistry'
<1>1. RegistryExact' BY DEF GwRegistry, RegistryExact
<1> QED BY <1>1 DEF GwRegistry, GwTypeOK

\* Every step keeps the registry.
LEMMA RegistryKept == GwInv /\ [Next]_vars => GwRegistry'
<1> SUFFICES ASSUME GwTypeOK, GwInboxOK, GwRegistry, [Next]_vars PROVE GwRegistry'
  BY DEF GwInv
<1> USE Constants
<1>1. CASE UNCHANGED <<pc, active, cancelled, clashed>>
  <2>1. \A r \in Runs : (Live(r)' <=> Live(r)) BY <1>1 DEF Live
  <2> QED BY <1>1, <2>1, RegistryAlone
<1>2. ASSUME NEW c \in Conns, ChatSend(c) PROVE GwRegistry'
  <2>1. Head(inbox[c]) = inbox[c][1] /\ FrameOK(c, inbox[c][1]) /\ inbox[c][1].op = "send"
    BY <1>2, ReadsFirst DEF ChatSend, GwInboxOK
  <2>2. PICK r \in Runs : r = inbox[c][1].arg /\ pc[r] = "idle" BY <2>1 DEF FrameOK
  <2> DEFINE rivals == {q \in Runs : Live(q) /\ RunKey[q] = RunKey[r]}
  <2>3. /\ pc' = [pc EXCEPT ![r] = "round"] /\ active' = [active EXCEPT ![RunKey[r]] = r] /\ cancelled' = cancelled
        /\ clashed' = IF rivals = {} THEN clashed ELSE clashed \cup rivals \cup {r}
    BY <1>2, <2>1, <2>2 DEF ChatSend
  <2>4. pc'[r] = "round" /\ \A q \in Runs \ {r} : pc'[q] = pc[q] BY <2>2, <2>3 DEF GwTypeOK
  <2>5. Live(r)' /\ ~Live(r) /\ \A q \in Runs \ {r} : Live(q)' <=> Live(q) BY <2>2, <2>4 DEF Live
  <2>6. active'[RunKey[r]] = r /\ \A k \in (Keys \cup Sessions) \ {RunKey[r]} : active'[k] = active[k]
    BY <2>2, <2>3 DEF GwTypeOK
  <2>7. \A s \in Sessions : active'[s] = None BY <2>2, <2>6 DEF GwRegistry
  <2>8. r \notin cancelled /\ \A q \in cancelled' : pc'[q] # "idle" BY <2>2, <2>3, <2>4 DEF GwRegistry, GwTypeOK
  <2>9. ASSUME NEW q \in Runs, NEW p \in Runs, q # p, Live(q)', Live(p)', RunKey[q] = RunKey[p] PROVE q \in clashed'
    <3>1. CASE q = r BY <2>2, <2>3, <2>5, <2>9, <3>1
    <3>2. CASE p = r BY <2>2, <2>3, <2>5, <2>9, <3>2
    <3>3. CASE q # r /\ p # r BY <2>3, <2>5, <2>9, <3>3 DEF GwRegistry
    <3> QED BY <3>1, <3>2, <3>3
  <2>10. RegistryExact'
    <3> SUFFICES ASSUME NEW k \in Keys, NEW q \in Runs
                 PROVE  /\ active'[k] = q => RunKey[q] = k /\ Live(q)' /\ q \notin cancelled'
                        /\ RunKey[q] = k /\ Live(q)' /\ q \notin cancelled' /\ q \notin clashed' => active'[k] = q
      BY DEF RegistryExact
    <3>1. CASE k = RunKey[r]
      <4>1. ASSUME RunKey[q] = k, Live(q)', q \notin clashed' PROVE q = r BY <2>2, <2>5, <2>9, <3>1, <4>1
      <4> QED BY <2>2, <2>3, <2>5, <2>6, <2>8, <3>1, <4>1
    <3>2. CASE k # RunKey[r]
      <4>1. active'[k] = active[k] BY <2>6, <3>2
      <4>2. active[k] = q => RunKey[q] = k /\ Live(q) /\ q \notin cancelled BY DEF GwRegistry, RegistryExact
      <4>3. q # r => (RunKey[q] = k /\ Live(q) /\ q \notin cancelled /\ q \notin clashed => active[k] = q)
        BY DEF GwRegistry, RegistryExact
      <4>4. q \notin clashed' => q \notin clashed BY <2>3
      <4> QED BY <2>3, <2>5, <3>2, <4>1, <4>2, <4>3, <4>4
    <3> QED BY <3>1, <3>2
  <2> QED BY <2>7, <2>8, <2>9, <2>10 DEF GwRegistry
<1>3. ASSUME NEW c \in Conns, ChatCancel(c) \/ SessionsDelete(c) PROVE GwRegistry'
  <2> DEFINE k == inbox[c][1].arg
  <2>1. PICK op \in {"cancel", "delete"} : Reads(c, op) /\ CancelKey(Head(inbox[c]).arg) /\ pc' = pc
    BY <1>3 DEF ChatCancel, SessionsDelete, runVars
  <2>2. Head(inbox[c]) = inbox[c][1] /\ FrameOK(c, inbox[c][1]) /\ inbox[c][1].op = op
    BY <2>1, ReadsFirst DEF GwInboxOK
  <2>3. k \in Keys \cup Sessions BY <2>2 DEF FrameOK
  <2>4. active' = [active EXCEPT ![k] = None] /\ cancelled' = cancelled \cup ({active[k]} \ {None}) /\ clashed' = clashed
    BY <2>1, <2>2 DEF CancelKey
  <2> HIDE DEF k
  <2>5. active'[k] = None /\ \A j \in (Keys \cup Sessions) \ {k} : active'[j] = active[j] BY <2>3, <2>4 DEF GwTypeOK
  <2>6. \A r \in Runs : Live(r)' <=> Live(r) BY <2>1 DEF Live
  <2>7. \A r \in Runs : active[k] = r => k \in Keys /\ RunKey[r] = k /\ Live(r)
    BY <2>3 DEF GwRegistry, RegistryExact
  <2>8. \A r \in cancelled' : pc'[r] # "idle"
    <3>1. \A r \in cancelled' : r \in cancelled \/ (r \in Runs /\ active[k] = r) BY <2>3, <2>4 DEF GwTypeOK
    <3> QED BY <2>1, <2>7, <3>1 DEF GwRegistry, Live
  <2>9. RegistryExact'
    <3> SUFFICES ASSUME NEW j \in Keys, NEW r \in Runs
                 PROVE  /\ active'[j] = r => RunKey[r] = j /\ Live(r)' /\ r \notin cancelled'
                        /\ RunKey[r] = j /\ Live(r)' /\ r \notin cancelled' /\ r \notin clashed' => active'[j] = r
      BY DEF RegistryExact
    <3>1. /\ active[j] = r => RunKey[r] = j /\ Live(r) /\ r \notin cancelled
          /\ RunKey[r] = j /\ Live(r) /\ r \notin cancelled /\ r \notin clashed => active[j] = r
      BY DEF GwRegistry, RegistryExact
    <3>2. CASE j = k BY <2>4, <2>5, <2>6, <3>1, <3>2
    <3>3. CASE j # k BY <2>4, <2>5, <2>6, <2>7, <3>1, <3>3
    <3> QED BY <3>2, <3>3
  <2>10. \A s \in Sessions : active'[s] = None BY <2>5 DEF GwRegistry
  <2> QED BY <2>4, <2>6, <2>8, <2>9, <2>10 DEF GwRegistry
<1>4. ASSUME NEW r \in Runs, StartRound(r) \/ ModelReturns(r) \/ ModelCancelled(r) \/ StartCall(r) \/ Decided(r) PROVE GwRegistry'
  <2>1. Live(r) BY <1>4, RunSteps
  <2>2. ASSUME Keeps(r), NEW w \in {"round", "model", "tools", "wait"}, pc' = [pc EXCEPT ![r] = w] PROVE GwRegistry'
    <3>1. \A q \in Runs : (Live(q)' <=> Live(q)) /\ (pc'[q] = "idle" => pc[q] = "idle") BY <2>1, <2>2 DEF Live, GwTypeOK
    <3> QED BY <2>2, <3>1, RegistryAlone DEF Keeps, regVars
  <2>3. ASSUME NEW how, Finish(r, how) PROVE GwRegistry'
    <3>1. /\ pc' = [pc EXCEPT ![r] = "done"] /\ active' = [active EXCEPT ![RunKey[r]] = None]
          /\ UNCHANGED <<cancelled, clashed>>
      BY <2>3, Finishes
    <3>2. pc'[r] = "done" /\ \A q \in Runs \ {r} : pc'[q] = pc[q] BY <3>1 DEF GwTypeOK
    <3>3. ~Live(r)' /\ \A q \in Runs \ {r} : Live(q)' <=> Live(q) BY <3>2 DEF Live
    <3>4. active'[RunKey[r]] = None /\ \A k \in (Keys \cup Sessions) \ {RunKey[r]} : active'[k] = active[k]
      BY <3>1 DEF GwTypeOK
    <3>5. RegistryExact'
      <4> SUFFICES ASSUME NEW k \in Keys, NEW q \in Runs
                   PROVE  /\ active'[k] = q => RunKey[q] = k /\ Live(q)' /\ q \notin cancelled'
                          /\ RunKey[q] = k /\ Live(q)' /\ q \notin cancelled' /\ q \notin clashed' => active'[k] = q
        BY DEF RegistryExact
      <4>1. /\ active[k] = q => RunKey[q] = k /\ Live(q) /\ q \notin cancelled
            /\ RunKey[q] = k /\ Live(q) /\ q \notin cancelled /\ q \notin clashed => active[k] = q
        BY DEF GwRegistry, RegistryExact
      <4>2. q # r /\ Live(q) /\ RunKey[q] = RunKey[r] => q \in clashed BY <2>1 DEF GwRegistry
      <4> QED BY <3>1, <3>3, <3>4, <4>1, <4>2
    <3>6. \A s \in Sessions : active'[s] = None BY <3>4 DEF GwRegistry
    <3>7. \A q \in cancelled' : pc'[q] # "idle" BY <3>1, <3>2 DEF GwRegistry, GwTypeOK
    <3>8. \A q, p \in Runs : q # p /\ Live(q)' /\ Live(p)' /\ RunKey[q] = RunKey[p] => q \in clashed'
      BY <3>1, <3>3 DEF GwRegistry
    <3> QED BY <3>5, <3>6, <3>7, <3>8 DEF GwRegistry
  <2> QED BY <1>4, <2>2, <2>3, RunSteps
<1>5. ASSUME NEW c \in Conns, ClientSends(c) \/ Forbidden(c) \/ ToolApprovalResolve(c) PROVE GwRegistry'
  BY <1>1, <1>5 DEF ClientSends, Forbidden, ToolApprovalResolve, runVars, regVars
<1>6. ASSUME NEW id \in Ids, StoreApproval(id) \/ AnnounceApproval(id) PROVE GwRegistry'
  BY <1>1, <1>6 DEF StoreApproval, AnnounceApproval, runVars, regVars
<1>7. CASE Still BY <1>1, <1>7 DEF Still
<1> QED
  BY <1>2, <1>3, <1>4, <1>5, <1>6, <1>7, StillSteps DEF Next, Client, Connection, Handler, Run, Provider, Approval

\* An id once announced stays so: calls are numbered upwards, and only a new call is asked for.
LEMMA AnnouncedStays ==
  ASSUME GwTypeOK, [Next]_vars, NEW id, Announced(id)
  PROVE  Announced(id)'
<1>0. id \in CallIds /\ id[1] \in Runs /\ id[2] \in Nat /\ calls[id[1]] \in Nat BY DEF Announced, CallIds, GwTypeOK
<1>1. CASE calls' = calls /\ askq' \subseteq askq BY <1>1 DEF Announced
<1>2. ASSUME NEW r \in Runs, StartCall(r) PROVE Announced(id)'
  <2>1. CASE calls' = calls /\ askq' = askq BY <1>1, <2>1
  <2>2. CASE calls' = [calls EXCEPT ![r] = @ + 1] /\ askq' \subseteq askq \cup {<<r, calls'[r]>>}
    <3>1. calls'[r] = calls[r] + 1 /\ calls[r] \in Nat /\ \A q \in Runs \ {r} : calls'[q] = calls[q] BY <2>2 DEF GwTypeOK
    <3>2. id # <<r, calls'[r]>> BY <1>0, <3>1 DEF Announced
    <3>3. id[2] <= calls'[id[1]] BY <1>0, <3>1 DEF Announced
    <3> QED BY <1>0, <2>2, <3>2, <3>3 DEF Announced
  <2> QED BY <1>2, <2>1, <2>2 DEF StartCall, Execute, apprVars
<1>3. ASSUME NEW r \in Runs, StartRound(r) \/ ModelReturns(r) \/ ModelCancelled(r) \/ Decided(r) PROVE Announced(id)'
  BY <1>1, <1>3 DEF StartRound, ModelReturns, ModelCancelled, Decided, apprVars
<1>4. ASSUME NEW c \in Conns, ClientSends(c) \/ Forbidden(c) \/ ChatSend(c) \/ ChatCancel(c) \/ SessionsDelete(c) PROVE Announced(id)'
  BY <1>1, <1>4 DEF ClientSends, Forbidden, ChatSend, ChatCancel, SessionsDelete, runVars, apprVars
<1>5. ASSUME NEW c \in Conns, ToolApprovalResolve(c) PROVE Announced(id)'
  BY <1>1, <1>5 DEF ToolApprovalResolve, runVars, apprVars
<1>6. ASSUME NEW x \in Ids, StoreApproval(x) \/ AnnounceApproval(x) PROVE Announced(id)'
  BY <1>1, <1>6 DEF StoreApproval, AnnounceApproval, runVars
<1>7. CASE Still BY <1>1, <1>7 DEF Still
<1> QED
  BY <1>2, <1>3, <1>4, <1>5, <1>6, <1>7, StillSteps DEF Next, Client, Connection, Handler, Run, Provider, Approval

\* The inboxes after a step that takes frames out of one of them, if any, and starts no run
\* whose chat.send is still on its way.
LEMMA InboxShrinks ==
  ASSUME GwTypeOK, GwInboxOK, [Next]_vars, NEW c \in Conns,
         \A b \in Conns \ {c} : inbox'[b] = inbox[b],
         \/ inbox'[c] = inbox[c]
         \/ /\ Len(inbox[c]) \in Nat /\ Len(inbox'[c]) = Len(inbox[c]) - 1
            /\ \A i \in 1..Len(inbox'[c]) : i + 1 \in 1..Len(inbox[c]) /\ inbox'[c][i] = inbox[c][i + 1],
         \A b \in Conns : \A i \in 1..Len(inbox'[b]) :
           inbox'[b][i].op = "send" /\ pc[inbox'[b][i].arg] = "idle" => pc'[inbox'[b][i].arg] = "idle"
  PROVE  GwInboxOK'
<1>1. ASSUME NEW b \in Conns, NEW i \in 1..Len(inbox'[b]) PROVE \E j \in 1..Len(inbox[b]) : inbox'[b][i] = inbox[b][j]
  BY <1>1
<1>2. ASSUME NEW b \in Conns, NEW i \in 1..Len(inbox'[b]) PROVE FrameOK(b, inbox[b][i])'
  <2>1. PICK j \in 1..Len(inbox[b]) : inbox'[b][i] = inbox[b][j] BY <1>1
  <2>2. FrameOK(b, inbox[b][j]) BY DEF GwInboxOK
  <2> DEFINE f == inbox'[b][i]
  <2>3. f.op = "send" => f.arg \in Runs /\ RunConn[f.arg] = b /\ pc[f.arg] = "idle" BY <2>1, <2>2 DEF FrameOK
  <2>4. f.op = "cancel" => f.arg \in Keys BY <2>1, <2>2 DEF FrameOK
  <2>5. f.op = "delete" => f.arg \in Sessions BY <2>1, <2>2 DEF FrameOK
  <2>6. f.op = "resolve" => Announced(inbox[b][j].arg) /\ f.arg = inbox[b][j].arg BY <2>1, <2>2 DEF FrameOK
  <2>7. ASSUME NEW id, Announced(id) PROVE Announced(id)' BY <2>7, AnnouncedStays
  <2>8. f.op = "resolve" => /\ f.arg \in CallIds /\ f.arg[2] <= calls'[f.arg[1]] /\ f.arg \notin askq'
    BY <2>6, <2>7 DEF Announced
  <2>9. f.op = "send" => pc'[f.arg] = "idle" BY <1>2, <2>3
  <2> HIDE DEF f
  <2>10. /\ f.op = "send" => f.arg \in Runs /\ RunConn[f.arg] = b /\ pc'[f.arg] = "idle"
         /\ f.op = "cancel" => f.arg \in Keys
         /\ f.op = "delete" => f.arg \in Sessions
         /\ f.op = "resolve" => /\ f.arg \in CallIds /\ f.arg[2] <= calls'[f.arg[1]] /\ f.arg \notin askq'
    BY <2>3, <2>4, <2>5, <2>8, <2>9
  <2> QED BY <2>10 DEF FrameOK, Announced, f
<1>3. ASSUME NEW b \in Conns, NEW i \in 1..Len(inbox'[b]), NEW j \in 1..Len(inbox'[b]),
             inbox'[b][i].op = "send", inbox'[b][j].op = "send", inbox'[b][i].arg = inbox'[b][j].arg
      PROVE  i = j
  <2>1. CASE inbox'[b] = inbox[b] BY <1>3, <2>1 DEF GwInboxOK
  <2>2. CASE b = c /\ \A x \in 1..Len(inbox'[c]) : x + 1 \in 1..Len(inbox[c]) /\ inbox'[c][x] = inbox[c][x + 1]
    <3>0. /\ i + 1 \in 1..Len(inbox[c]) /\ inbox'[c][i] = inbox[c][i + 1]
          /\ j + 1 \in 1..Len(inbox[c]) /\ inbox'[c][j] = inbox[c][j + 1]
      BY <1>3, <2>2
    <3>3. PICK m \in 1..Len(inbox[c]), n \in 1..Len(inbox[c]) :
            m = i + 1 /\ n = j + 1 /\ inbox'[b][i] = inbox[b][m] /\ inbox'[b][j] = inbox[b][n]
      BY <2>2, <3>0
    <3>1. i + 1 = j + 1 BY <1>3, <2>2, <3>3 DEF GwInboxOK
    <3>2. i \in Nat /\ j \in Nat OBVIOUS
    <3> QED BY <3>1, <3>2
  <2> QED BY <2>1, <2>2
<1> QED BY <1>2, <1>3 DEF GwInboxOK

\* Every step keeps the frames on their way in order.
LEMMA InboxKept == GwInv /\ [Next]_vars => GwInboxOK'
<1> SUFFICES ASSUME GwTypeOK, GwInboxOK, GwApprovals, [Next]_vars PROVE GwInboxOK'
  BY DEF GwInv
<1> USE Constants
<1>0. ASSUME NEW c \in Conns, NEW i \in 1..Len(inbox[c]) PROVE inbox[c][i].op = "send" => inbox[c][i].arg \in Runs
  BY DEF GwInboxOK, FrameOK
<1>1. CASE inbox' = inbox /\ \A r \in Runs : pc[r] = "idle" => pc'[r] = "idle"
  <2>1. CASE Conns = {} BY <2>1 DEF GwInboxOK
  <2>2. ASSUME NEW c \in Conns PROVE GwInboxOK' BY <1>0, <1>1, InboxShrinks
  <2> QED BY <2>1, <2>2
<1>2. ASSUME NEW c \in Conns, ClientSends(c) PROVE GwInboxOK'
  <2>1. PICK f \in Frames(c) : /\ f.op = "send" => pc[f.arg] = "idle" /\ ~OnItsWay(c, f.arg)
                               /\ inbox' = [inbox EXCEPT ![c] = Append(inbox[c], f)]
    BY <1>2 DEF ClientSends
  <2>2. UNCHANGED <<pc, calls, askq>> BY <1>2 DEF ClientSends, runVars, apprVars
  <2>3. f \in Frame /\ FrameOK(c, f)
    <3>1. seen[c] \subseteq CallIds BY DEF GwTypeOK
    <3>2. f \in Frame BY <3>1 DEF Frames, Frame, Ops, Decisions
    <3>3. f.op = "send" => f.arg \in Runs /\ RunConn[f.arg] = c BY DEF Frames
    <3>4. f.op = "cancel" => f.arg \in Keys BY DEF Frames
    <3>5. f.op = "delete" => f.arg \in Sessions BY DEF Frames
    <3>6. f.op = "resolve" => f.arg \in seen[c] BY DEF Frames
    <3>7. f.op = "resolve" => Announced(f.arg) BY <3>6 DEF GwApprovals
    <3> QED BY <2>1, <3>2, <3>3, <3>4, <3>5, <3>7 DEF FrameOK
  <2>4. inbox[c] \in Seq(Frame) BY DEF GwTypeOK
  <2> DEFINE n == Len(inbox[c])
  <2>5. /\ n \in Nat /\ Len(Append(inbox[c], f)) = n + 1 /\ Append(inbox[c], f)[n + 1] = f
        /\ \A i \in 1..n : Append(inbox[c], f)[i] = inbox[c][i]
    BY <2>3, <2>4
  <2>6. inbox'[c] = Append(inbox[c], f) /\ \A b \in Conns \ {c} : inbox'[b] = inbox[b] BY <2>1 DEF GwTypeOK
  <2>7. Len(inbox'[c]) = n + 1 /\ inbox'[c][n + 1] = f /\ \A i \in 1..n : inbox'[c][i] = inbox[c][i] BY <2>5, <2>6
  <2> HIDE DEF n
  <2>9. ASSUME NEW b \in Conns, NEW i \in 1..Len(inbox'[b]) PROVE FrameOK(b, inbox'[b][i])
    <3>1. CASE b # c BY <2>6, <3>1 DEF GwInboxOK
    <3>2. CASE b = c /\ i = n + 1 BY <2>3, <2>7, <3>2
    <3>3. CASE b = c /\ i \in 1..n BY <2>7, <3>3 DEF GwInboxOK, n
    <3> QED BY <2>5, <2>7, <3>1, <3>2, <3>3
  <2>10. ASSUME NEW i \in 1..n, f.op = "send", inbox[c][i].op = "send" PROVE inbox[c][i].arg # f.arg
    <3>1. DOMAIN inbox[c] = 1..n BY <2>4 DEF n
    <3> QED BY <2>1, <2>10, <3>1 DEF OnItsWay
  <2>11. ASSUME NEW b \in Conns, NEW i \in 1..Len(inbox'[b]), NEW j \in 1..Len(inbox'[b]),
               inbox'[b][i].op = "send", inbox'[b][j].op = "send", inbox'[b][i].arg = inbox'[b][j].arg
        PROVE  i = j
    <3>1. CASE b # c BY <2>6, <2>11, <3>1 DEF GwInboxOK
    <3>2. CASE b = c /\ i \in 1..n /\ j \in 1..n BY <2>7, <2>11, <3>2 DEF GwInboxOK, n
    <3>3. CASE b = c /\ i = n + 1 /\ j \in 1..n BY <2>7, <2>10, <2>11, <3>3
    <3>4. CASE b = c /\ j = n + 1 /\ i \in 1..n BY <2>7, <2>10, <2>11, <3>4
    <3> QED BY <2>5, <2>7, <3>1, <3>2, <3>3, <3>4
  <2>12. \A b \in Conns : \A i \in 1..Len(inbox'[b]) : FrameOK(b, inbox[b][i])'
    <3> SUFFICES ASSUME NEW b \in Conns, NEW i \in 1..Len(inbox'[b]) PROVE FrameOK(b, inbox[b][i])'
      OBVIOUS
    <3>1. FrameOK(b, inbox'[b][i]) BY <2>9
    <3> DEFINE g == inbox'[b][i]
    <3>2. FrameOK(b, g) BY <3>1
    <3> HIDE DEF g
    <3>3. /\ g.op = "send" => g.arg \in Runs /\ RunConn[g.arg] = b /\ pc'[g.arg] = "idle"
          /\ g.op = "cancel" => g.arg \in Keys
          /\ g.op = "delete" => g.arg \in Sessions
          /\ g.op = "resolve" => /\ g.arg \in CallIds /\ g.arg[2] <= calls'[g.arg[1]] /\ g.arg \notin askq'
      BY <2>2, <3>2 DEF FrameOK, Announced
    <3> QED BY <3>3 DEF FrameOK, Announced, g
  <2> QED BY <2>11, <2>12 DEF GwInboxOK
<1>3. ASSUME NEW c \in Conns, NEW op \in Ops, Reads(c, op), UNCHANGED pc PROVE GwInboxOK'
  BY <1>3, ReadsFirst, InboxShrinks
<1>4. ASSUME NEW c \in Conns, Forbidden(c) \/ ChatCancel(c) \/ SessionsDelete(c) \/ ToolApprovalResolve(c) PROVE GwInboxOK'
  BY <1>3, <1>4 DEF Forbidden, ChatCancel, SessionsDelete, ToolApprovalResolve, runVars, Ops
<1>5. ASSUME NEW c \in Conns, ChatSend(c) PROVE GwInboxOK'
  <2>1. /\ Head(inbox[c]) = inbox[c][1] /\ FrameOK(c, inbox[c][1]) /\ inbox[c][1].op = "send" /\ 1 \in 1..Len(inbox[c])
        /\ \A b \in Conns \ {c} : inbox'[b] = inbox[b]
        /\ Len(inbox[c]) \in Nat /\ Len(inbox'[c]) = Len(inbox[c]) - 1
        /\ \A i \in 1..Len(inbox'[c]) : i + 1 \in 1..Len(inbox[c]) /\ inbox'[c][i] = inbox[c][i + 1]
    BY <1>5, ReadsFirst DEF ChatSend, GwInboxOK
  <2>2. PICK r \in Runs : r = inbox[c][1].arg /\ RunConn[r] = c BY <2>1 DEF FrameOK
  <2>3. \A q \in Runs \ {r} : pc'[q] = pc[q] BY <1>5, <2>1, <2>2 DEF ChatSend, GwTypeOK
  <2>4. ASSUME NEW b \in Conns, NEW i \in 1..Len(inbox'[b]), inbox'[b][i].op = "send"
        PROVE  inbox'[b][i].arg \in Runs \ {r}
    <3>1. CASE b # c
      <4>1. FrameOK(b, inbox[b][i]) /\ inbox[b][i] = inbox'[b][i] BY <2>1, <2>4, <3>1 DEF GwInboxOK
      <4> QED BY <2>2, <2>4, <3>1, <4>1 DEF FrameOK
    <3>2. CASE b = c
      <4>1. i + 1 \in 1..Len(inbox[c]) /\ inbox'[c][i] = inbox[c][i + 1] /\ i + 1 # 1 BY <2>1, <2>4, <3>2
      <4>2. FrameOK(c, inbox[c][i + 1]) /\ inbox[c][i + 1].arg # inbox[c][1].arg BY <2>1, <2>4, <3>2, <4>1 DEF GwInboxOK
      <4> QED BY <2>2, <2>4, <3>2, <4>1, <4>2 DEF FrameOK
    <3> QED BY <3>1, <3>2
  <2> QED BY <2>1, <2>3, <2>4, InboxShrinks
<1>6. ASSUME NEW r \in Runs, StartRound(r) \/ ModelReturns(r) \/ ModelCancelled(r) \/ StartCall(r) \/ Decided(r) PROVE GwInboxOK'
  <2>1. inbox' = inbox /\ Live(r) BY <1>6, RunSteps
  <2>2. \E w : pc' = [pc EXCEPT ![r] = w] BY <1>6, RunSteps, Finishes
  <2>3. \A q \in Runs : pc[q] = "idle" => pc'[q] = "idle" BY <2>1, <2>2 DEF Live, GwTypeOK
  <2> QED BY <1>1, <2>1, <2>3
<1>7. ASSUME NEW id \in Ids, StoreApproval(id) \/ AnnounceApproval(id) PROVE GwInboxOK'
  BY <1>1, <1>7 DEF StoreApproval, AnnounceApproval, clientVars, runVars
<1>8. CASE Still BY <1>1, <1>8 DEF Still
<1> QED
  BY <1>2, <1>4, <1>5, <1>6, <1>7, <1>8, StillSteps DEF Next, Client, Connection, Handler, Run, Provider, Approval

\* Every step keeps the approvals in order: a sender leaves pending_approvals only for a
\* decision, and a decision is taken out before the next call starts.
LEMMA ApprovalsKept == GwInv /\ [Next]_vars => GwApprovals'
<1> SUFFICES ASSUME GwTypeOK, GwInboxOK, GwApprovals, [Next]_vars PROVE GwApprovals'
  BY DEF GwInv
<1> USE Constants
<1> DEFINE A1 == \A id \in askq \cup pending : pc[id[1]] = "wait" /\ calls[id[1]] = id[2] /\ decision[id[1]] = "none"
           A2 == \A r \in Runs : pc[r] = "wait" /\ decision[r] = "none" => <<r, calls[r]>> \in askq \cup pending
           A3 == \A r \in Runs : decision[r] # "none" => pc[r] = "wait"
           A4 == \A r \in Runs : decision[r] \notin {"none", "deny"} => <<r, calls[r]>> \in allowed
           A5 == \A c \in Conns : \A id \in seen[c] : Announced(id)
<1>0. A1 /\ A2 /\ A3 /\ A4 /\ A5 /\ OnlyAllowedCallsRun BY DEF GwApprovals
<1>c. \A id \in askq \cup pending : id \in CallIds /\ id[1] \in Runs /\ id[2] \in Nat /\ id = <<id[1], id[2]>>
  BY DEF GwTypeOK, CallIds
<1>a. ASSUME seen' = seen PROVE A5'
  <2>1. ASSUME NEW id, Announced(id) PROVE Announced(id)' BY <2>1, AnnouncedStays
  <2> QED BY <1>0, <1>a, <2>1
<1>q. ASSUME A1', A2', A3', A4', A5', OnlyAllowedCallsRun' PROVE GwApprovals' BY <1>q DEF GwApprovals
<1> HIDE DEF A5
<1>1. CASE UNCHANGED <<pc, calls, seen, askq, pending, decision, allowed, executed>>
  BY <1>0, <1>1, <1>a, <1>q DEF OnlyAllowedCallsRun
<1>2. ASSUME NEW c \in Conns, ChatSend(c) PROVE GwApprovals'
  <2>1. Head(inbox[c]) = inbox[c][1] /\ FrameOK(c, inbox[c][1]) /\ inbox[c][1].op = "send" /\ seen' = seen
    BY <1>2, ReadsFirst DEF ChatSend, GwInboxOK
  <2>2. PICK r \in Runs : r = inbox[c][1].arg /\ pc[r] = "idle" BY <2>1 DEF FrameOK
  <2>3. pc' = [pc EXCEPT ![r] = "round"] /\ UNCHANGED <<calls, askq, pending, decision, allowed, executed>>
    BY <1>2, <2>1, <2>2 DEF ChatSend, apprVars
  <2>4. pc'[r] = "round" /\ \A q \in Runs \ {r} : pc'[q] = pc[q] BY <2>3 DEF GwTypeOK
  <2>5. A1' BY <1>0, <1>c, <2>2, <2>3, <2>4
  <2>6. A2' BY <1>0, <2>3, <2>4
  <2>7. A3' BY <1>0, <2>2, <2>3, <2>4
  <2> QED BY <1>0, <1>a, <1>q, <2>1, <2>3, <2>5, <2>6, <2>7 DEF OnlyAllowedCallsRun
<1>3. ASSUME NEW c \in Conns, ToolApprovalResolve(c) PROVE GwApprovals'
  <2>1. Reads(c, "resolve") /\ UNCHANGED <<pc, calls, executed>> BY <1>3 DEF ToolApprovalResolve, runVars
  <2>2. Head(inbox[c]) = inbox[c][1] /\ FrameOK(c, inbox[c][1]) /\ inbox[c][1].op = "resolve" /\ seen' = seen
        /\ inbox[c][1] \in Frame
    BY <2>1, ReadsFirst DEF GwInboxOK
  <2>3. Announced(inbox[c][1].arg) BY <2>2 DEF FrameOK
  <2>4. PICK id \in CallIds, d \in Decisions : id = inbox[c][1].arg /\ d = inbox[c][1].d /\ id \notin askq
    BY <2>2, <2>3 DEF Announced, Frame
  <2>5. CASE id \notin pending
    <3>1. UNCHANGED <<askq, pending, decision, allowed>> BY <1>3, <2>2, <2>4, <2>5 DEF ToolApprovalResolve, apprVars
    <3> QED BY <1>1, <2>1, <2>2, <3>1
  <2>6. CASE id \in pending
    <3>1. /\ pending' = pending \ {id} /\ decision' = [decision EXCEPT ![id[1]] = d] /\ askq' = askq
          /\ allowed' = IF d = "deny" THEN allowed ELSE allowed \cup {id}
      BY <1>3, <2>2, <2>4, <2>6 DEF ToolApprovalResolve
    <3>2. id[1] \in Runs /\ id = <<id[1], calls[id[1]]>> /\ pc[id[1]] = "wait" BY <1>0, <1>c, <2>6
    <3>3. decision'[id[1]] = d /\ d # "none" /\ \A r \in Runs \ {id[1]} : decision'[r] = decision[r]
      BY <3>1, <3>2 DEF GwTypeOK, Decisions
    <3>4. A1'
      <4> SUFFICES ASSUME NEW x \in askq \cup (pending \ {id})
                   PROVE  pc[x[1]] = "wait" /\ calls[x[1]] = x[2] /\ decision'[x[1]] = "none"
        BY <2>1, <3>1
      <4>1. x[1] # id[1] BY <1>0, <1>c, <2>4, <3>2
      <4> QED BY <1>0, <1>c, <3>3, <4>1
    <3>5. A2'
      <4> SUFFICES ASSUME NEW r \in Runs, pc[r] = "wait", decision'[r] = "none" PROVE <<r, calls[r]>> \in askq \cup (pending \ {id})
        BY <2>1, <3>1
      <4>1. r # id[1] BY <3>3
      <4> QED BY <1>0, <3>2, <3>3, <4>1
    <3>6. A3' BY <1>0, <2>1, <3>2, <3>3
    <3>7. A4' BY <1>0, <2>1, <3>1, <3>2, <3>3
    <3>8. OnlyAllowedCallsRun' BY <1>0, <2>1, <3>1 DEF OnlyAllowedCallsRun
    <3> QED BY <1>a, <1>q, <2>2, <3>4, <3>5, <3>6, <3>7, <3>8
  <2> QED BY <2>5, <2>6
\* A run that neither waits nor will wait.
<1>4. ASSUME NEW r \in Runs, NEW w \in {"round", "model", "tools", "done"}, pc' = [pc EXCEPT ![r] = w], pc[r] # "wait",
             UNCHANGED <<seen, calls, askq, pending, decision, allowed, executed>>
      PROVE  GwApprovals'
  <2>1. pc'[r] = w /\ \A q \in Runs \ {r} : pc'[q] = pc[q] BY <1>4 DEF GwTypeOK
  <2>2. A1' BY <1>0, <1>c, <1>4, <2>1
  <2>3. A2' BY <1>0, <1>4, <2>1
  <2>4. A3' BY <1>0, <1>4, <2>1
  <2> QED BY <1>0, <1>a, <1>q, <1>4, <2>2, <2>3, <2>4 DEF OnlyAllowedCallsRun
<1>5. ASSUME NEW r \in Runs, StartRound(r) \/ ModelReturns(r) \/ ModelCancelled(r) PROVE GwApprovals'
  <2>1. pc[r] # "wait" /\ UNCHANGED <<seen, calls, askq, pending, decision, allowed, executed>>
    BY <1>5, RunSteps DEF StartRound, ModelReturns, ModelCancelled, apprVars
  <2>2. \E w \in {"round", "model", "tools", "done"} : pc' = [pc EXCEPT ![r] = w]
    BY <1>5 DEF StartRound, ModelReturns, ModelCancelled, Finish
  <2> QED BY <1>4, <2>1, <2>2
<1>6. ASSUME NEW r \in Runs, StartCall(r) PROVE GwApprovals'
  <2>0. pc[r] = "tools" /\ seen' = seen BY <1>6, RunSteps DEF StartCall
  <2>1. CASE Finish(r, "cancelled") /\ UNCHANGED <<calls, executed, apprVars>>
    BY <1>4, <2>0, <2>1, Finishes DEF apprVars
  <2>2. CASE calls' = [calls EXCEPT ![r] = @ + 1]
    <3>1. calls'[r] = calls[r] + 1 /\ calls[r] \in Nat /\ \A q \in Runs \ {r} : calls'[q] = calls[q]
      BY <2>2 DEF GwTypeOK
    <3>2. decision[r] = "none" /\ \A id \in askq \cup pending : id[1] # r BY <1>0, <1>c, <2>0 DEF GwTypeOK
    <3>3. CASE /\ askq' = askq \cup {<<r, calls'[r]>>} /\ pc' = [pc EXCEPT ![r] = "wait"]
               /\ UNCHANGED <<executed, pending, decision, allowed>>
      <4>1. pc'[r] = "wait" /\ \A q \in Runs \ {r} : pc'[q] = pc[q] BY <3>3 DEF GwTypeOK
      <4>2. A1' BY <1>0, <1>c, <3>1, <3>2, <3>3, <4>1
      <4>3. A2' BY <1>0, <3>1, <3>3, <4>1
      <4>4. A3' BY <1>0, <3>3, <4>1
      <4>5. A4' BY <1>0, <3>1, <3>2, <3>3
      <4> QED BY <1>0, <1>a, <1>q, <2>0, <3>3, <4>2, <4>3, <4>4, <4>5 DEF OnlyAllowedCallsRun
    <3>4. ASSUME NEW w \in {"round", "tools"}, pc' = [pc EXCEPT ![r] = w], UNCHANGED <<askq, pending, decision, allowed>>,
                 executed' = executed \cup {<<r, calls'[r], FALSE>>}
          PROVE  GwApprovals'
      <4>1. pc'[r] = w /\ \A q \in Runs \ {r} : pc'[q] = pc[q] BY <3>4 DEF GwTypeOK
      <4>2. A1' BY <1>0, <1>c, <3>1, <3>2, <3>4, <4>1
      <4>3. A2' BY <1>0, <3>1, <3>4, <4>1
      <4>4. A3' BY <1>0, <3>2, <3>4, <4>1
      <4>5. A4' BY <1>0, <3>1, <3>2, <3>4
      <4>6. OnlyAllowedCallsRun'
        <5> SUFFICES ASSUME NEW e \in executed', e[3] PROVE <<e[1], e[2]>> \in allowed
          BY <3>4 DEF OnlyAllowedCallsRun
        <5>1. <<r, calls'[r], FALSE>>[3] = FALSE OBVIOUS
        <5>2. e # <<r, calls'[r], FALSE>> BY <5>1
        <5> QED BY <1>0, <3>4, <5>2 DEF OnlyAllowedCallsRun
      <4> QED BY <1>a, <1>q, <2>0, <4>2, <4>3, <4>4, <4>5, <4>6
    <3>5. \/ /\ askq' = askq \cup {<<r, calls'[r]>>} /\ pc' = [pc EXCEPT ![r] = "wait"]
             /\ UNCHANGED <<executed, pending, decision, allowed>>
          \/ /\ \E w \in {"round", "tools"} : pc' = [pc EXCEPT ![r] = w]
             /\ UNCHANGED <<askq, pending, decision, allowed>> /\ executed' = executed \cup {<<r, calls'[r], FALSE>>}
      <4>1. calls' # calls BY <3>1
      <4> QED BY <1>6, <4>1 DEF StartCall, Execute, NextCall, apprVars
    <3> QED BY <3>3, <3>4, <3>5
  <2> QED BY <1>6, <2>1, <2>2 DEF StartCall
<1>7. ASSUME NEW r \in Runs, Decided(r) PROVE GwApprovals'
  <2>1. /\ pc[r] = "wait" /\ decision[r] # "none" /\ decision' = [decision EXCEPT ![r] = "none"]
        /\ UNCHANGED <<seen, calls, askq, pending, allowed>>
    BY <1>7 DEF Decided, Keeps, clientVars
  <2>2. PICK w \in {"round", "tools"} : pc' = [pc EXCEPT ![r] = w] BY <1>7 DEF Decided, Execute, NextCall
  <2>3. pc'[r] = w /\ \A q \in Runs \ {r} : pc'[q] = pc[q] BY <2>2 DEF GwTypeOK
  <2>4. decision'[r] = "none" /\ \A q \in Runs \ {r} : decision'[q] = decision[q] BY <2>1 DEF GwTypeOK
  <2>5. A1' BY <1>0, <1>c, <2>1, <2>3, <2>4
  <2>6. A2' BY <1>0, <2>1, <2>3, <2>4
  <2>7. A3' BY <1>0, <2>3, <2>4
  <2>8. A4' BY <1>0, <2>1, <2>4
  <2>9. \/ executed' = executed
        \/ executed' = executed \cup {<<r, calls[r], TRUE>>} /\ decision[r] # "deny"
    BY <1>7 DEF Decided, Execute
  <2>10. OnlyAllowedCallsRun'
    <3> SUFFICES ASSUME NEW e \in executed', e[3] PROVE <<e[1], e[2]>> \in allowed
      BY <2>1 DEF OnlyAllowedCallsRun
    <3>1. CASE e \in executed BY <1>0, <3>1 DEF OnlyAllowedCallsRun
    <3>2. CASE e = <<r, calls[r], TRUE>> /\ decision[r] # "deny"
      <4>1. e[1] = r /\ e[2] = calls[r] BY <3>2
      <4> QED BY <1>0, <2>1, <3>2, <4>1
    <3> QED BY <2>9, <3>1, <3>2
  <2> QED BY <1>a, <1>q, <2>1, <2>5, <2>6, <2>7, <2>8, <2>10
<1>8. ASSUME NEW x \in Ids, StoreApproval(x) PROVE GwApprovals'
  <2>1. x \in askq /\ pending' = pending \cup {x} /\ UNCHANGED <<seen, pc, calls, askq, decision, allowed, executed>>
    BY <1>8 DEF StoreApproval, clientVars, runVars
  <2>2. A1' /\ A2' BY <1>0, <2>1
  <2> QED BY <1>0, <1>a, <1>q, <2>1, <2>2 DEF OnlyAllowedCallsRun
<1>9. ASSUME NEW x \in Ids, AnnounceApproval(x) PROVE GwApprovals'
  <2>1. /\ x \in askq /\ x \in pending /\ askq' = askq \ {x}
        /\ UNCHANGED <<pc, calls, pending, decision, allowed, executed>>
        /\ seen' = [c \in Conns |-> IF out[c] /\ sock[c] = "open" THEN seen[c] \cup {x} ELSE seen[c]]
    BY <1>9 DEF AnnounceApproval, runVars
  <2>2. A1' /\ A2' BY <1>0, <2>1
  <2>3. ASSUME NEW id, Announced(id) PROVE Announced(id)' BY <2>3, AnnouncedStays
  <2>4. x[2] <= calls[x[1]] BY <1>0, <1>c, <2>1
  <2>5. Announced(x)' BY <1>c, <2>1, <2>4 DEF Announced
  <2>6. A5' BY <1>0, <2>1, <2>3, <2>5 DEF A5
  <2> QED BY <1>0, <1>q, <2>1, <2>2, <2>6 DEF OnlyAllowedCallsRun
<1>10. ASSUME NEW c \in Conns, ClientSends(c) \/ Forbidden(c) \/ ChatCancel(c) \/ SessionsDelete(c) PROVE GwApprovals'
  BY <1>1, <1>10 DEF ClientSends, Forbidden, ChatCancel, SessionsDelete, Reads, runVars, apprVars
<1>11. CASE Still BY <1>1, <1>11 DEF Still
<1> QED
  BY <1>2, <1>3, <1>5, <1>6, <1>7, <1>8, <1>9, <1>10, <1>11, StillSteps
  DEF Next, Client, Connection, Handler, Run, Provider, Approval

\* The gateway starts with nothing registered, asked for or on its way.
LEMMA StartsInOrder == Init => GwInv
<1> SUFFICES ASSUME Init PROVE GwInv OBVIOUS
<1> USE Constants
<1>1. GwTypeOK BY DEF Init, GwTypeOK
<1>2. GwInboxOK BY DEF Init, GwInboxOK
<1>3. GwRegistry BY DEF Init, GwRegistry, RegistryExact, Live
<1>4. GwApprovals BY DEF Init, GwApprovals, OnlyAllowedCallsRun
<1> QED BY <1>1, <1>2, <1>3, <1>4 DEF GwInv

\* Every reachable state of the gateway is in order.
LEMMA GatewayInOrder == Spec => []GwInv
<1>1. GwInv /\ [Next]_vars => GwInv' BY GwTypes, InboxKept, RegistryKept, ApprovalsKept DEF GwInv
<1> QED BY <1>1, StartsInOrder, PTL DEF Spec

\* active_runs for any clients and request ids: an entry is that of a run that is under way
\* under this id and was not cancelled, and such a run is found there unless another one
\* under way at the same time had its id.
THEOREM RunsAreFound == Spec => []RegistryExact
<1>1. GwInv => RegistryExact BY DEF GwInv, GwRegistry
<1> QED BY <1>1, GatewayInOrder, PTL

\* An approval a client was told of, whose run waits without a decision, is in
\* pending_approvals, in whatever order tasks, frames and broadcasts interleave.
THEOREM AnnouncedCanBeAnswered == Spec => []AnnouncedIsResolvable
<1>1. ASSUME GwInv PROVE AnnouncedIsResolvable
  <2> SUFFICES ASSUME NEW c \in Conns, NEW id \in seen[c], pc[id[1]] = "wait", calls[id[1]] = id[2], decision[id[1]] = "none"
               PROVE  id \in pending
    BY DEF AnnouncedIsResolvable
  <2>1. id \in CallIds /\ id \notin askq BY <1>1 DEF GwInv, GwApprovals, Announced
  <2>2. id[1] \in Runs /\ id = <<id[1], calls[id[1]]>> BY <2>1 DEF CallIds
  <2>3. <<id[1], calls[id[1]]>> \in askq \cup pending BY <1>1, <2>2 DEF GwInv, GwApprovals
  <2> QED BY <2>1, <2>2, <2>3
<1> QED BY <1>1, GatewayInOrder, PTL

\* No call that needs approval runs unless a client allowed that very call.
THEOREM RiskyCallsWereAllowed == Spec => []OnlyAllowedCallsRun
<1>1. GwInv => OnlyAllowedCallsRun BY DEF GwInv, GwApprovals
<1> QED BY <1>1, GatewayInOrder, PTL
=============================================================================
