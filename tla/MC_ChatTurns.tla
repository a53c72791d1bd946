---------------------------- MODULE MC_ChatTurns ----------------------------
(* Two turns on one session, one of them a WebSocket client's. A behaviour follows one of *)
(* two plans, which restrict the model, the operators and SQLite, never the turns:        *)
(* "loop", the whole tool loop without operators; "operators", turns without tool calls   *)
(* beside the operators that empty, patch, delete or compact the session.                 *)
EXTENDS ChatTurns

CONSTANTS t1, t2, comp
MCTurns == {t1, t2}
MCFirst == {t1}
MCOperators == {"reset", "delete", "patch", "compact"}

VARIABLE plan
mcVars == <<vars, plan>>

\* What a plan leaves out: operators; or calls of tools, cancellation and failures of
\* SQLite (an append fails only for want of the session).
Planned ==
  IF plan = "loop" THEN UNCHANGED operatorVars
  ELSE /\ UNCHANGED <<size, cancelled>>
       /\ \A t \in Turns : pc[t] \in Appending /\ pc'[t] = "err" => ~exists

MCInit == Init /\ plan \in {"loop", "operators"}
MCNext == Next /\ Planned /\ UNCHANGED plan
MCSpec ==
  /\ MCInit /\ [][MCNext]_mcVars
  /\ \A t \in Turns : WF_mcVars(TurnStep(t) /\ Planned /\ UNCHANGED plan)
=============================================================================
