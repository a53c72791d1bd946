--------------------------- MODULE MC_GatewayChat ---------------------------
(* Connections: c1 chats, c2 is a second console that may chat, cancel, delete *)
(* and decide. A behaviour follows one of three plans: a run whose deltas may  *)
(* stall and that is cancelled, a run that asks for approvals, a run on each   *)
(* connection, both under the first id a console uses. What a plan leaves out  *)
(* is the clients' and the model's choice.                                     *)
EXTENDS GatewayChat, TLC

CONSTANTS c1, c2, r1, r2, k1, k2, s1

MCRunConn == r1 :> c1 @@ r2 :> c2
MCRunKey == r1 :> k1 @@ r2 :> k1
MCSoloConn == r1 :> c1
MCSoloKey == r1 :> k1
MCFramesSolo == c1 :> 2
MCFrames == c1 :> 1 @@ c2 :> 2

VARIABLE plan

NoApprovals == askq' = {}
NoDeltas == \A r \in Runs : todo'[r] = 0
OneRun == \A c \in Conns \ {c1} : \A i \in DOMAIN inbox'[c] : inbox'[c][i].op # "send"

MCInit ==
  /\ Init /\ plan \in {"cancel", "approve", "two runs"}
  /\ plan = "two runs" => editors = Conns

MCNext ==
  /\ Next /\ UNCHANGED plan
  /\ plan = "cancel" => OneRun /\ NoApprovals
  /\ plan = "approve" => OneRun /\ NoDeltas
  /\ plan = "two runs" => NoApprovals /\ NoDeltas /\ UNCHANGED sock

MCSpec == MCInit /\ [][MCNext]_<<vars, plan>> /\ Fairness
=============================================================================
