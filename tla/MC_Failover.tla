----------------------------- MODULE MC_Failover -----------------------------
(* Calls of models and of tools. A behaviour is about one part. "chain": two calls over   *)
(* two providers, of which only the second serves both. "provider": one call to a         *)
(* provider and its stream. "copilot": two calls through the Copilot provider over two    *)
(* lifetimes of a token. "cost": two callers of the cost guard around the end of a day.   *)
(* "tools": one turn calls any tool, another edits files and runs commands.               *)
EXTENDS Failover, ProviderStreams, CopilotToken, CostGuard, ToolCalls

CONSTANTS c1, c2
VARIABLE part

MCServes == c1 :> {1, 2} @@ c2 :> {2}
MCMenu == [t \in {c1, c2} |->
  IF t = c1 THEN DOMAIN with_policy \cup {"unheard_of"}
  ELSE {"file_edit", "bash"}]
\* Tools that the default level refuses, approved by name.
MCOverrides == {{}, {"bash", "cron_remove"}}
MCAllowed == (DOMAIN with_policy \ {"agents_list"}) \cup {"unheard_of"}

modelVars == <<psVars, cpVars, cgVars>>
allVars == <<vars, modelVars, tlVars, part>>

MCInit ==
  /\ Init /\ PsInit /\ CpInit /\ CgInit /\ TlInit
  /\ part \in {"chain", "provider", "copilot", "cost", "tools"}
  /\ part # "provider" => psKind = "openai"
  /\ tlPolicy.approved # {} => tlPolicy.level = "read" /\ tlHas = Services
  /\ tlPolicy.bash \in [read |-> {"list"}, mutating |-> {"list", "deny-all"},
                       destructive |-> {"allow-all"}][tlPolicy.level]
  /\ part # "tools" => tlHas = {} /\ tlPolicy = [level |-> "read", approved |-> {}, bash |-> "list"]

InChain(A) == part = "chain" /\ A /\ UNCHANGED <<modelVars, tlVars, part>>

MCNext ==
  \/ InChain(Next)
  \/ part = "provider" /\ PsNext /\ UNCHANGED <<vars, cpVars, cgVars, tlVars, part>>
  \/ part = "copilot" /\ CpNext /\ UNCHANGED <<vars, psVars, cgVars, tlVars, part>>
  \/ part = "cost" /\ CgNext /\ UNCHANGED <<vars, psVars, cpVars, tlVars, part>>
  \/ part = "tools" /\ TlNext /\ UNCHANGED <<vars, modelVars, part>>

\* The fairness of BusySpec.
MCSpec ==
  /\ MCInit /\ [][MCNext]_allVars
  /\ WF_allVars(InChain(Clock))
  /\ \A c \in Calls : WF_allVars(InChain(Step(c))) /\ WF_allVars(InChain(Begin(c) \/ Again(c)))
=============================================================================
