------------------------------ MODULE MC_Access ------------------------------
(* Who may do what, and how much of it. A behaviour is about one part.                   *)
(* "pairing": one sender writes to two accounts, another is on the allow list.           *)
(* "http": two requests at a time from one address, one of them for any route; a         *)
(* lock-out of two steps after two failures within one step; with a password and all     *)
(* parts, or with neither.                                                               *)
(* "runs": two turns from outside on one session, and on the sessions of subagents.      *)
(* "browser": two turns, two session ids, one session allowed.                           *)
(* "mcp": two turns on one server.                                                       *)
(* "sessions": two messages of the conversations of MC_SessionStore.                     *)
EXTENDS Pairing, HttpApi, Subagents, BrowserSessions, McpClient, MC_SessionStore, TLC

CONSTANTS a1, a2, s1, s2, i1, q1, q2, t1, t2, key

MCRoutes == [r \in {q1, q2} |-> IF r = q1 THEN DOMAIN build_router ELSE {"ws"}]
MCTops == {t1, t2}
MCSessions == {key}

VARIABLE part

toolVars == <<brVars, mcVars>>
mcAll == <<vars, haVars, saVars, toolVars, srVars, part>>

MCInit ==
  /\ Init /\ HaInit /\ SaInit /\ BrInit /\ McInit
  /\ part \in {"pairing", "http", "runs", "browser", "mcp", "sessions"}
  /\ part # "http" => haConf = [mode |-> "token", bind |-> "loopback", parts |-> {}]
  /\ part = "http" => /\ haConf.bind = IF haConf.mode = "none" THEN "loopback" ELSE "public"
                      /\ haConf.mode \in {"none", "password"}
                      /\ haConf.parts = {} <=> haConf.mode = "none"
  /\ part # "mcp" => mcKind = "stdio"
  /\ SrInit /\ srKey = "plain" /\ (part # "sessions" => srScope = "main")

MCNext ==
  \/ part = "pairing" /\ Next /\ UNCHANGED <<haVars, saVars, toolVars, srVars, part>>
  \/ part = "http" /\ HaNext /\ UNCHANGED <<vars, saVars, toolVars, srVars, part>>
  \/ part = "runs" /\ SaNext /\ UNCHANGED <<vars, haVars, toolVars, srVars, part>>
  \/ part = "browser" /\ BrNext /\ UNCHANGED <<vars, haVars, saVars, mcVars, srVars, part>>
  \/ part = "mcp" /\ McNext /\ UNCHANGED <<vars, haVars, saVars, brVars, srVars, part>>
  \/ part = "sessions" /\ SrNext /\ UNCHANGED <<vars, haVars, saVars, toolVars, part>>

MCSpec == MCInit /\ [][MCNext]_mcAll
=============================================================================
