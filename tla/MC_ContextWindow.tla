-------------------------- MODULE MC_ContextWindow --------------------------
(* A behaviour is about one part. "context": a turn over any transcript it may find; any *)
(* sequence of rows is possible, for a failed turn leaves a question or a request without *)
(* its answer, and a reset in the middle of a turn results without their request.         *)
(* "inbound": three messages through a queue of one, the second from a channel that can   *)
(* edit. "memory": two files of the memory directory, edited while syncs run and fail.    *)
(* "config": a gateway started from a file that is edited twice, or from any account with *)
(* at most three keys.                                                                    *)
EXTENDS ContextWindow, Inbound, MemoryIndex, ConfigReload

Numbered(ms) == [i \in DOMAIN ms |-> [ms[i] EXCEPT !.rows = {i}]]

AnyMessage == {Msg(r, "none", s) : r \in {"user", "assistant", "tool"}, s \in {1, 3}}
              \cup {Msg("assistant", c, 1) : c \in {"structured", "text"}}
MCHistories == {Numbered(ms) : ms \in UNION {[1..n -> AnyMessage] : n \in 0..4}}
MCSizes == {1, 9}   \* one message may exceed the budget
MCEdits == {2}

VARIABLE part

MCPaths == <<"f", "g">>
MCLines == {<<"x">>, <<"x", "", "y">>, <<"">>}

\* A channel that runs, what an edit may do to it, and what it may do to the other sections.
MCChannel(extra) == [enabled |-> TRUE, accounts |-> <<>>, extra |-> extra]
MCBase == [default_config EXCEPT !.channels = [c \in {"web"} |-> MCChannel(Extra)]]
MCHook == [id |-> "h", text_field |-> "message", agent |-> "main", session_agent |-> "main"]
MCParsed(config) == [state |-> "parsed", config |-> config]
MCMissing == [state |-> "missing", config |-> default_config]
MCConfigs ==
  {MCBase,
   [MCBase EXCEPT !.channels["web"].extra.dm_policy = "open"],
   [MCBase EXCEPT !.channels["web"].enabled = FALSE, !.channels["web"].extra.max_bytes = "zero"],
   [MCBase EXCEPT !.channels["web"].enabled = FALSE],
   [MCBase EXCEPT !.gateway.bind = "lan"],
   [MCBase EXCEPT !.gateway.max_connections = 0],
   [MCBase EXCEPT !.agents.defs = {"main", "other"}],
   [MCBase EXCEPT !.agents.default = "other", !.logging = "json"],
   [MCBase EXCEPT !.hooks = [enabled |-> TRUE, token |-> "t", mappings |-> <<MCHook>>],
                  !.models.providers = <<[id |-> "p", api |-> "openai", api_key_ref |-> "KEY"]>>],
   [MCBase EXCEPT !.hooks = [enabled |-> TRUE, token |-> "t", mappings |-> <<MCHook, MCHook>>]]}
MCFiles == {MCMissing, [state |-> "broken", config |-> default_config]} \cup {MCParsed(c) : c \in MCConfigs}

MCKeys ==
  [telegram |-> {"bot_token", "token", "bot_token_env", "token_env"},
   signal |-> {"base_url", "http_url_env", "account", "account_env"},
   slack |-> {"app_token", "app_token_env", "token", "bot_token_env"},
   whatsapp |-> {"access_token", "phone_number_id", "verify_token", "verify_token_env", "app_secret_env"},
   email |-> {"imap_server"}]
MCValue(key) == IF key \in {"bot_token", "token", "base_url", "account", "app_token", "access_token",
                            "phone_number_id", "verify_token"}
                THEN {"absent", "blank", "text"} ELSE {"absent", "blank", "HAVE", "LACKED"}
MCAccounts(c) == {a \in [MCKeys[c] -> {"absent", "blank", "text", "HAVE", "LACKED"}] :
                    \A key \in MCKeys[c] : a[key] \in MCValue(key)}
MCStarts ==
  MCFiles \cup UNION {{MCParsed([default_config EXCEPT !.channels = [i \in {c} |->
       [enabled |-> TRUE, accounts |-> <<a>>, extra |-> Extra]]]) : a \in MCAccounts(c)} : c \in DOMAIN MCKeys}

mcVars == <<vars, ibVars, mxVars, cfVars, part>>

MCInit ==
  /\ part \in {"context", "inbound", "memory", "config"}
  /\ Init /\ (part # "context" => ctx = <<>>)
  /\ InInit /\ (part # "inbound" => missing = 1)
  /\ MxInit
  /\ cfFile \in IF part = "config" THEN CfStartFiles ELSE {MCMissing}
  /\ CfNotStarted

InPart(A) == part = "inbound" /\ A /\ UNCHANGED <<vars, mxVars, cfVars, part>>

InConfig(A) == part = "config" /\ A /\ UNCHANGED <<vars, ibVars, mxVars, part>>

MCNext ==
  \/ part = "context" /\ Next /\ UNCHANGED <<ibVars, mxVars, cfVars, part>>
  \/ InPart(InNext)
  \/ part = "memory" /\ MxNext /\ UNCHANGED <<vars, ibVars, cfVars, part>>
  \/ InConfig(CfNext)

\* The fairness of Inbound and of ConfigReload.
MCSpec ==
  /\ MCInit /\ [][MCNext]_mcVars
  /\ WF_mcVars(InPart(Consumer)) /\ WF_mcVars(InPart(stage = "deliver" /\ DeliverStep /\ result' # "none"))
  /\ \A m \in Msgs : WF_mcVars(InPart(Placeholder(m)))
  /\ WF_mcVars(InConfig(CfWatcher))
=============================================================================
