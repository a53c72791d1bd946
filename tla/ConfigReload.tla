---------------------------- MODULE ConfigReload ----------------------------
(* The configuration file, the start of the gateway from it and the watcher that applies  *)
(* later edits to the running gateway (core/config.rs, channels/lib.rs, gateway/server.rs). *)
(* A text is "absent", "blank" or anything else; the name of an environment variable is a  *)
(* text too. A value of the wrong JSON type is "bad" where the code refuses it, "absent"   *)
(* where the code ignores it. Sections that no rule looks into are plain values.           *)
EXTENDS Naturals, Sequences

CONSTANTS
  CfStartFiles, \* the file when the gateway is started: "missing", "broken" or "parsed" to a configuration
  CfFiles,      \* what an operator's edit may leave in it; the other start files are not edited
  CfEnv,        \* the environment variables that are set and not blank
  CfMaxEdits

\* What a file that parses is deserialised into (the struct FrankClawConfig).
IsConfig(config) ==
  /\ DOMAIN config = {"gateway", "agents", "models", "channels", "hooks", "session",
                      "logging", "media", "security", "others"}
  /\ \A c \in DOMAIN config.channels : DOMAIN config.channels[c] = {"enabled", "accounts", "extra"}

ASSUME CfConstants ==
  \A file \in CfStartFiles \cup CfFiles : file.state \notin {"missing", "broken"} => IsConfig(file.config)

VARIABLES
  cfFile,    \* what the file holds
  cfTime,    \* its modification time: the number of edits so far
  cfEdits,   \* edits left
  cfPhase,   \* "load", "build", "stamp", "watch", "read", "apply"; "refused" or "stopped" at the end
  cfLoaded,  \* what was read last
  cfRunning, \* the gateway's configuration
  cfStamp,   \* the watcher's last stamp; a missing file has none
  cfFirst,   \* the watcher's first stamp
  cfFlag     \* whether the last event said restart_required

cfVars == <<cfFile, cfTime, cfEdits, cfPhase, cfLoaded, cfRunning, cfStamp, cfFirst, cfFlag>>

Given(text) == text \notin {"absent", "blank"}

-----------------------------------------------------------------------------
(* What a configuration must satisfy                                         *)

Extra == [dm_policy |-> "absent", allow_from |-> "absent", groups |-> "absent", max_bytes |-> "absent"]

default_config ==
  [gateway |-> [auth |-> "none", secret |-> "absent", bind |-> "loopback", max_connections |-> 64, max_bytes |-> 4],
   agents |-> [default |-> "main", defs |-> {"main"}],
   models |-> [providers |-> <<>>, default_model |-> "absent"],
   channels |-> [c \in {} |-> 0],
   hooks |-> [enabled |-> FALSE, token |-> "absent", mappings |-> <<>>],
   session |-> [scoping |-> "default", reset |-> "default", pruning |-> "default"],
   logging |-> "default", media |-> "default", security |-> "default",
   others |-> "default"]   \* cron, memory, understanding, browser_profiles

auth_valid(gateway) == gateway.auth \in {"token", "password", "trusted_proxy"} => Given(gateway.secret)

validate_bind_auth(gateway) == gateway.bind # "loopback" => gateway.auth # "none"

provider_valid(p) ==
  /\ Given(p.id)
  /\ p.api \in {"openai", "anthropic", "ollama"}
  /\ p.api \in {"openai", "anthropic"} => Given(p.api_key_ref)

security_policy_ok(extra) ==
  /\ extra.dm_policy \in {"absent", "open", "allowlist", "pairing", "disabled"}
  /\ extra.allow_from # "bad" /\ extra.groups # "bad"
  /\ extra.max_bytes \notin {"bad", "zero"}

Wanted(inline, env) == [inline |-> inline, env |-> env]
\* What an enabled channel's account must name: a value, or the variable that holds it.
needs_by_validate(channel) ==
  CASE channel \in {"telegram", "discord"} ->
         {Wanted({"bot_token", "token"}, {"bot_token_env", "token_env"})}
    [] channel = "signal" -> {Wanted({"base_url", "http_url"}, {"base_url_env", "http_url_env"})}
    [] channel = "whatsapp" ->
         {Wanted({"access_token", "token"}, {"access_token_env", "token_env"}),
          Wanted({"phone_number_id"}, {"phone_number_id_env"}),
          Wanted({"verify_token"}, {"verify_token_env"})}
    [] channel = "slack" ->
         {Wanted({"app_token"}, {"app_token_env"}),
          Wanted({"bot_token", "token"}, {"bot_token_env", "token_env"})}
    [] OTHER -> {}

Get(account, key) == IF key \in DOMAIN account THEN account[key] ELSE "absent"

validate_channel_account_value_source(accounts, want) ==
  /\ accounts # <<>>
  /\ \E key \in want.inline \cup want.env : Given(Get(accounts[1], key))

validate_channel_config(id, channel) ==
  channel.enabled =>
    /\ id \in {"web", "telegram", "discord", "signal", "whatsapp", "slack"}
    /\ \A want \in needs_by_validate(id) : validate_channel_account_value_source(channel.accounts, want)

mapping_valid(mapping) ==
  /\ Given(mapping.id) /\ Given(mapping.text_field)
  /\ Given(mapping.agent) /\ Given(mapping.session_agent) => mapping.agent = mapping.session_agent

Distinct(records) == \A i, j \in DOMAIN records : records[i].id = records[j].id => i = j

parsed_mappings_ok(hooks) ==
  hooks.enabled =>
    /\ Given(hooks.token) /\ hooks.mappings # <<>>
    /\ Distinct(hooks.mappings)
    /\ \A i \in DOMAIN hooks.mappings : mapping_valid(hooks.mappings[i])

\* A seeded bug: a disabled channel is not looked at.
enabled_channels_valid(config) ==
  \A c \in DOMAIN config.channels : config.channels[c].enabled =>
    security_policy_ok(config.channels[c].extra) /\ validate_channel_config(c, config.channels[c])

channels_valid(config) ==
  \A c \in DOMAIN config.channels :
    security_policy_ok(config.channels[c].extra) /\ validate_channel_config(c, config.channels[c])

validate(config) ==
  /\ auth_valid(config.gateway)
  /\ config.agents.default \in config.agents.defs
  /\ Distinct(config.models.providers)
  /\ \A i \in DOMAIN config.models.providers : provider_valid(config.models.providers[i])
  /\ config.models.default_model # "blank"
  /\ config.gateway.max_connections > 0 /\ config.gateway.max_bytes > 0
  /\ config.gateway.bind # "bad"
  /\ channels_valid(config)
  /\ parsed_mappings_ok(config.hooks)

-----------------------------------------------------------------------------
(* Building the channels                                                     *)

resolve_env_value(name) == Given(name) /\ name \in CfEnv

FirstIn(keys, account, P(_)) ==
  LET good == {i \in DOMAIN keys : P(Get(account, keys[i]))}
  IN  IF good = {} THEN "absent" ELSE Get(account, keys[CHOOSE i \in good : \A j \in good : i <= j])

\* Whether the value is found: given, in the first variable the account names, or in the default one.
resolve_channel_value(account, inline, env, default_env) ==
  \/ FirstIn(inline, account, Given) # "absent"
  \/ LET named == FirstIn(env, account, LAMBDA v : v # "absent")
     IN  IF named # "absent" THEN resolve_env_value(named)
         ELSE default_env # "absent" /\ resolve_env_value(default_env)

\* No value is fine here, but a variable that is named must be set.
resolve_optional_channel_value(account, inline, env) ==
  \/ resolve_channel_value(account, inline, env, "absent")
  \/ \A i \in DOMAIN env : Get(account, env[i]) = "absent"

BotToken(account, default_env) ==
  resolve_channel_value(account, <<"bot_token", "token">>, <<"bot_token_env", "token_env">>, default_env)

build_whatsapp(account) ==
  /\ resolve_channel_value(account, <<"access_token", "token">>, <<"access_token_env", "token_env">>, "WHATSAPP_ACCESS_TOKEN")
  /\ resolve_channel_value(account, <<"phone_number_id">>, <<"phone_number_id_env">>, "WHATSAPP_PHONE_NUMBER_ID")
  /\ resolve_channel_value(account, <<"verify_token">>, <<"verify_token_env">>, "WHATSAPP_VERIFY_TOKEN")
  /\ resolve_optional_channel_value(account, <<"app_secret">>, <<"app_secret_env">>)

build_email(account) ==
  /\ resolve_channel_value(account, <<"imap_server">>, <<"imap_server_env">>, "absent")
  /\ resolve_channel_value(account, <<"smtp_server">>, <<"smtp_server_env">>, "absent")
  /\ resolve_channel_value(account, <<"imap_user", "user">>, <<"imap_user_env">>, "absent")
  /\ resolve_channel_value(account, <<"smtp_user", "user">>, <<"smtp_user_env">>, "absent")
  /\ resolve_channel_value(account, <<"imap_password", "password">>, <<"imap_password_env">>, "EMAIL_PASSWORD")
  /\ resolve_channel_value(account, <<"smtp_password", "password">>, <<"smtp_password_env">>, "EMAIL_PASSWORD")
  /\ resolve_channel_value(account, <<"smtp_from", "from", "user">>, <<"smtp_from_env">>, "absent")

build_account(id, account) ==
  CASE id = "telegram" -> BotToken(account, "TELEGRAM_BOT_TOKEN")
    [] id = "discord" -> BotToken(account, "DISCORD_BOT_TOKEN")
    [] id = "signal" ->
         /\ resolve_channel_value(account, <<"base_url", "http_url">>, <<"base_url_env", "http_url_env">>, "SIGNAL_BASE_URL")
         /\ resolve_optional_channel_value(account, <<"account", "signal_number">>, <<"account_env", "signal_number_env">>)
    [] id = "whatsapp" -> build_whatsapp(account)
    [] id = "slack" ->
         /\ resolve_channel_value(account, <<"app_token">>, <<"app_token_env">>, "SLACK_APP_TOKEN")
         /\ BotToken(account, "SLACK_BOT_TOKEN")
    [] id = "email" -> build_email(account)
    [] OTHER -> FALSE

build_channel(id, channel) ==
  id = "web" \/ (channel.accounts # <<>> /\ build_account(id, channel.accounts[1]))

load_from_config(config) ==
  \A c \in DOMAIN config.channels : config.channels[c].enabled => build_channel(c, config.channels[c])

-----------------------------------------------------------------------------
(* Applying an edited file                                                   *)

config_restart_fingerprint(config) ==
  <<config.agents, config.channels, config.models, config.media, config.security,
    config.session.scoping, config.session.reset>>

restart_sensitive_config_changed(current, next) ==
  config_restart_fingerprint(current) # config_restart_fingerprint(next)

merge_reloadable_config(current, next) ==
  [current EXCEPT
     !.gateway = next.gateway, !.hooks = next.hooks, !.logging = next.logging,
     !.session.pruning = next.session.pruning,
     !.channels = [c \in DOMAIN current.channels |->
                     IF c \in DOMAIN next.channels
                     THEN [current.channels[c] EXCEPT !.extra = next.channels[c].extra]
                     ELSE current.channels[c]]]

\* What a reader of the file gets; a file that is not there counts as the defaults.
load_or_default(file) == IF file.state = "missing" THEN default_config ELSE file.config

config_file_stamp == IF cfFile.state = "missing" THEN 0 ELSE cfTime

-----------------------------------------------------------------------------
CfNotStarted ==
  /\ cfTime = 1 /\ cfEdits = CfMaxEdits /\ cfPhase = "load"
  /\ cfLoaded = default_config /\ cfRunning = default_config
  /\ cfStamp = 0 /\ cfFirst = 0 /\ cfFlag = FALSE

CfInit == cfFile \in CfStartFiles /\ CfNotStarted

\* The operator replaces the file; every version has a modification time of its own.
CfEdit(file) ==
  /\ cfEdits > 0 /\ cfPhase \notin {"refused", "stopped"} /\ cfFile \in CfFiles \ {file}
  /\ cfFile' = file /\ cfTime' = cfTime + 1 /\ cfEdits' = cfEdits - 1
  /\ UNCHANGED <<cfPhase, cfLoaded, cfRunning, cfStamp, cfFirst, cfFlag>>

\* The command line reads the file and validates it.
CfStart ==
  /\ cfPhase = "load"
  /\ cfLoaded' = load_or_default(cfFile)
  /\ cfPhase' = IF cfFile.state # "broken" /\ validate(cfLoaded') THEN "build" ELSE "refused"
  /\ UNCHANGED <<cfFile, cfTime, cfEdits, cfRunning, cfStamp, cfFirst, cfFlag>>

\* run: the channels are built from what was read.
CfBuild ==
  /\ cfPhase = "build"
  /\ IF validate_bind_auth(cfLoaded.gateway) /\ load_from_config(cfLoaded)
     THEN cfPhase' = "stamp" /\ cfRunning' = cfLoaded
     ELSE cfPhase' = "refused" /\ UNCHANGED cfRunning
  /\ UNCHANGED <<cfFile, cfTime, cfEdits, cfLoaded, cfStamp, cfFirst, cfFlag>>

\* The watcher's task begins: whatever the file holds by now counts as known.
CfFirstStamp ==
  /\ cfPhase = "stamp"
  /\ cfStamp' = config_file_stamp /\ cfFirst' = config_file_stamp /\ cfPhase' = "watch"
  /\ UNCHANGED <<cfFile, cfTime, cfEdits, cfLoaded, cfRunning, cfFlag>>

\* A tick of the interval. The stamp is taken, and kept, before the file is read.
CfTick ==
  /\ cfPhase = "watch" /\ config_file_stamp # cfStamp
  /\ cfStamp' = config_file_stamp /\ cfPhase' = "read"
  /\ UNCHANGED <<cfFile, cfTime, cfEdits, cfLoaded, cfRunning, cfFirst, cfFlag>>

\* The file is read and validated; one that cannot be used is logged and forgotten.
CfRead ==
  /\ cfPhase = "read"
  /\ IF cfFile.state # "broken" /\ validate(load_or_default(cfFile))
     THEN cfLoaded' = load_or_default(cfFile) /\ cfPhase' = "apply"
     ELSE cfPhase' = "watch" /\ UNCHANGED cfLoaded
  /\ UNCHANGED <<cfFile, cfTime, cfEdits, cfRunning, cfStamp, cfFirst, cfFlag>>

\* A seeded bug: the stamp is taken after the file was read.
CfApplyThenStamp ==
  /\ cfPhase = "apply" /\ cfPhase' = "watch"
  /\ cfRunning' = merge_reloadable_config(cfRunning, cfLoaded)
  /\ cfFlag' = restart_sensitive_config_changed(cfRunning, cfLoaded)
  /\ cfStamp' = config_file_stamp
  /\ UNCHANGED <<cfFile, cfTime, cfEdits, cfLoaded, cfFirst>>

\* The reloadable part goes into the running configuration, and an event tells the clients.
CfApply ==
  /\ cfPhase = "apply" /\ cfPhase' = "watch"
  /\ cfRunning' = merge_reloadable_config(cfRunning, cfLoaded)
  /\ cfFlag' = restart_sensitive_config_changed(cfRunning, cfLoaded)
  /\ UNCHANGED <<cfFile, cfTime, cfEdits, cfLoaded, cfStamp, cfFirst>>

\* Shutdown ends the watcher between two ticks.
CfStop == cfPhase = "watch" /\ cfPhase' = "stopped"
          /\ UNCHANGED <<cfFile, cfTime, cfEdits, cfLoaded, cfRunning, cfStamp, cfFirst, cfFlag>>

CfWatcher == CfFirstStamp \/ CfTick \/ CfRead \/ CfApply

CfNext ==
  \/ \E file \in CfFiles : CfEdit(file)
  \/ CfStart \/ CfBuild \/ CfWatcher \/ CfStop

\* The interval keeps ticking, and reading a file ends.
CfSpec == CfInit /\ [][CfNext]_cfVars /\ WF_cfVars(CfWatcher)

-----------------------------------------------------------------------------
(* The running configuration always passes validate, although it is mixed from several    *)
(* files of which each was validated alone: a channel that runs takes its policy from a   *)
(* file in which the same channel may be disabled (process_inbound_message_with_target    *)
(* fails for every message of a channel whose policy cannot be read).                     *)
RunningIsValid == validate(cfRunning)

(* When the file is left alone after an edit the watcher can see, and is usable, its      *)
(* reloadable sections are the running ones for good, whatever was written while the      *)
(* watcher was reading; and the last event asked for a restart if anything it compares    *)
(* still differs from what runs. An edit between the start's read and the watcher's first *)
(* stamp is not seen until the next one.                                                  *)
Settled ==
  LET next == load_or_default(cfFile) IN
  config_file_stamp # cfFirst /\ cfFile.state # "broken" /\ validate(next) =>
    /\ merge_reloadable_config(cfRunning, next) = cfRunning
    /\ restart_sensitive_config_changed(cfRunning, next) => cfFlag
ReloadConverges == <>[](cfPhase \in {"load", "build", "refused", "stopped"} \/ Settled)
=============================================================================
