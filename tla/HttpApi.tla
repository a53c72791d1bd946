------------------------------- MODULE HttpApi -------------------------------
(***************************************************************************)
(* The HTTP side of the gateway (server.rs, auth.rs, rate_limit.rs,        *)
(* webhooks.rs, openai_api.rs): who is let in, how failed attempts of an   *)
(* address lock it out, and what each route refuses and changes. Requests  *)
(* of an address are served at the same time; checking a password takes    *)
(* long, so an attempt is two steps: the look at the lock, and the result. *)
(*                                                                         *)
(* What a request carries is a class: its credential is "right", "wrong"   *)
(* (an empty identity in the proxy modes) or "absent"; a flaw is a fault   *)
(* of its body. Secrets and signatures are never compared here.            *)
(***************************************************************************)
EXTENDS Naturals

CONSTANTS
  HaReqs,      \* requests that may be under way at once
  HaMenu,      \* the routes each of them may ask for
  HaIps,       \* remote addresses
  HaMax,       \* rate_limit.max_attempts
  HaWindow,    \* rate_limit.window_secs
  HaLockout,   \* rate_limit.lockout_secs
  HaTimes      \* bound on the clock

ASSUME HaLimits ==
  /\ HaMax \in Nat \ {0} /\ HaWindow \in Nat /\ HaLockout \in Nat /\ HaTimes \in Nat
  /\ HaLockout > HaWindow   \* as in RateLimitConfig::default

VARIABLES
  haConf,    \* auth mode, bind address, and the parts configured
  haNow,     \* Instant::now, in steps
  haTries,   \* AuthRateLimiter.attempts; count 0 when there is no entry
  haReqs,    \* the request in each slot
  haDone     \* the part of the gateway the last change was made to

haVars == <<haConf, haNow, haTries, haReqs, haDone>>

Modes == {"none", "token", "token_unset", "password", "trusted_proxy", "tailscale"}
Binds == {"loopback", "lan", "private", "public", "not_an_address"}
HaParts == {"web", "whatsapp", "hooks"}
NoTries == [count |-> 0, first |-> 0, until |-> 0]
NoRequest == [step |-> "idle", ip |-> CHOOSE i \in HaIps : TRUE, route |-> "", cred |-> "absent", asked |-> 0, role |-> ""]

----------------------------------------------------------------------------
(* Start                                                                    *)

\* AuthMode::validate: a mode has the secret or header it needs.
ModeValid(mode) == mode # "token_unset"

validate_bind_auth(bind, mode) == bind = "loopback" \/ mode # "none"

\* An address that does not parse is refused by the listener and by the exposure report.
classify_surface(bind) == bind # "not_an_address"

\* run: the checks, then the listener and the router with a fresh limiter.
HaInit ==
  /\ haConf \in [mode : Modes, bind : Binds, parts : {{}, HaParts}]
  /\ ModeValid(haConf.mode) /\ validate_bind_auth(haConf.bind, haConf.mode)
  /\ classify_surface(haConf.bind)
  /\ haNow = 0 /\ haTries = [ip \in HaIps |-> NoTries]
  /\ haReqs = [r \in HaReqs |-> NoRequest]
  /\ haDone = "nothing"

----------------------------------------------------------------------------
(* Routes: how a request is admitted, the part it needs, the flaws that are *)
(* refused, and what it changes.                                            *)

Route(gate, part, refuses, changes) ==
  [gate |-> gate, part |-> part, refuses |-> refuses, changes |-> changes]

ws_handler == Route("auth", "any", {}, "sockets")
health_handler == Route("open", "any", {}, "nothing")
readiness_handler == Route("open", "any", {}, "nothing")
web_inbound_handler == Route("auth", "any", {"failed"}, "turns")
web_outbound_handler == Route("auth", "web", {}, "outbox")
media_upload_handler == Route("auth", "any", {"large", "failed"}, "media")
media_download_handler == Route("auth", "any", {"malformed", "failed"}, "nothing")
whatsapp_webhook_verify_handler == Route("verify_token", "whatsapp", {"malformed"}, "nothing")
pairing_pending_handler == Route("auth", "any", {}, "nothing")
pairing_approve_handler == Route("auth", "any", {"unknown"}, "paired")
chat_completions_handler == Route("bearer", "any", {"empty", "failed"}, "turns")
models_handler == Route("bearer", "any", {}, "nothing")

verify_timestamp == {"stale"}
extract_message == {"empty"}
resolve_mapping == {"unknown"}
resolve_request == resolve_mapping \cup extract_message
webhook_handler == Route("signature", "hooks", {"large", "malformed", "failed"} \cup verify_timestamp \cup resolve_request, "turns")

build_router ==
  [ws |-> ws_handler, health |-> health_handler, ready |-> readiness_handler,
   web_inbound |-> web_inbound_handler, web_outbound |-> web_outbound_handler,
   media_upload |-> media_upload_handler, media |-> media_download_handler,
   whatsapp_verify |-> whatsapp_webhook_verify_handler, pending |-> pairing_pending_handler,
   approve |-> pairing_approve_handler, hooks |-> webhook_handler,
   completions |-> chat_completions_handler, models |-> models_handler]

ASSUME HaMenuAssumption == HaMenu \in [HaReqs -> SUBSET DOMAIN build_router]

----------------------------------------------------------------------------
(* The limiter                                                              *)

Locked(ip) == haNow < haTries[ip].until

\* Seeded bug: a locked address is not turned away.
is_locked_never(ip) == FALSE

is_locked(ip) == Locked(ip)

\* An entry older than the window starts again, its lock included.
record_failure(ip) ==
  LET old == haTries[ip]
      new == IF old.count = 0 \/ haNow - old.first > HaWindow THEN [NoTries EXCEPT !.first = haNow] ELSE old
  IN [new EXCEPT !.count = @ + 1, !.until = IF new.count + 1 >= HaMax THEN haNow + HaLockout ELSE @]

record_success(ip) == NoTries

----------------------------------------------------------------------------
(* A request                                                                *)

HaSet(r, step) == haReqs' = [haReqs EXCEPT ![r].step = step]
HaAnswer(r) == haReqs' = [haReqs EXCEPT ![r] = NoRequest]

\* extract_credential takes the kind of credential the mode asks for and no other; the
\* completion API takes bearer tokens only.
extract_credential(route, cred) ==
  IF route.gate = "bearer" /\ haConf.mode \notin {"none", "token"} THEN "absent" ELSE cred

HaArrive(r) ==
  /\ haReqs[r].step = "idle"
  /\ \E ip \in HaIps, name \in HaMenu[r], cred \in {"right", "wrong", "absent"} :
       haReqs' = [haReqs EXCEPT ![r] = [NoRequest EXCEPT !.step = "check", !.ip = ip, !.route = name,
                    !.cred = extract_credential(build_router[name], cred)]]
  /\ UNCHANGED <<haConf, haNow, haTries, haDone>>

\* authenticate, first half: a locked address gets an error at once.
AuthCheck(r) ==
  LET q == haReqs[r]
  IN /\ q.step = "check" /\ build_router[q.route].gate = "auth"
     /\ IF is_locked(q.ip) THEN HaAnswer(r)
        ELSE haReqs' = [haReqs EXCEPT ![r].step = "verify", ![r].asked = haNow]
     /\ UNCHANGED <<haConf, haNow, haTries, haDone>>

\* What the comparison says: no mode asks for nothing, and only a wrong credential of the
\* right kind counts as a failed attempt.
Verdict(cred) == IF haConf.mode = "none" THEN "right" ELSE cred

\* The role of an admitted connection.
AuthRole == IF haConf.mode = "trusted_proxy" THEN "editor" ELSE "admin"

\* authenticate, second half.
authenticate(r) ==
  LET q == haReqs[r]
  IN /\ q.step = "verify"
     /\ haTries' = [haTries EXCEPT ![q.ip] =
          CASE Verdict(q.cred) = "right" -> record_success(q.ip)
            [] Verdict(q.cred) = "wrong" -> record_failure(q.ip)
            [] OTHER -> @]
     /\ IF Verdict(q.cred) = "right"
        THEN haReqs' = [haReqs EXCEPT ![r] = [NoRequest EXCEPT !.step = "serve", !.route = q.route, !.role = AuthRole]]
        ELSE HaAnswer(r)
     /\ UNCHANGED <<haConf, haNow, haDone>>

\* The completion API compares the token too, with a limiter of its own that nobody reads.
authenticate_bearer(r) ==
  /\ haReqs[r].step = "check" /\ build_router[haReqs[r].route].gate = "bearer"
  /\ IF Verdict(haReqs[r].cred) = "right" THEN HaSet(r, "serve") ELSE HaAnswer(r)
  /\ UNCHANGED <<haConf, haNow, haTries, haDone>>

\* Webhooks are signed with their own secret. Size and time come before the signature, the
\* rest after it; the answer is an error all the same.
verify_signature(r) ==
  /\ haReqs[r].step = "check" /\ build_router[haReqs[r].route].gate \in {"signature", "verify_token"}
  /\ IF haReqs[r].cred = "right" THEN HaSet(r, "serve") ELSE HaAnswer(r)
  /\ UNCHANGED <<haConf, haNow, haTries, haDone>>

OpenRoute(r) ==
  /\ haReqs[r].step = "check" /\ build_router[haReqs[r].route].gate = "open"
  /\ HaSet(r, "serve")
  /\ UNCHANGED <<haConf, haNow, haTries, haDone>>

\* The handler proper: an absent part or a flaw is an error, otherwise the change is made.
Serve(r) ==
  LET route == build_router[haReqs[r].route]
      refused == (route.part # "any" /\ route.part \notin haConf.parts) \/ route.changes = "nothing"
  IN /\ haReqs[r].step = "serve"
     /\ \E flaw \in route.refuses \cup {"none"} :
          haDone' = IF refused \/ flaw \in route.refuses THEN haDone ELSE route.changes
     /\ HaAnswer(r)
     /\ UNCHANGED <<haConf, haNow, haTries>>

HaTick ==
  /\ haNow < HaTimes /\ haNow' = haNow + 1
  /\ UNCHANGED <<haConf, haTries, haReqs, haDone>>

HaNext ==
  \/ HaTick
  \/ \E r \in HaReqs :
       \/ HaArrive(r) \/ AuthCheck(r) \/ authenticate(r) \/ authenticate_bearer(r)
       \/ verify_signature(r) \/ OpenRoute(r) \/ Serve(r)

HaSpec == HaInit /\ [][HaNext]_haVars

----------------------------------------------------------------------------
(* Properties                                                               *)

\* A lock-out ends when its time is up. The only requests that end it sooner are ones that had
\* passed the look at the lock before it was set: those that turn out right, and failures
\* recorded after the window of the first attempt has passed (record_failure clears the lock
\* with the count).
OnlyEarlierRequestsUnlock ==
  [][\A ip \in HaIps : Locked(ip) /\ ~(haNow' < haTries'[ip].until) /\ haNow' = haNow =>
       \E r \in HaReqs : /\ haReqs[r].step = "verify" /\ haReqs'[r].step # "verify" /\ haReqs[r].ip = ip
                         /\ haReqs[r].asked <= haTries[ip].until - HaLockout]_haVars
=============================================================================
