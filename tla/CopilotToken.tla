---------------------------- MODULE CopilotToken ----------------------------
(***************************************************************************)
(* The Copilot provider (copilot.rs): a GitHub token, got by the device    *)
(* flow, is exchanged for API tokens that live for a while. The API token  *)
(* in use is kept behind a read-write lock that a request holds for        *)
(* reading until it is answered; a file caches the last token over         *)
(* restarts. Calls look, exchange, write the file, read the expiry back    *)
(* from it and install the token, in steps that interleave. The lock is    *)
(* fair: whoever waits for it is served in order.                          *)
(*                                                                         *)
(* A token is known by the time it expires at. Requests and exchanges end  *)
(* within their timeouts: the clock waits for them.                        *)
(***************************************************************************)
EXTENDS Naturals

CONSTANTS
  CpCalls,      \* concurrent calls of complete
  CpLife,       \* the lifetime GitHub gives a token
  CpMargin,     \* 60 s
  CpDefault,    \* 3600 s
  CpExchange,   \* bound: an exchange ends within this time (15 s)
  CpRequest,    \* bound: a request ends within this time (120 s)
  CpMaxTime     \* bound: time

None == 0
ASSUME CpConstants ==
  /\ {CpLife, CpMargin, CpDefault, CpExchange, CpRequest, CpMaxTime} \subseteq Nat
  /\ CpMargin >= 2 * CpExchange /\ CpLife > CpMargin + CpExchange

\* Times are shifted so that none of them is None.
Start == 1

VARIABLES
  cpNow,
  cpLogin,      \* device flow: "off", "polling", "stored"
  cpInterval,   \* poll_interval, in steps of 5 s
  cpFile,       \* the cached token, None without a readable file
  cpInner,      \* [tok, exp]: the provider in use and the expiry kept with it
  cpPc,         \* call: "idle", "look" and "ready" (wait to read), "exchange", "wrote",
                \* "lock" (waits to write), "request"
  cpAhead,      \* call: those ahead of it in the queue of the lock
  cpAsked,      \* call: the now of ensure_provider, read before it waits for the lock
  cpSince,      \* call: when its exchange or its request began
  cpTok, cpExp, \* call: the token it has got, and the expiry to keep with it
  cpSent,       \* call: the token its request was sent with
  cpLost        \* history: a write of the file has failed, or a token has expired while a call waited for the lock

cpCall == <<cpPc, cpAhead, cpAsked, cpSince, cpTok, cpExp, cpSent>>
cpLoginVars == <<cpLogin, cpInterval>>
cpVars == <<cpNow, cpLoginVars, cpFile, cpInner, cpCall, cpLost>>

CpInit ==
  /\ cpNow = Start /\ cpLogin = "off" /\ cpInterval = 1 /\ cpFile = None
  /\ cpInner = [tok |-> None, exp |-> None]
  /\ cpPc = [c \in CpCalls |-> "idle"] /\ cpAhead = [c \in CpCalls |-> {}]
  /\ cpAsked = [c \in CpCalls |-> None] /\ cpSince = cpAsked
  /\ cpTok = cpAsked /\ cpExp = cpAsked /\ cpSent = cpAsked /\ cpLost = FALSE

Readers == {c \in CpCalls : cpPc[c] = "request"}
Writers == {c \in CpCalls : cpPc[c] = "lock"}
Waits == {"look", "lock", "ready"}

\* Who begins to wait for the lock is behind all that wait.
Moves(c, pc) ==
  /\ cpPc' = [cpPc EXCEPT ![c] = pc]
  /\ cpAhead' = [d \in CpCalls |->
       IF d = c /\ pc \in Waits THEN {e \in CpCalls \ {c} : cpPc[e] \in Waits} ELSE cpAhead[d] \ {c}]

MayRead(c) == cpAhead[c] \cap Writers = {}
MayWrite(c) == cpAhead[c] = {} /\ Readers = {}

----------------------------------------------------------------------------
(* Login                                                                    *)

request_device_code ==
  /\ cpLogin = "off" /\ cpLogin' = "polling" /\ cpInterval' = 1
  /\ UNCHANGED <<cpNow, cpFile, cpInner, cpCall, cpLost>>

\* The token is kept in a file of its own; a provider is only made once it can be read.
store_github_token == cpLogin' = "stored"
load_github_token == cpLogin = "stored"

\* The user has not decided, GitHub asks to slow down, the code has expired or was refused,
\* or there is a token, which is stored.
poll_for_access_token ==
  /\ cpLogin = "polling"
  /\ \/ UNCHANGED cpLoginVars
     \/ cpInterval < 3 /\ cpInterval' = cpInterval + 1 /\ UNCHANGED cpLogin
     \/ cpLogin' = "off" /\ UNCHANGED cpInterval
     \/ store_github_token /\ UNCHANGED cpInterval
  /\ UNCHANGED <<cpNow, cpFile, cpInner, cpCall, cpLost>>

----------------------------------------------------------------------------
(* ensure_provider                                                          *)

\* Seeded bug: a token is used up to its expiry.
ValidToTheEnd(exp, now) == exp > now

Valid(exp, now) == exp > now + CpMargin

\* ensure_provider reads the clock before it waits to look.
Asks(c) ==
  /\ load_github_token /\ cpPc[c] = "idle" /\ Moves(c, "look")
  /\ cpAsked' = [cpAsked EXCEPT ![c] = cpNow]
  /\ UNCHANGED <<cpNow, cpLoginVars, cpFile, cpInner, cpSince, cpTok, cpExp, cpSent, cpLost>>

\* The provider in use will do, or the token in the file, or a new one is asked for.
ensure_provider(c) ==
  /\ cpPc[c] = "look" /\ MayRead(c)
  /\ \/ /\ cpInner.tok # None /\ Valid(cpInner.exp, cpAsked[c])
        /\ Moves(c, "ready") /\ cpAsked' = [cpAsked EXCEPT ![c] = None] /\ UNCHANGED <<cpSince, cpTok>>
     \/ /\ ~(cpInner.tok # None /\ Valid(cpInner.exp, cpAsked[c]))
        /\ IF cpFile # None /\ Valid(cpFile, cpNow)
             THEN Moves(c, "wrote") /\ cpTok' = [cpTok EXCEPT ![c] = cpFile] /\ UNCHANGED cpSince
             ELSE Moves(c, "exchange") /\ cpSince' = [cpSince EXCEPT ![c] = cpNow] /\ UNCHANGED cpTok
        /\ UNCHANGED cpAsked
  /\ UNCHANGED <<cpNow, cpLoginVars, cpFile, cpInner, cpExp, cpSent, cpLost>>

\* The exchange answers with a token given out while it ran; the file is written, or it is not.
resolve_copilot_api_token(c) ==
  /\ cpPc[c] = "exchange" /\ Moves(c, "wrote")
  /\ \E given \in cpSince[c]..cpNow, written \in BOOLEAN :
       /\ cpTok' = [cpTok EXCEPT ![c] = given + CpLife]
       /\ cpFile' = IF written THEN given + CpLife ELSE cpFile
       /\ cpLost' = (cpLost \/ ~written)
  /\ cpSince' = [cpSince EXCEPT ![c] = None]
  /\ UNCHANGED <<cpNow, cpLoginVars, cpInner, cpAsked, cpExp, cpSent>>

\* expires_at is read from the file, whoever wrote it last.
read_token_cache(c) ==
  /\ cpPc[c] = "wrote" /\ Moves(c, "lock")
  /\ cpExp' = [cpExp EXCEPT ![c] = IF cpFile # None THEN cpFile ELSE cpAsked[c] + CpDefault]
  /\ cpAsked' = [cpAsked EXCEPT ![c] = None]
  /\ UNCHANGED <<cpNow, cpLoginVars, cpFile, cpInner, cpSince, cpTok, cpSent, cpLost>>

Install(c) ==
  /\ cpPc[c] = "lock" /\ MayWrite(c) /\ Moves(c, "ready")
  /\ cpInner' = [tok |-> cpTok[c], exp |-> cpExp[c]]
  /\ cpTok' = [cpTok EXCEPT ![c] = None] /\ cpExp' = [cpExp EXCEPT ![c] = None]
  /\ UNCHANGED <<cpNow, cpLoginVars, cpFile, cpAsked, cpSince, cpSent, cpLost>>

----------------------------------------------------------------------------
(* complete                                                                 *)

Complete(c) ==
  /\ cpPc[c] = "ready" /\ MayRead(c) /\ Moves(c, "request")
  /\ cpSent' = [cpSent EXCEPT ![c] = cpInner.tok]
  /\ cpSince' = [cpSince EXCEPT ![c] = cpNow]
  /\ UNCHANGED <<cpNow, cpLoginVars, cpFile, cpInner, cpAsked, cpTok, cpExp, cpLost>>

\* The request is answered, or an exchange has failed; health ends without a request; a
\* cancelled turn drops the call at whatever it awaits.
Returns(c) ==
  /\ cpPc[c] \notin {"idle", "wrote"} /\ Moves(c, "idle")
  /\ cpAsked' = [cpAsked EXCEPT ![c] = None] /\ cpSince' = [cpSince EXCEPT ![c] = None]
  /\ cpTok' = [cpTok EXCEPT ![c] = None] /\ cpExp' = [cpExp EXCEPT ![c] = None]
  /\ cpSent' = [cpSent EXCEPT ![c] = None]
  /\ UNCHANGED <<cpNow, cpLoginVars, cpFile, cpInner, cpLost>>

\* The process ends and is started again: the file is left.
Restarts ==
  /\ load_github_token /\ cpInner' = [tok |-> None, exp |-> None]
  /\ cpPc' = [c \in CpCalls |-> "idle"] /\ cpAhead' = [c \in CpCalls |-> {}]
  /\ cpSent' = [c \in CpCalls |-> None] /\ cpAsked' = cpSent'
  /\ cpSince' = cpSent' /\ cpTok' = cpSent' /\ cpExp' = cpSent'
  /\ UNCHANGED <<cpNow, cpLoginVars, cpFile, cpLost>>

\* The token that c waits to install, or to use, lives until t.
EndsWaiting(c, t) ==
  \/ cpPc[c] = "lock" /\ cpTok[c] = t
  \/ cpPc[c] \in {"look", "ready"} /\ cpInner.tok = t

\* Steps that wait for nothing take no time.
Time ==
  /\ cpNow < CpMaxTime /\ cpLogin = "stored" /\ cpNow' = cpNow + 1
  /\ \A c \in CpCalls :
       /\ cpPc[c] # "wrote"
       /\ cpPc[c] = "exchange" => cpNow - cpSince[c] < CpExchange
       /\ cpPc[c] = "request" => cpNow - cpSince[c] < CpRequest
       /\ cpPc[c] = "lock" => ~MayWrite(c)
       /\ cpPc[c] \in {"look", "ready"} => ~MayRead(c)
  /\ cpLost' = (cpLost \/ \E c \in CpCalls : EndsWaiting(c, cpNow'))
  /\ UNCHANGED <<cpLoginVars, cpFile, cpInner, cpCall>>

CpNext ==
  \/ request_device_code \/ poll_for_access_token \/ Restarts \/ Time
  \/ \E c \in CpCalls : Asks(c) \/ ensure_provider(c) \/ resolve_copilot_api_token(c) \/ read_token_cache(c)
                        \/ Install(c) \/ Complete(c) \/ Returns(c)

CpSpec == CpInit /\ [][CpNext]_cpVars

----------------------------------------------------------------------------
(* Properties                                                               *)

\* As long as the cache file can be written and no token expires while a call waits for the
\* lock, no request is sent with a token that has expired, although the clock is read before
\* the look, a call may keep its own token with the expiry another call has just written, and
\* may find the file of an earlier process. (The margin of 60 s covers the exchanges, but not
\* a wait behind requests of up to 120 s.)
TokensAreAlive ==
  \A c \in CpCalls : cpPc[c] = "request" /\ cpSince[c] = cpNow /\ ~cpLost => cpSent[c] > cpNow
=============================================================================
