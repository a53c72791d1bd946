------------------------------ MODULE ToolCalls ------------------------------
(***************************************************************************)
(* The tool registry and its built-in tools (frankclaw-tools): which calls *)
(* of a turn are allowed, known and approved (lib.rs), and what each tool  *)
(* needs, refuses and changes (bash.rs, file.rs, web.rs, sessions.rs,      *)
(* messaging.rs, cron_tools.rs, config_tools.rs, memory.rs, pdf.rs,        *)
(* image.rs, audio.rs). Turns call tools at the same time.                 *)
(*                                                                         *)
(* Arguments are "ok", "absent" (a required one is missing or empty),      *)
(* "over" (a value is past its limit) and, for paths, "away" (absolute,    *)
(* with "..", a link that leaves the directory, no such entry). The        *)
(* workspace is one file, made of the pieces written into it.              *)
(***************************************************************************)
EXTENDS Naturals, FiniteSets

CONSTANTS
  TlTurns,     \* turns that call tools
  TlMenu,      \* the tools each of them may name
  TlAllowed,   \* tools of the agent (agent.tools)
  TlOverrides, \* the sets approved_tools may be; from_env leaves it empty, other builders need not
  TlPieces     \* bound: pieces of text written

VARIABLES
  tlPolicy,   \* approval level, tools approved by name, bash policy: fixed at the start
  tlHas,      \* services of the ToolContext
  tlCalls,    \* the call of each turn
  tlFile,     \* pieces in the file; {} when it does not exist
  tlPiece,    \* pieces used so far
  tlRunning,  \* shell commands that run, by turn
  tlOut       \* changes to cron jobs, channels, canvas, tabs and pages, counted modulo 2

tlVars == <<tlPolicy, tlHas, tlCalls, tlFile, tlPiece, tlRunning, tlOut>>

Services == {"workspace", "fetcher", "channels", "cron", "config", "memory", "audio", "canvas", "search"}
\* What is behind a service: a tab is opened, sent to an address or closed; a page is acted on.
Outside == {"channel", "jobs", "canvas", "tabs", "page"}
TlIdle == [tool |-> "none", step |-> "idle", seen |-> {}]

TlInit ==
  /\ tlPolicy \in [level : {"read", "mutating", "destructive"}, approved : TlOverrides,
                   bash : {"allow-all", "list", "deny-all"}]
  /\ tlHas \in {Services, {}}
  /\ tlCalls = [t \in TlTurns |-> TlIdle]
  /\ tlFile = {} /\ tlPiece = 0 /\ tlRunning = {} /\ tlOut = [p \in Outside |-> 0]

----------------------------------------------------------------------------
(* The tools: risk, services needed, the argument classes refused, and the  *)
(* part of the world a call can change.                                     *)

Tool(risk, needs, refuses, changes) ==
  [risk |-> risk, needs |-> needs, refuses |-> refuses, changes |-> changes]

session_inspect == Tool("read", {}, {}, "nothing")
canvas_get == Tool("read", {"canvas"}, {}, "nothing")
canvas_set == Tool("read", {"canvas"}, {}, "canvas")
canvas_append == Tool("read", {"canvas"}, {"absent"}, "canvas")
canvas_clear == Tool("read", {"canvas"}, {}, "canvas")
browser_open == Tool("read", {}, {"absent", "away"}, "tabs")
browser_extract == Tool("read", {}, {}, "nothing")
browser_snapshot == Tool("read", {}, {}, "nothing")
browser_click == Tool("mutating", {}, {"absent"}, "page")
browser_type == Tool("mutating", {}, {"absent"}, "page")
browser_wait == Tool("read", {}, {"absent"}, "nothing")
browser_press == Tool("mutating", {}, {"absent", "over"}, "page")
browser_sessions == Tool("read", {}, {}, "nothing")
browser_close == Tool("read", {}, {}, "tabs")
browser_screenshot == Tool("read", {}, {}, "nothing")
browser_aria_snapshot == Tool("read", {}, {}, "nothing")
bash == Tool("mutating", {}, {"absent"}, "processes")
web_fetch == Tool("read", {"fetcher"}, {"absent"}, "nothing")
web_search == Tool("read", {"search"}, {"absent", "over"}, "nothing")
sessions_list == Tool("read", {}, {}, "nothing")
sessions_history == Tool("read", {}, {}, "nothing")
file_read == Tool("read", {"workspace"}, {"absent", "away"}, "nothing")
file_write == Tool("mutating", {"workspace"}, {"absent", "over", "away"}, "file")
file_edit == Tool("mutating", {"workspace"}, {"absent", "away"}, "file")
message_send == Tool("mutating", {"channels"}, {"absent", "over"}, "channel")
message_react == Tool("mutating", {"channels"}, {"absent", "over"}, "channel")
cron_list == Tool("read", {"cron"}, {}, "nothing")
cron_add == Tool("mutating", {"cron"}, {"absent", "over"}, "jobs")
cron_remove == Tool("destructive", {"cron"}, {"absent"}, "jobs")
config_get == Tool("read", {"config"}, {"away"}, "nothing")
agents_list == Tool("read", {"config"}, {}, "nothing")
memory_get == Tool("read", {"workspace"}, {"absent", "away"}, "nothing")
memory_search == Tool("read", {"memory"}, {"absent"}, "nothing")
pdf_read == Tool("read", {"workspace"}, {"absent", "over", "away"}, "nothing")
image_describe == Tool("read", {"workspace"}, {"absent", "over", "away"}, "nothing")
audio_transcribe == Tool("read", {"workspace", "audio"}, {"absent", "over", "away"}, "nothing")

with_policy ==
  [session_inspect |-> session_inspect, canvas_get |-> canvas_get, canvas_set |-> canvas_set,
   canvas_append |-> canvas_append, canvas_clear |-> canvas_clear, bash |-> bash,
   web_fetch |-> web_fetch, web_search |-> web_search, sessions_list |-> sessions_list,
   sessions_history |-> sessions_history, file_read |-> file_read, file_write |-> file_write,
   file_edit |-> file_edit, message_send |-> message_send, message_react |-> message_react,
   cron_list |-> cron_list, cron_add |-> cron_add, cron_remove |-> cron_remove,
   config_get |-> config_get, agents_list |-> agents_list, memory_get |-> memory_get,
   memory_search |-> memory_search, pdf_read |-> pdf_read, image_describe |-> image_describe,
   audio_transcribe |-> audio_transcribe, browser_open |-> browser_open,
   browser_extract |-> browser_extract, browser_snapshot |-> browser_snapshot,
   browser_click |-> browser_click, browser_type |-> browser_type, browser_wait |-> browser_wait,
   browser_press |-> browser_press, browser_sessions |-> browser_sessions,
   browser_close |-> browser_close, browser_screenshot |-> browser_screenshot,
   browser_aria_snapshot |-> browser_aria_snapshot]

Rank == [read |-> 1, mutating |-> 2, destructive |-> 3]

\* Seeded bug: a tool is approved by the level above its own.
approves_next(level, risk) == Rank[risk] <= Rank[level] + 1

approves(level, risk) == Rank[risk] <= Rank[level]

is_approved(tool) == tool \in tlPolicy.approved \/ approves(tlPolicy.level, with_policy[tool].risk)

\* The list admits a single listed program; "over" stands for a chained command here.
bash_allows(arg) ==
  \/ tlPolicy.bash = "allow-all"
  \/ tlPolicy.bash = "list" /\ arg = "ok"

----------------------------------------------------------------------------
(* A call                                                                   *)

TlStep(t, step) == tlCalls' = [tlCalls EXCEPT ![t].step = step]
TlReturn(t) == tlCalls' = [tlCalls EXCEPT ![t] = TlIdle]
TlOthers == UNCHANGED <<tlPolicy, tlHas>>

\* Allowed for the agent, known, approved, with its service and arguments it takes.
Permitted(tool, arg) ==
  /\ tool \in TlAllowed /\ tool \in DOMAIN with_policy
  /\ is_approved(tool)
  /\ with_policy[tool].needs \subseteq tlHas
  /\ arg \notin with_policy[tool].refuses
  /\ tool = "bash" => bash_allows(arg)

\* The model names a tool: otherwise the call is an error and nothing else.
invoke_allowed(t) ==
  /\ tlCalls[t].step = "idle"
  /\ \E tool \in TlMenu[t], arg \in {"ok", "absent", "over", "away"} :
       \/ ~Permitted(tool, arg) /\ UNCHANGED tlCalls
       \/ /\ Permitted(tool, arg)
          /\ tlCalls' = [tlCalls EXCEPT ![t] = [TlIdle EXCEPT !.tool = tool, !.step = "run"]]
  /\ TlOthers /\ UNCHANGED <<tlFile, tlPiece, tlRunning, tlOut>>

\* Tools that only look: whatever the answer, nothing has changed.
Look(t) ==
  /\ tlCalls[t].step = "run" /\ with_policy[tlCalls[t].tool].changes = "nothing"
  /\ TlReturn(t)
  /\ TlOthers /\ UNCHANGED <<tlFile, tlPiece, tlRunning, tlOut>>

\* Create or replace the file.
WriteFile(t) ==
  /\ tlCalls[t].step = "run" /\ tlCalls[t].tool = "file_write" /\ tlPiece < TlPieces
  /\ tlPiece' = tlPiece + 1 /\ tlFile' = {tlPiece + 1}
  /\ TlReturn(t)
  /\ TlOthers /\ UNCHANGED <<tlRunning, tlOut>>

\* The file is read; a text that is not there once, or a result too long, fails the call.
ReadForEdit(t) ==
  /\ tlCalls[t].step = "run" /\ tlCalls[t].tool = "file_edit"
  /\ \/ tlFile # {} /\ tlCalls' = [tlCalls EXCEPT ![t].step = "write", ![t].seen = tlFile]
     \/ TlReturn(t)
  /\ TlOthers /\ UNCHANGED <<tlFile, tlPiece, tlRunning, tlOut>>

\* The edited text replaces the file, whatever it holds by now.
WriteEdited(t) ==
  /\ tlCalls[t].step = "write" /\ tlPiece < TlPieces
  /\ tlPiece' = tlPiece + 1
  /\ tlFile' = tlCalls[t].seen \cup {tlPiece + 1}
  /\ TlReturn(t)
  /\ TlOthers /\ UNCHANGED <<tlRunning, tlOut>>

\* A shell is started and waited for; at the timeout (at most 600 s) the tool answers and
\* the command is left to itself, for no kill_on_drop was asked for.
execute_command(t) ==
  /\ \/ /\ tlCalls[t].step = "run" /\ tlCalls[t].tool = "bash"
        /\ tlRunning' = tlRunning \cup {t} /\ TlStep(t, "wait")
     \/ /\ tlCalls[t].step = "wait" /\ t \notin tlRunning
        /\ TlReturn(t) /\ UNCHANGED tlRunning
     \/ /\ tlCalls[t].step = "wait" /\ TlReturn(t) /\ UNCHANGED tlRunning
  /\ TlOthers /\ UNCHANGED <<tlFile, tlPiece, tlOut>>

CommandEnds(t) ==
  /\ t \in tlRunning /\ tlRunning' = tlRunning \ {t}
  /\ TlOthers /\ UNCHANGED <<tlCalls, tlFile, tlPiece, tlOut>>

\* A channel, the cron service, the canvas or the browser is asked; it may refuse.
ChangeService(t) ==
  /\ tlCalls[t].step = "run"
  /\ LET part == with_policy[tlCalls[t].tool].changes
     IN part \in Outside /\ (UNCHANGED tlOut \/ tlOut' = [tlOut EXCEPT ![part] = 1 - @])
  /\ TlReturn(t)
  /\ TlOthers /\ UNCHANGED <<tlFile, tlPiece, tlRunning>>

TlNext ==
  \E t \in TlTurns :
    \/ invoke_allowed(t) \/ Look(t) \/ WriteFile(t) \/ ReadForEdit(t) \/ WriteEdited(t)
    \/ execute_command(t) \/ CommandEnds(t) \/ ChangeService(t)

TlSpec == TlInit /\ [][TlNext]_tlVars

----------------------------------------------------------------------------
(* Properties                                                               *)

\* The parts of the world that change in a step.
Changed ==
  {p \in Outside : tlOut'[p] # tlOut[p]}
    \cup {p \in {"file"} : tlFile' # tlFile} \cup {p \in {"processes"} : tlRunning' # tlRunning}

\* With the default approval level no sequence of calls, of however many turns, writes a file,
\* starts a command, sends to a channel, acts on a page or touches the schedule, unless a tool
\* that does so is approved by name. What does change is the canvas and which tabs are open and
\* where: browser_open and browser_close are classed as reading, like the canvas tools.
ApprovalIsBinding ==
  [][tlPolicy.level = "read" =>
       \A p \in Changed : p \in {"canvas", "tabs"}
         \/ \E tool \in tlPolicy.approved \cap DOMAIN with_policy : with_policy[tool].changes = p]_tlVars
=============================================================================
