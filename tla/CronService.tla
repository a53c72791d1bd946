----------------------------- MODULE CronService -----------------------------
(***************************************************************************)
(* The cron service (service.rs) and its callers in the gateway: the tick  *)
(* loop, the tasks it spawns, cron.add / cron.remove / cron.run, the job   *)
(* file that every change rewrites from a snapshot, and a crash and        *)
(* restart of the gateway (start_cron_runtime).                            *)
(*                                                                         *)
(* A job is what decides when it runs: its incarnation (a new one with     *)
(* every insert), the status and the start time of last_run. A disabled    *)
(* job, or one whose schedule does not parse, is one with no due times.    *)
(***************************************************************************)
EXTENDS Naturals, FiniteSets

CONSTANTS
  Ids,         \* job ids
  ConfigJobs,  \* ids of config.cron.jobs
  Addable,     \* ids cron.add is called with
  Edits,       \* calls a model makes: subset of {"add", "remove", "run"}
  Due,         \* Due[i]: the times the schedule of i names
  Period,      \* the tick interval and the window, 60 s
  Jitter,      \* how late a tick may be served
  MaxTime, MaxEdits, MaxCrashes

ASSUME CronConstants ==
  /\ ConfigJobs \subseteq Ids /\ Addable \subseteq Ids
  /\ Due \in [Ids -> SUBSET Nat]
  /\ Period \in Nat \ {0} /\ Jitter \in Nat
  /\ MaxTime \in Nat /\ MaxEdits \in Nat /\ MaxCrashes \in Nat

VARIABLES
  now, tickAt, \* the clock and the next tick of the interval
  up,          \* the gateway process runs
  jobs,        \* the job table
  ver,         \* number of changes made to the table
  loop,        \* tick loop: "idle", "snapshot", "write"
  due,         \* due_jobs of the current tick: <<id, incarnation, due time>>
  loopSnap,    \* the loop's snapshot
  runs,        \* executions in progress
  todo,        \* save_jobs calls that have not read the table yet
  snaps,       \* snapshots taken and not yet written
  file,        \* the job file, or Corrupt
  launched,    \* the <<id, incarnation, due time>> whose task was spawned since the start
  overwritten, \* ids whose last_run the run of a replaced incarnation has written to since then
  edits, crashes

vars == <<now, tickAt, up, jobs, ver, loop, due, loopSnap, runs, todo, snaps, file,
          launched, overwritten, edits, crashes>>

Absent == [gen |-> 0, status |-> "absent", at |-> 0]
Corrupt == [ver |-> 0, jobs |-> [i \in Ids |-> Absent]]   \* versions start at 1
NewJob(g) == [gen |-> g, status |-> "never", at |-> 0]
Snapshot == [ver |-> ver, jobs |-> jobs]

Init ==
  /\ now = 1 /\ tickAt = 1 /\ up = TRUE
  /\ jobs = [i \in Ids |-> IF i \in ConfigJobs THEN NewJob(1) ELSE Absent]
  /\ ver = 1 /\ loop = "idle" /\ due = {} /\ loopSnap = [ver |-> 1, jobs |-> jobs]
  /\ runs = {} /\ todo = 0 /\ snaps = {} /\ file = [ver |-> 1, jobs |-> jobs]
  /\ launched = {} /\ overwritten = {} /\ edits = 0 /\ crashes = 0

Change(new) == jobs' = new /\ ver' = ver + 1

-----------------------------------------------------------------------------
(* The tick loop.                                                          *)

\* The first scheduled time after the start of the window.
NextRun(i) ==
  LET later == {d \in Due[i] : d + Period > now} IN
  IF later = {} THEN now + 1 ELSE CHOOSE d \in later : \A e \in later : d <= e

\* Seeded bugs: the previous run is not looked at; nor is the time it started.
ReadyAgain(i) == jobs[i].status \notin {"absent", "running"} /\ NextRun(i) <= now
ReadyWhileActive(i) ==
  /\ jobs[i].status # "absent" /\ NextRun(i) <= now
  /\ ~(jobs[i].status # "never" /\ jobs[i].at >= NextRun(i))
\* A job is due when its next run lies in the window, no run of it is marked
\* Running, and none started at or after that time.
Ready(i) ==
  /\ jobs[i].status \notin {"absent", "running"}
  /\ NextRun(i) <= now
  /\ ~(jobs[i].status # "never" /\ jobs[i].at >= NextRun(i))

\* interval.tick(): the due jobs are marked under the write lock. Missed ticks
\* are skipped, the next one is the first multiple of the period from now on.
Tick ==
  /\ up /\ loop = "idle" /\ now >= tickAt
  /\ LET ready == {i \in Ids : Ready(i)} IN
     /\ due' = {<<i, jobs[i].gen, NextRun(i)>> : i \in ready}
     /\ Change([i \in Ids |-> IF i \in ready
                                THEN [jobs[i] EXCEPT !.status = "running", !.at = now]
                                ELSE jobs[i]])
  /\ tickAt' = CHOOSE t \in now + 1 .. now + Period : \E k \in 1..(MaxTime + 1) : t = tickAt + k * Period
  /\ loop' = "snapshot"
  /\ UNCHANGED <<now, up, loopSnap, runs, todo, snaps, file, launched, overwritten, edits, crashes>>

LoopSnapshot ==
  /\ loop = "snapshot"
  /\ loopSnap' = Snapshot /\ loop' = "write"
  /\ UNCHANGED <<now, tickAt, up, jobs, ver, due, runs, todo, snaps, file, launched, overwritten,
                 edits, crashes>>

\* The file is written, then one task per due job is spawned.
WriteAndSpawn ==
  /\ loop = "write"
  /\ file' = loopSnap /\ loop' = "idle" /\ due' = {}
  /\ runs' = runs \cup {[id |-> d[1], gen |-> d[2], at |-> now, manual |-> FALSE] : d \in due}
  /\ launched' = launched \cup due
  /\ UNCHANGED <<now, tickAt, up, jobs, ver, loopSnap, todo, snaps, overwritten, edits, crashes>>

-----------------------------------------------------------------------------
(* Executions, and save_jobs.                                              *)

\* Seeded bug: only a successful run updates last_run.
FinishOnSuccess(r) ==
  /\ r \in runs /\ runs' = runs \ {r}
  /\ \/ /\ ~r.manual /\ jobs[r.id].status # "absent"
        /\ Change([jobs EXCEPT ![r.id].status = "done", ![r.id].at = r.at])
        /\ todo' = todo + 1
     \/ UNCHANGED <<jobs, ver, todo>>
  /\ UNCHANGED <<now, tickAt, up, loop, due, loopSnap, snaps, file, launched, overwritten, edits, crashes>>

\* The runner returned or timed out: last_run of the job now stored under the id
\* is replaced. A manual run leaves the table alone.
Finish(r) ==
  /\ r \in runs /\ runs' = runs \ {r}
  /\ \/ /\ ~r.manual /\ jobs[r.id].status # "absent"
        /\ Change([jobs EXCEPT ![r.id].status = "done", ![r.id].at = r.at])
        /\ todo' = todo + 1
        /\ overwritten' = IF jobs[r.id].gen = r.gen THEN overwritten ELSE overwritten \cup {r.id}
     \/ /\ ~r.manual /\ jobs[r.id].status = "absent"
        /\ todo' = todo + 1 /\ UNCHANGED <<jobs, ver, overwritten>>
     \/ r.manual /\ UNCHANGED <<jobs, ver, todo, overwritten>>
  /\ UNCHANGED <<now, tickAt, up, loop, due, loopSnap, snaps, file, launched, edits, crashes>>

\* save_jobs reads the table under the read lock...
TakeSnapshot ==
  /\ todo > 0
  /\ todo' = todo - 1 /\ snaps' = snaps \cup {Snapshot}
  /\ UNCHANGED <<now, tickAt, up, jobs, ver, loop, due, loopSnap, runs, file, launched, overwritten,
                 edits, crashes>>

\* ... and writes the file without any lock.
WriteSnapshot ==
  /\ \E s \in snaps : file' = s /\ snaps' = snaps \ {s}
  /\ UNCHANGED <<now, tickAt, up, jobs, ver, loop, due, loopSnap, runs, todo, launched, overwritten,
                 edits, crashes>>

-----------------------------------------------------------------------------
(* Callers.                                                                *)

Edit(op) == up /\ op \in Edits /\ edits < MaxEdits /\ edits' = edits + 1

\* CronService::add replaces whatever is stored under the id.
CronAdd(i) ==
  /\ Edit("add") /\ i \in Addable
  /\ Change([jobs EXCEPT ![i] = NewJob(ver + 1)])
  /\ todo' = todo + 1
  /\ UNCHANGED <<now, tickAt, up, loop, due, loopSnap, runs, snaps, file, launched, overwritten, crashes>>

CronRemove(i) ==
  /\ Edit("remove")
  /\ Change([jobs EXCEPT ![i] = Absent])
  /\ todo' = todo + 1
  /\ UNCHANGED <<now, tickAt, up, loop, due, loopSnap, runs, snaps, file, launched, overwritten, crashes>>

\* cron_run looks the job up and spawns its prompt.
CronRun(i) ==
  /\ Edit("run") /\ jobs[i].status # "absent"
  /\ runs' = runs \cup {[id |-> i, gen |-> jobs[i].gen, at |-> now, manual |-> TRUE]}
  /\ UNCHANGED <<now, tickAt, up, jobs, ver, loop, due, loopSnap, todo, snaps, file, launched, overwritten,
                 crashes>>

Advance ==
  /\ now < MaxTime
  /\ up /\ loop = "idle" => now < tickAt + Jitter
  /\ now' = now + 1
  /\ UNCHANGED <<tickAt, up, jobs, ver, loop, due, loopSnap, runs, todo, snaps, file, launched, overwritten,
                 edits, crashes>>

\* The process dies; a write in progress leaves a truncated file.
Crash ==
  /\ up /\ crashes < MaxCrashes
  /\ crashes' = crashes + 1 /\ up' = FALSE
  /\ loop' = "idle" /\ due' = {} /\ runs' = {} /\ todo' = 0 /\ snaps' = {}
  /\ launched' = {} /\ overwritten' = {}
  /\ file' \in IF loop = "write" \/ snaps # {} THEN {file, Corrupt} ELSE {file}
  /\ UNCHANGED <<now, tickAt, jobs, ver, loopSnap, edits>>

\* CronService::open and sync_jobs: the configured jobs, each with the last_run
\* the file has for it. A file that does not parse stops the gateway.
Restart ==
  /\ ~up /\ file # Corrupt
  /\ up' = TRUE
  /\ Change([i \in Ids |-> IF i \notin ConfigJobs THEN Absent
                           ELSE IF file.jobs[i].status = "absent" THEN NewJob(ver + 1)
                           ELSE file.jobs[i]])
  /\ file' = [ver |-> ver', jobs |-> jobs'] /\ tickAt' = now
  /\ UNCHANGED <<now, loop, due, loopSnap, runs, todo, snaps, launched, overwritten, edits, crashes>>

-----------------------------------------------------------------------------
Loop == Tick \/ LoopSnapshot \/ WriteAndSpawn
Saving == TakeSnapshot \/ WriteSnapshot

Next ==
  \/ Loop \/ Saving \/ Advance \/ Crash \/ Restart
  \/ \E r \in runs : Finish(r)
  \/ \E i \in Ids : CronAdd(i) \/ CronRemove(i) \/ CronRun(i)

Spec == Init /\ [][Next]_vars

\* Tokio runs the loop and the tasks; a run ends by itself or by JOB_TIMEOUT.
RunOf(i) == \E r \in runs : r.id = i /\ Finish(r)
FairSpec == Spec /\ WF_vars(Loop) /\ WF_vars(Saving) /\ \A i \in Ids : WF_vars(RunOf(i))

-----------------------------------------------------------------------------
(* Properties.                                                             *)

\* No two scheduled runs of a job overlap: the tick skips a job whose previous
\* run is still active. A job that was replaced (cron.add) loses that mark when a run
\* of the one before it ends: Finish does not look at what is stored under the id.
ScheduledRunsAlternate ==
  \A r1, r2 \in runs :
    (~r1.manual /\ ~r2.manual /\ r1.id = r2.id /\ r1.gen = r2.gen /\ r1.id \notin overwritten) => r1 = r2

\* Every run is recorded as ended, failed and timed out ones too, unless the gateway
\* crashes in it.
RunsAreRecorded ==
  \A i \in Ids : (jobs[i].status = "running") ~> (jobs[i].status # "running" \/ crashes > 0)

\* A scheduled time starts a job at most once in a life of the gateway, however
\* late ticks are served and however their windows overlap, as long as last_run is
\* the job's own.
FiresOnce == [][\A d \in due' \ due : d \notin launched \/ d[1] \in overwritten]_vars
=============================================================================
