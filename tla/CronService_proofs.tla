-------------------------- MODULE CronService_proofs --------------------------
(***************************************************************************)
(* Proofs about CronService for any jobs, schedules, tick period, jitter,  *)
(* edits and crashes: scheduled runs of a job do not overlap, and a        *)
(* scheduled time starts its job once.                                     *)
(***************************************************************************)
EXTENDS CronService, WellFoundedInduction, TLAPS

Job == [gen : Nat, status : {"absent", "never", "running", "done"}, at : Nat]
Start == Ids \X Nat \X Nat
Table == [Ids -> Job]
CronRuns == [id : Ids, gen : Nat, at : Nat, manual : BOOLEAN]

\* The types the proofs need.
CrTypeOK ==
  /\ now \in Nat /\ ver \in Nat /\ jobs \in Table
  /\ due \subseteq Start /\ launched \subseteq Start /\ runs \subseteq CronRuns
  /\ file.jobs \in Table /\ loopSnap.jobs \in Table /\ \A s \in snaps : s.jobs \in Table

\* Incarnations are numbered by the version of the table they came with.
CrVersions ==
  /\ \A i \in Ids : jobs[i].gen <= ver /\ file.jobs[i].gen <= ver /\ loopSnap.jobs[i].gen <= ver
  /\ \A s \in snaps : \A i \in Ids : s.jobs[i].gen <= ver
  /\ \A d \in due \cup launched : d[2] <= ver
  /\ \A r \in runs : r.gen <= ver

\* The loop between two ticks has nothing due, and a gateway that is down runs nothing.
CrLoop ==
  /\ loop = "idle" => due = {}
  /\ ~up => loop = "idle" /\ runs = {} /\ launched = {}
  /\ \A d, e \in due : d[1] = e[1] => d = e
  /\ \A d \in due \cup launched : d[3] <= now

\* The incarnation g of job i is the one in the table.
Stored(i, g) == jobs[i].status # "absent" /\ jobs[i].gen = g

\* Scheduled runs of a job whose last_run is its own.
Own(r) == ~r.manual /\ r.id \notin overwritten

\* What last_run says of the starts of a job: it is marked while one is due or under way,
\* there is only one such start of an incarnation, and the mark is no older than any of them.
CrStarts ==
  /\ \A d \in due : d[1] \notin overwritten /\ Stored(d[1], d[2]) => jobs[d[1]].status = "running"
  /\ \A r \in runs : Own(r) /\ Stored(r.id, r.gen) => jobs[r.id].status = "running"
  /\ \A d \in due, r \in runs : Own(r) /\ r.id = d[1] => r.gen # d[2]
  /\ ScheduledRunsAlternate
  /\ \A l \in launched \cup due : l[1] \notin overwritten /\ Stored(l[1], l[2]) =>
       jobs[l[1]].status \in {"running", "done"} /\ l[3] <= jobs[l[1]].at
  /\ \A l \in launched, r \in runs : Own(r) /\ r.id = l[1] /\ r.gen = l[2] => l[3] <= r.at

\* The inductive invariant.
CrInv == CrTypeOK /\ CrVersions /\ CrLoop /\ CrStarts

\* A non-empty set of natural numbers has a smallest one.
LEMMA LeastNatural ==
  ASSUME NEW S \in SUBSET Nat, S # {}
  PROVE  \E m \in S : \A n \in S : m <= n
<1>1. PICK m \in S : \A n \in S : ~(<<n, m>> \in OpToRel(<, Nat)) BY NatLessThanWellFounded, WFMin
<1>2. \A n \in S : ~(n < m) BY <1>1 DEF OpToRel
<1> QED BY <1>2

\* The next run is a time.
LEMMA NextRunIsTime ==
  ASSUME CrTypeOK, NEW i \in Ids
  PROVE  NextRun(i) \in Nat
<1> DEFINE later == {d \in Due[i] : d + Period > now}
<1>1. later \subseteq Nat /\ now + 1 \in Nat BY CronConstants DEF CronConstants, CrTypeOK
<1>2. CASE later = {} BY <1>1, <1>2 DEF NextRun
<1>3. CASE later # {}
  <2>1. \E d \in later : \A e \in later : d <= e BY <1>1, <1>3, LeastNatural
  <2>2. NextRun(i) \in later BY <1>3, <2>1 DEF NextRun
  <2> QED BY <1>1, <2>2
<1> QED BY <1>2, <1>3

\* What a tick makes of the table.
LEMMA TickMarks ==
  ASSUME CrTypeOK, Tick
  PROVE  /\ jobs' \in Table /\ ver' = ver + 1 /\ now' = now
         /\ \A i \in Ids : jobs'[i].gen = jobs[i].gen
         /\ \A i \in Ids : Ready(i) => jobs'[i].status = "running" /\ jobs'[i].at = now
         /\ \A i \in Ids : ~Ready(i) => jobs'[i] = jobs[i]
         /\ \A d \in due' : d \in Start /\ Ready(d[1]) /\ d[2] = jobs[d[1]].gen /\ d[3] = NextRun(d[1]) /\ d[3] <= now
         /\ \A d, e \in due' : d[1] = e[1] => d = e
<1> DEFINE ready == {i \in Ids : Ready(i)}
<1>1. /\ due' = {<<i, jobs[i].gen, NextRun(i)>> : i \in ready} /\ now' = now /\ ver' = ver + 1
      /\ jobs' = [i \in Ids |-> IF i \in ready THEN [jobs[i] EXCEPT !.status = "running", !.at = now] ELSE jobs[i]]
  BY DEF Tick, Change
<1>2. ASSUME NEW i \in Ids
      PROVE  /\ Ready(i) => jobs'[i] \in Job /\ jobs'[i].gen = jobs[i].gen /\ jobs'[i].status = "running" /\ jobs'[i].at = now
             /\ ~Ready(i) => jobs'[i] = jobs[i]
  <2>1. jobs[i] \in Job BY DEF CrTypeOK, Table
  <2>2. Ready(i) => jobs'[i] = [jobs[i] EXCEPT !.status = "running", !.at = now] BY <1>1
  <2>3. [jobs[i] EXCEPT !.status = "running", !.at = now] \in Job BY <2>1 DEF Job, CrTypeOK
  <2>4. [jobs[i] EXCEPT !.status = "running", !.at = now].gen = jobs[i].gen
        /\ [jobs[i] EXCEPT !.status = "running", !.at = now].status = "running"
        /\ [jobs[i] EXCEPT !.status = "running", !.at = now].at = now
    BY <2>1 DEF Job
  <2> QED BY <1>1, <2>2, <2>3, <2>4
<1>3. jobs' \in Table
  <2>1. \A i \in Ids : jobs'[i] \in Job BY <1>2 DEF CrTypeOK, Table
  <2>2. jobs' = [i \in Ids |-> jobs'[i]] BY <1>1
  <2> QED BY <2>1, <2>2 DEF Table
<1>4. ASSUME NEW d \in due'
      PROVE  d \in Start /\ Ready(d[1]) /\ d[2] = jobs[d[1]].gen /\ d[3] = NextRun(d[1]) /\ d[3] <= now
  <2>1. PICK i \in ready : d = <<i, jobs[i].gen, NextRun(i)>> BY <1>1
  <2>2. NextRun(i) \in Nat /\ jobs[i].gen \in Nat /\ i \in Ids BY NextRunIsTime DEF CrTypeOK, Table, Job
  <2>3. NextRun(i) <= now /\ Ready(i) BY DEF Ready
  <2> QED BY <2>1, <2>2, <2>3 DEF Start
<1>5. ASSUME NEW d \in due', NEW e \in due', d[1] = e[1] PROVE d = e
  <2>1. PICK i \in ready : d = <<i, jobs[i].gen, NextRun(i)>> BY <1>1
  <2>2. PICK j \in ready : e = <<j, jobs[j].gen, NextRun(j)>> BY <1>1
  <2> QED BY <1>5, <2>1, <2>2
<1> QED BY <1>1, <1>2, <1>3, <1>4, <1>5

\* What the end of a run makes of the table.
LEMMA FinishRecords ==
  ASSUME CrTypeOK, NEW r \in runs, Finish(r)
  PROVE  /\ runs' = runs \ {r} /\ UNCHANGED <<now, up, loop, due, loopSnap, snaps, file, launched>>
         /\ jobs' \in Table /\ (ver' = ver \/ ver' = ver + 1) /\ \A i \in Ids : jobs'[i].gen = jobs[i].gen
         /\ \/ jobs' = jobs /\ overwritten' = overwritten /\ (~r.manual => jobs[r.id].status = "absent")
            \/ /\ ~r.manual /\ jobs[r.id].status # "absent" /\ jobs'[r.id].status = "done" /\ jobs'[r.id].at = r.at
               /\ \A i \in Ids \ {r.id} : jobs'[i] = jobs[i]
               /\ overwritten' = IF jobs[r.id].gen = r.gen THEN overwritten ELSE overwritten \cup {r.id}
<1>1. r.id \in Ids /\ r.at \in Nat /\ jobs[r.id] \in Job BY DEF CrTypeOK, CronRuns, Table
<1>2. runs' = runs \ {r} /\ UNCHANGED <<now, up, loop, due, loopSnap, snaps, file, launched>> BY DEF Finish
<1>3. CASE jobs' = jobs /\ ver' = ver BY <1>2, <1>3 DEF Finish, Change, CrTypeOK
<1>4. CASE ~r.manual /\ jobs[r.id].status # "absent"
  <2>1. /\ jobs' = [jobs EXCEPT ![r.id].status = "done", ![r.id].at = r.at] /\ ver' = ver + 1
        /\ overwritten' = IF jobs[r.id].gen = r.gen THEN overwritten ELSE overwritten \cup {r.id}
    BY <1>4 DEF Finish, Change
  <2> DEFINE q == [[jobs[r.id] EXCEPT !.status = "done"] EXCEPT !.at = r.at]
  <2>2. q \in Job /\ q.status = "done" /\ q.at = r.at /\ q.gen = jobs[r.id].gen BY <1>1 DEF Job
  <2>3. jobs' = [jobs EXCEPT ![r.id] = q] BY <1>1, <2>1 DEF CrTypeOK, Table
  <2> HIDE DEF q
  <2>4. jobs'[r.id] = q /\ jobs' \in Table /\ \A i \in Ids \ {r.id} : jobs'[i] = jobs[i]
    BY <1>1, <2>2, <2>3 DEF CrTypeOK, Table
  <2> QED BY <1>2, <1>4, <2>1, <2>2, <2>4
<1> QED BY <1>3, <1>4 DEF Finish

\* What cron.add and cron.remove make of the table.
LEMMA EditsReplace ==
  ASSUME CrTypeOK, NEW i \in Ids, CronAdd(i) \/ CronRemove(i)
  PROVE  /\ UNCHANGED <<now, up, loop, due, loopSnap, runs, snaps, file, launched, overwritten>> /\ up
         /\ jobs' \in Table /\ ver' = ver + 1 /\ jobs'[i].gen <= ver' /\ (jobs'[i].status # "absent" => jobs'[i].gen = ver + 1)
         /\ \A j \in Ids \ {i} : jobs'[j] = jobs[j]
<1>1. UNCHANGED <<now, up, loop, due, loopSnap, runs, snaps, file, launched, overwritten>> /\ up /\ ver' = ver + 1
  BY DEF CronAdd, CronRemove, Edit, Change
<1>2. PICK q \in {NewJob(ver + 1), Absent} : jobs' = [jobs EXCEPT ![i] = q] BY DEF CronAdd, CronRemove, Change
<1>3. q \in Job /\ q.gen <= ver + 1 /\ (q.status # "absent" => q.gen = ver + 1) BY DEF CrTypeOK, Job, NewJob, Absent
<1>4. jobs'[i] = q /\ jobs' \in Table /\ \A j \in Ids \ {i} : jobs'[j] = jobs[j] BY <1>2, <1>3 DEF CrTypeOK, Table
<1> QED BY <1>1, <1>3, <1>4

\* What a restart makes of the table.
LEMMA RestartLoads ==
  ASSUME CrTypeOK, CrVersions, Restart
  PROVE  /\ ~up /\ UNCHANGED <<now, loop, due, loopSnap, runs, snaps, launched, overwritten>>
         /\ jobs' \in Table /\ ver' = ver + 1 /\ file'.jobs = jobs' /\ \A i \in Ids : jobs'[i].gen <= ver'
<1>1. /\ ~up /\ UNCHANGED <<now, loop, due, loopSnap, runs, snaps, launched, overwritten>> /\ ver' = ver + 1
      /\ file' = [ver |-> ver', jobs |-> jobs']
      /\ jobs' = [i \in Ids |-> IF i \notin ConfigJobs THEN Absent
                                ELSE IF file.jobs[i].status = "absent" THEN NewJob(ver + 1) ELSE file.jobs[i]]
  BY DEF Restart, Change
<1>2. ASSUME NEW i \in Ids PROVE jobs'[i] \in Job /\ jobs'[i].gen <= ver + 1
  <2>1. file.jobs[i] \in Job /\ file.jobs[i].gen <= ver /\ ver \in Nat BY DEF CrTypeOK, CrVersions, Table
  <2>2. file.jobs[i].gen <= ver + 1 BY <2>1 DEF Job
  <2>3. Absent \in Job /\ Absent.gen <= ver + 1 /\ NewJob(ver + 1) \in Job /\ NewJob(ver + 1).gen <= ver + 1
    BY <2>1 DEF Job, Absent, NewJob
  <2>4. jobs'[i] \in {Absent, NewJob(ver + 1), file.jobs[i]} BY <1>1
  <2> QED BY <2>1, <2>2, <2>3, <2>4
<1>3. jobs' = [i \in Ids |-> jobs'[i]] BY <1>1
<1>4. jobs' \in Table BY <1>2, <1>3 DEF Table
<1> QED BY <1>1, <1>2, <1>4

\* What spawning makes of the runs.
LEMMA SpawnAdds ==
  ASSUME CrTypeOK, WriteAndSpawn
  PROVE  /\ UNCHANGED <<now, up, jobs, ver, loopSnap, snaps, overwritten>> /\ loop = "write" /\ loop' = "idle"
         /\ due' = {} /\ file' = loopSnap /\ launched' = launched \cup due
         /\ runs' \subseteq CronRuns /\ runs \subseteq runs'
         /\ \A r \in runs' \ runs : \E d \in due : r.id = d[1] /\ r.gen = d[2] /\ r.at = now /\ ~r.manual
         /\ \A r, q \in runs' \ runs : r.id = q.id /\ r.gen = q.gen => r = q
<1> DEFINE Spawned(d) == [id |-> d[1], gen |-> d[2], at |-> now, manual |-> FALSE]
<1>1. /\ UNCHANGED <<now, up, jobs, ver, loopSnap, snaps, overwritten>> /\ loop = "write" /\ loop' = "idle"
      /\ due' = {} /\ file' = loopSnap /\ launched' = launched \cup due
      /\ runs' = runs \cup {Spawned(d) : d \in due}
  BY DEF WriteAndSpawn
<1>2. ASSUME NEW r \in runs' \ runs PROVE \E d \in due : r = Spawned(d) BY <1>1
<1>3. ASSUME NEW d \in due
      PROVE  /\ Spawned(d) \in CronRuns /\ Spawned(d).id = d[1] /\ Spawned(d).gen = d[2] /\ Spawned(d).at = now
             /\ ~Spawned(d).manual
  <2>1. d[1] \in Ids /\ d[2] \in Nat /\ now \in Nat BY DEF CrTypeOK, Start
  <2> QED BY <2>1 DEF CronRuns
<1>4. ASSUME NEW r \in runs' \ runs, NEW q \in runs' \ runs, r.id = q.id, r.gen = q.gen PROVE r = q
  <2>1. PICK d \in due : r = Spawned(d) BY <1>2
  <2>2. PICK e \in due : q = Spawned(e) BY <1>2
  <2>3. d[1] = e[1] /\ d[2] = e[2] BY <1>3, <1>4, <2>1, <2>2
  <2> QED BY <2>1, <2>2, <2>3
<1>5. \A r \in runs' \ runs : r \in CronRuns BY <1>2, <1>3
<1> HIDE DEF Spawned
<1>6. runs' \subseteq CronRuns /\ runs \subseteq runs' BY <1>1, <1>5 DEF CrTypeOK
<1>7. \A r \in runs' \ runs : \E d \in due : r.id = d[1] /\ r.gen = d[2] /\ r.at = now /\ ~r.manual BY <1>2, <1>3
<1> QED BY <1>1, <1>4, <1>6, <1>7

\* Saving and the clock leave the table and the starts alone.
Apart == UNCHANGED <<up, jobs, ver, due, launched, overwritten>> /\ now' \in Nat /\ now <= now' /\ (loop' = "idle" => loop = "idle")
         /\ (loop = "idle" => loop' = "idle")

LEMMA ApartSteps ==
  ASSUME CrTypeOK, LoopSnapshot \/ TakeSnapshot \/ WriteSnapshot \/ Advance \/ UNCHANGED vars
  PROVE  Apart /\ runs' = runs
  BY DEF Apart, LoopSnapshot, TakeSnapshot, WriteSnapshot, Advance, vars, CrTypeOK

\* Every step keeps the types, and incarnations below the table's version.
LEMMA VersionsKept == CrInv /\ [Next]_vars => CrTypeOK' /\ CrVersions'
<1> SUFFICES ASSUME CrTypeOK, CrVersions, [Next]_vars PROVE CrTypeOK' /\ CrVersions'
  BY DEF CrInv
<1>v. /\ ver \in Nat /\ \A i \in Ids : jobs[i].gen \in Nat /\ file.jobs[i].gen \in Nat /\ loopSnap.jobs[i].gen \in Nat
      /\ \A s \in snaps : \A i \in Ids : s.jobs[i].gen \in Nat
      /\ \A d \in due \cup launched : d[2] \in Nat
      /\ \A r \in runs : r.gen \in Nat
  BY DEF CrTypeOK, Table, Job, Start, CronRuns
<1>1. CASE Tick
  <2>1. UNCHANGED <<loopSnap, runs, snaps, file, launched>> BY <1>1 DEF Tick
  <2>2. /\ jobs' \in Table /\ ver' = ver + 1 /\ now' = now /\ \A i \in Ids : jobs'[i].gen = jobs[i].gen
        /\ \A d \in due' : d \in Start /\ Ready(d[1]) /\ d[2] = jobs[d[1]].gen
    BY <1>1, TickMarks
  <2>3. CrTypeOK' BY <1>v, <2>1, <2>2 DEF CrTypeOK
  <2>4. \A d \in due' : d[2] <= ver /\ d[2] \in Nat BY <2>2 DEF CrVersions, Start
  <2>5. CrVersions' BY <1>v, <2>1, <2>2, <2>4 DEF CrVersions
  <2> QED BY <2>3, <2>5
<1>2. CASE LoopSnapshot
  <2>1. loopSnap'.jobs = jobs /\ UNCHANGED <<now, jobs, ver, due, runs, snaps, file, launched>>
    BY <1>2 DEF LoopSnapshot, Snapshot
  <2> QED BY <2>1 DEF CrTypeOK, CrVersions
<1>3. CASE WriteAndSpawn
  <2>1. /\ UNCHANGED <<now, jobs, ver, loopSnap, snaps>> /\ due' = {} /\ file' = loopSnap /\ launched' = launched \cup due
        /\ runs' \subseteq CronRuns /\ runs \subseteq runs'
        /\ \A r \in runs' \ runs : \E d \in due : r.gen = d[2]
    BY <1>3, SpawnAdds
  <2>2. CrTypeOK' BY <2>1 DEF CrTypeOK
  <2>3. \A r \in runs' : r.gen <= ver BY <2>1 DEF CrVersions
  <2> QED BY <2>1, <2>2, <2>3 DEF CrVersions
<1>4. ASSUME NEW r \in runs, Finish(r) PROVE CrTypeOK' /\ CrVersions'
  <2>1. /\ runs' = runs \ {r} /\ UNCHANGED <<now, due, loopSnap, snaps, file, launched>>
        /\ jobs' \in Table /\ (ver' = ver \/ ver' = ver + 1) /\ \A i \in Ids : jobs'[i].gen = jobs[i].gen
    BY <1>4, FinishRecords
  <2>2. CrTypeOK' BY <1>v, <2>1 DEF CrTypeOK
  <2>3. CrVersions' BY <1>v, <2>1 DEF CrVersions
  <2> QED BY <2>2, <2>3
<1>5. CASE TakeSnapshot
  <2>1. /\ UNCHANGED <<now, jobs, ver, due, loopSnap, runs, file, launched>>
        /\ \A s \in snaps' : s \in snaps \/ s.jobs = jobs
    BY <1>5 DEF TakeSnapshot, Snapshot
  <2> QED BY <2>1 DEF CrTypeOK, CrVersions
<1>6. CASE WriteSnapshot BY <1>6 DEF WriteSnapshot, CrTypeOK, CrVersions
<1>7. ASSUME NEW i \in Ids, CronAdd(i) \/ CronRemove(i) PROVE CrTypeOK' /\ CrVersions'
  <2>1. /\ UNCHANGED <<now, due, loopSnap, runs, snaps, file, launched>>
        /\ jobs' \in Table /\ ver' = ver + 1 /\ jobs'[i].gen <= ver' /\ \A j \in Ids \ {i} : jobs'[j] = jobs[j]
    BY <1>7, EditsReplace
  <2>2. CrTypeOK' BY <1>v, <2>1 DEF CrTypeOK
  <2>3. CrVersions' BY <1>v, <2>1 DEF CrVersions
  <2> QED BY <2>2, <2>3
<1>8. ASSUME NEW i \in Ids, CronRun(i) PROVE CrTypeOK' /\ CrVersions'
  <2> DEFINE q == [id |-> i, gen |-> jobs[i].gen, at |-> now, manual |-> TRUE]
  <2>1. q \in CronRuns /\ q.gen = jobs[i].gen BY <1>v DEF CronRuns, CrTypeOK
  <2>2. runs' = runs \cup {q} /\ UNCHANGED <<now, jobs, ver, due, loopSnap, snaps, file, launched>>
    BY <1>8 DEF CronRun
  <2> HIDE DEF q
  <2> QED BY <2>1, <2>2 DEF CrTypeOK, CrVersions
<1>9. CASE Advance
  <2>1. now' = now + 1 /\ UNCHANGED <<jobs, ver, due, loopSnap, runs, snaps, file, launched>> BY <1>9 DEF Advance
  <2>2. now' \in Nat BY <2>1 DEF CrTypeOK
  <2> QED BY <2>1, <2>2 DEF CrTypeOK, CrVersions
<1>10. CASE Crash
  <2>1. /\ due' = {} /\ runs' = {} /\ snaps' = {} /\ launched' = {} /\ UNCHANGED <<now, jobs, ver, loopSnap>>
        /\ (file' = file \/ file' = Corrupt)
    BY <1>10 DEF Crash
  <2>2. Corrupt.jobs \in Table /\ \A i \in Ids : Corrupt.jobs[i].gen <= ver BY <1>v DEF Corrupt, Table, Job, Absent
  <2> QED BY <2>1, <2>2 DEF CrTypeOK, CrVersions
<1>11. CASE Restart
  <2>1. /\ UNCHANGED <<now, due, loopSnap, runs, snaps, launched>>
        /\ jobs' \in Table /\ ver' = ver + 1 /\ file'.jobs = jobs' /\ \A i \in Ids : jobs'[i].gen <= ver'
    BY <1>11, RestartLoads
  <2>2. CrTypeOK' BY <1>v, <2>1 DEF CrTypeOK
  <2>3. CrVersions' BY <1>v, <2>1 DEF CrVersions
  <2> QED BY <2>2, <2>3
<1>12. CASE UNCHANGED vars BY <1>12 DEF vars, CrTypeOK, CrVersions
<1> QED
  BY <1>1, <1>2, <1>3, <1>4, <1>5, <1>6, <1>7, <1>8, <1>9, <1>10, <1>11, <1>12 DEF Next, Loop, Saving

\* Every step keeps the loop's bookkeeping.
LEMMA LoopKept == CrInv /\ [Next]_vars => CrLoop'
<1> SUFFICES ASSUME CrTypeOK, CrLoop, [Next]_vars PROVE CrLoop'
  BY DEF CrInv
<1>v. now \in Nat /\ \A d \in due \cup launched : d[3] \in Nat BY DEF CrTypeOK, Start
<1>1. CASE Tick
  <2>1. /\ now' = now /\ \A d \in due' : d[3] <= now
        /\ \A d, e \in due' : d[1] = e[1] => d = e
    BY <1>1, TickMarks
  <2>2. up /\ up' = up /\ loop' = "snapshot" /\ launched' = launched BY <1>1 DEF Tick
  <2> QED BY <2>1, <2>2 DEF CrLoop
<1>2. CASE WriteAndSpawn
  <2>1. UNCHANGED <<now, up>> /\ loop = "write" /\ loop' = "idle" /\ due' = {} /\ launched' = launched \cup due
    BY <1>2, SpawnAdds
  <2> QED BY <2>1 DEF CrLoop
<1>3. CASE Apart /\ runs' = runs
  <2>1. \A d \in due \cup launched : d[3] <= now' BY <1>v, <1>3 DEF Apart, CrLoop
  <2> QED BY <1>3, <2>1 DEF Apart, CrLoop
<1>4. ASSUME NEW r \in runs, Finish(r) PROVE CrLoop'
  <2>1. runs' = runs \ {r} /\ UNCHANGED <<now, up, loop, due, launched>> BY <1>4, FinishRecords
  <2> QED BY <2>1 DEF CrLoop
<1>5. ASSUME NEW i \in Ids, CronAdd(i) \/ CronRemove(i) \/ CronRun(i) PROVE CrLoop'
  <2>1. up /\ UNCHANGED <<now, up, loop, due, launched>> BY <1>5 DEF CronAdd, CronRemove, CronRun, Edit
  <2> QED BY <2>1 DEF CrLoop
<1>6. CASE Crash
  <2>1. loop' = "idle" /\ due' = {} /\ runs' = {} /\ launched' = {} BY <1>6 DEF Crash
  <2> QED BY <2>1 DEF CrLoop
<1>7. CASE Restart
  <2>1. up' = TRUE /\ UNCHANGED <<now, loop, due, launched>> BY <1>7 DEF Restart
  <2> QED BY <2>1 DEF CrLoop
<1> QED BY <1>1, <1>2, <1>3, <1>4, <1>5, <1>6, <1>7, ApartSteps DEF Next, Loop, Saving

\* Every step keeps what last_run says of the starts.
LEMMA StartsKept == CrInv /\ [Next]_vars => CrStarts'
<1> SUFFICES ASSUME CrTypeOK, CrVersions, CrLoop, CrStarts, [Next]_vars PROVE CrStarts'
  BY DEF CrInv
<1> DEFINE S1 == \A d \in due : d[1] \notin overwritten /\ Stored(d[1], d[2]) => jobs[d[1]].status = "running"
           S2 == \A r \in runs : Own(r) /\ Stored(r.id, r.gen) => jobs[r.id].status = "running"
           S3 == \A d \in due, r \in runs : Own(r) /\ r.id = d[1] => r.gen # d[2]
           S5 == \A l \in launched \cup due : l[1] \notin overwritten /\ Stored(l[1], l[2]) =>
                   jobs[l[1]].status \in {"running", "done"} /\ l[3] <= jobs[l[1]].at
           S6 == \A l \in launched, r \in runs : Own(r) /\ r.id = l[1] /\ r.gen = l[2] => l[3] <= r.at
<1>0. S1 /\ S2 /\ S3 /\ ScheduledRunsAlternate /\ S5 /\ S6 BY DEF CrStarts
<1>q. ASSUME S1', S2', S3', ScheduledRunsAlternate', S5', S6' PROVE CrStarts' BY <1>q DEF CrStarts
<1>v. /\ now \in Nat /\ ver \in Nat
      /\ \A d \in due \cup launched : d[1] \in Ids /\ d[2] \in Nat /\ d[3] \in Nat
      /\ \A r \in runs : r.id \in Ids /\ r.gen \in Nat /\ r.at \in Nat
      /\ \A i \in Ids : jobs[i].gen \in Nat /\ jobs[i].at \in Nat
  BY DEF CrTypeOK, Table, Job, Start, CronRuns
<1>1. CASE Tick
  <2>1. UNCHANGED <<runs, launched, overwritten>> /\ loop = "idle" BY <1>1 DEF Tick
  <2>2. /\ \A i \in Ids : jobs'[i].gen = jobs[i].gen
        /\ \A i \in Ids : Ready(i) => jobs'[i].status = "running" /\ jobs'[i].at = now
        /\ \A i \in Ids : ~Ready(i) => jobs'[i] = jobs[i]
        /\ \A d \in due' : d \in Start /\ Ready(d[1]) /\ d[2] = jobs[d[1]].gen /\ d[3] <= now
    BY <1>1, TickMarks
  <2>3. \A i \in Ids : Ready(i) => jobs[i].status \notin {"absent", "running"} BY DEF Ready
  <2>4. \A i \in Ids, g \in Nat : Stored(i, g)' <=> Stored(i, g) BY <2>2, <2>3 DEF Stored
  <2>5. S1' BY <2>2 DEF Start
  <2>6. S2'
    <3> SUFFICES ASSUME NEW r \in runs, Own(r), Stored(r.id, r.gen) PROVE jobs'[r.id].status = "running"
      BY <1>v, <2>1, <2>4 DEF Own
    <3> QED BY <1>0, <1>v, <2>2
  <2>7. S3'
    <3> SUFFICES ASSUME NEW d \in due', NEW r \in runs, Own(r), r.id = d[1], r.gen = d[2] PROVE FALSE
      BY <2>1 DEF Own
    <3>1. Stored(r.id, r.gen) /\ jobs[r.id].status # "running" BY <2>2, <2>3, <1>v DEF Stored
    <3> QED BY <1>0, <3>1
  <2>8. ScheduledRunsAlternate' BY <1>0, <2>1 DEF ScheduledRunsAlternate
  <2>9. S5'
    <3> SUFFICES ASSUME NEW l \in launched \cup due', l[1] \notin overwritten, Stored(l[1], l[2])'
                 PROVE  jobs'[l[1]].status \in {"running", "done"} /\ l[3] <= jobs'[l[1]].at
      BY <2>1
    <3>1. CASE l \in due' BY <2>2, <3>1 DEF Start
    <3>2. CASE l \in launched
      <4>1. l[1] \in Ids /\ l[3] <= now /\ Stored(l[1], l[2]) BY <1>v, <2>4, <3>2 DEF CrLoop
      <4> QED BY <1>0, <2>2, <3>2, <4>1
    <3> QED BY <3>1, <3>2
  <2>10. S6' BY <1>0, <2>1 DEF Own
  <2> QED BY <1>q, <2>5, <2>6, <2>7, <2>8, <2>9, <2>10
<1>2. CASE WriteAndSpawn
  <2>1. /\ UNCHANGED <<now, jobs, overwritten>> /\ due' = {} /\ launched' = launched \cup due
        /\ runs' \subseteq CronRuns /\ runs \subseteq runs'
        /\ \A r \in runs' \ runs : \E d \in due : r.id = d[1] /\ r.gen = d[2] /\ r.at = now /\ ~r.manual
        /\ \A r, q \in runs' \ runs : r.id = q.id /\ r.gen = q.gen => r = q
    BY <1>2, SpawnAdds
  <2>2. S1' /\ S3' BY <2>1
  <2>3. S2'
    <3> SUFFICES ASSUME NEW r \in runs', Own(r), Stored(r.id, r.gen) PROVE jobs[r.id].status = "running"
      BY <2>1 DEF Own, Stored
    <3>1. CASE r \in runs BY <1>0, <3>1
    <3>2. CASE r \notin runs
      <4>1. PICK d \in due : r.id = d[1] /\ r.gen = d[2] BY <2>1, <3>2
      <4> QED BY <1>0, <4>1 DEF Own
    <3> QED BY <3>1, <3>2
  <2>4. ScheduledRunsAlternate'
    <3> SUFFICES ASSUME NEW r \in runs', NEW q \in runs', Own(r), Own(q), r.id = q.id, r.gen = q.gen PROVE r = q
      BY <2>1 DEF ScheduledRunsAlternate, Own
    <3>1. CASE r \in runs /\ q \in runs BY <1>0, <3>1 DEF ScheduledRunsAlternate, Own
    <3>2. CASE r \notin runs /\ q \notin runs BY <2>1, <3>2
    <3>3. CASE r \in runs /\ q \notin runs
      <4>1. PICK d \in due : q.id = d[1] /\ q.gen = d[2] BY <2>1, <3>3
      <4> QED BY <1>0, <3>3, <4>1
    <3>4. CASE r \notin runs /\ q \in runs
      <4>1. PICK d \in due : r.id = d[1] /\ r.gen = d[2] BY <2>1, <3>4
      <4> QED BY <1>0, <3>4, <4>1
    <3> QED BY <3>1, <3>2, <3>3, <3>4
  <2>5. S5' BY <1>0, <2>1 DEF Stored
  <2>6. S6'
    <3> SUFFICES ASSUME NEW l \in launched \cup due, NEW r \in runs', Own(r), r.id = l[1], r.gen = l[2] PROVE l[3] <= r.at
      BY <2>1 DEF Own
    <3>1. CASE r \in runs BY <1>0, <3>1
    <3>2. CASE r \notin runs
      <4>1. r.at = now BY <2>1, <3>2
      <4> QED BY <4>1 DEF CrLoop
    <3> QED BY <3>1, <3>2
  <2> QED BY <1>q, <2>2, <2>3, <2>4, <2>5, <2>6
<1>3. CASE Apart /\ runs' = runs
  BY <1>0, <1>3, <1>q DEF Apart, Stored, Own, ScheduledRunsAlternate
<1>4. ASSUME NEW r \in runs, Finish(r) PROVE CrStarts'
  <2>1. /\ runs' = runs \ {r} /\ UNCHANGED <<due, launched>> /\ \A i \in Ids : jobs'[i].gen = jobs[i].gen
    BY <1>4, FinishRecords
  <2>2. CASE jobs' = jobs /\ overwritten' = overwritten
    BY <1>0, <1>q, <2>1, <2>2 DEF Stored, Own, ScheduledRunsAlternate
  <2>3. CASE /\ ~r.manual /\ jobs[r.id].status # "absent" /\ jobs'[r.id].status = "done" /\ jobs'[r.id].at = r.at
             /\ \A i \in Ids \ {r.id} : jobs'[i] = jobs[i]
             /\ overwritten' = IF jobs[r.id].gen = r.gen THEN overwritten ELSE overwritten \cup {r.id}
    <3>1. overwritten \subseteq overwritten' /\ (r.id \notin overwritten' => Own(r) /\ Stored(r.id, r.gen)) /\ r.id \in Ids
      BY <1>v, <2>3 DEF Own, Stored
    <3>2. \A i \in Ids, g \in Nat : Stored(i, g)' <=> Stored(i, g) BY <2>1, <2>3 DEF Stored
    <3>3. S1'
      <4> SUFFICES ASSUME NEW d \in due, d[1] \notin overwritten', Stored(d[1], d[2]) PROVE jobs'[d[1]].status = "running"
        BY <1>v, <2>1, <3>2
      <4>1. d[1] # r.id BY <1>0, <3>1 DEF Stored
      <4> QED BY <1>0, <1>v, <2>3, <3>1, <4>1
    <3>4. S2'
      <4> SUFFICES ASSUME NEW q \in runs, q # r, ~q.manual, q.id \notin overwritten', Stored(q.id, q.gen) PROVE jobs'[q.id].status = "running"
        BY <1>v, <2>1, <3>2 DEF Own
      <4>1. q.id # r.id BY <1>0, <3>1 DEF Stored, ScheduledRunsAlternate, Own
      <4> QED BY <1>0, <1>v, <2>3, <3>1, <4>1 DEF Own
    <3>5. S3' BY <1>0, <2>1, <3>1 DEF Own
    <3>6. ScheduledRunsAlternate' BY <1>0, <2>1, <3>1 DEF ScheduledRunsAlternate
    <3>7. S5'
      <4> SUFFICES ASSUME NEW l \in launched \cup due, l[1] \notin overwritten', Stored(l[1], l[2])
                   PROVE  jobs'[l[1]].status \in {"running", "done"} /\ l[3] <= jobs'[l[1]].at
        BY <1>v, <2>1, <3>2
      <4>1. CASE l[1] # r.id BY <1>0, <1>v, <2>3, <3>1, <4>1
      <4>2. CASE l[1] = r.id
        <5>1. Own(r) /\ l[2] = r.gen BY <3>1, <4>2 DEF Stored
        <5>2. l \notin due BY <1>0, <4>2, <5>1
        <5>3. l[3] <= r.at BY <1>0, <4>2, <5>1, <5>2
        <5> QED BY <2>3, <4>2, <5>3
      <4> QED BY <4>1, <4>2
    <3>8. S6' BY <1>0, <2>1, <3>1 DEF Own
    <3> QED BY <1>q, <3>3, <3>4, <3>5, <3>6, <3>7, <3>8
  <2> QED BY <1>4, <2>2, <2>3, FinishRecords
<1>5. ASSUME NEW i \in Ids, CronAdd(i) \/ CronRemove(i) PROVE CrStarts'
  <2>1. /\ UNCHANGED <<due, runs, launched, overwritten>> /\ (jobs'[i].status # "absent" => jobs'[i].gen = ver + 1)
        /\ \A j \in Ids \ {i} : jobs'[j] = jobs[j]
    BY <1>5, EditsReplace
  <2>2. ASSUME NEW j \in Ids, NEW g \in Nat, g <= ver, Stored(j, g)' PROVE j # i /\ Stored(j, g) /\ jobs'[j] = jobs[j]
    <3>1. g # ver + 1 BY <1>v, <2>2
    <3> QED BY <2>1, <2>2, <3>1 DEF Stored
  <2>3. (\A d \in due \cup launched : d[2] <= ver) /\ \A r \in runs : r.gen <= ver BY DEF CrVersions
  <2>4. S1' BY <1>0, <1>v, <2>1, <2>2, <2>3
  <2>5. S2' BY <1>0, <1>v, <2>1, <2>2, <2>3 DEF Own
  <2>6. S5' BY <1>0, <1>v, <2>1, <2>2, <2>3
  <2> QED BY <1>0, <1>q, <2>1, <2>4, <2>5, <2>6 DEF Own, ScheduledRunsAlternate
<1>6. ASSUME NEW i \in Ids, CronRun(i) PROVE CrStarts'
  <2> DEFINE m == [id |-> i, gen |-> jobs[i].gen, at |-> now, manual |-> TRUE]
  <2>1. runs' = runs \cup {m} /\ UNCHANGED <<jobs, due, launched, overwritten>> BY <1>6 DEF CronRun
  <2>2. m.manual OBVIOUS
  <2> HIDE DEF m
  <2>3. \A r \in runs' : ~r.manual => r \in runs BY <2>1, <2>2
  <2>4. S1' /\ S5' BY <1>0, <2>1 DEF Stored
  <2>5. S2' BY <1>0, <2>1, <2>3 DEF Own, Stored
  <2>6. S3' /\ S6' BY <1>0, <2>1, <2>3 DEF Own
  <2>7. ScheduledRunsAlternate' BY <1>0, <2>1, <2>3 DEF ScheduledRunsAlternate
  <2> QED BY <1>q, <2>4, <2>5, <2>6, <2>7
<1>7. CASE Crash
  <2>1. due' = {} /\ runs' = {} /\ launched' = {} BY <1>7 DEF Crash
  <2> QED BY <1>q, <2>1 DEF ScheduledRunsAlternate
<1>8. CASE Restart
  <2>1. due' = {} /\ runs' = {} /\ launched' = {} BY <1>8, RestartLoads DEF CrLoop
  <2> QED BY <1>q, <2>1 DEF ScheduledRunsAlternate
<1> QED BY <1>1, <1>2, <1>3, <1>4, <1>5, <1>6, <1>7, <1>8, ApartSteps DEF Next, Loop, Saving

\* The service starts with the configured jobs and nothing due.
LEMMA StartsEmpty == Init => CrInv
<1> SUFFICES ASSUME Init PROVE CrInv OBVIOUS
<1>1. \A i \in Ids : jobs[i] \in {NewJob(1), Absent} BY DEF Init
<1>2. NewJob(1) \in Job /\ NewJob(1).gen <= 1 /\ Absent \in Job /\ Absent.gen <= 1 BY DEF NewJob, Absent, Job
<1>3. jobs = [i \in Ids |-> jobs[i]] BY DEF Init
<1>4. jobs \in Table /\ \A i \in Ids : jobs[i].gen <= 1 BY <1>1, <1>2, <1>3 DEF Table
<1>5. CrTypeOK BY <1>4 DEF Init, CrTypeOK
<1>6. CrVersions BY <1>4 DEF Init, CrVersions
<1>7. CrLoop BY DEF Init, CrLoop
<1>8. CrStarts BY DEF Init, CrStarts, ScheduledRunsAlternate
<1> QED BY <1>5, <1>6, <1>7, <1>8 DEF CrInv

\* Every reachable state of the service satisfies the invariant.
LEMMA CronInOrder == Spec => []CrInv
<1>1. CrInv /\ [Next]_vars => CrInv' BY VersionsKept, LoopKept, StartsKept DEF CrInv
<1> QED BY <1>1, StartsEmpty, PTL DEF Spec

\* For any schedules, late ticks, edits and crashes no two scheduled runs of a job overlap,
\* as long as no run of a replaced incarnation wrote to its last_run.
THEOREM RunsAlternate == Spec => []ScheduledRunsAlternate
<1>1. CrInv => ScheduledRunsAlternate BY DEF CrInv, CrStarts
<1> QED BY <1>1, CronInOrder, PTL

\* For any schedules and however late ticks are served, a scheduled time starts an
\* incarnation of a job once in a life of the gateway, under the same condition.
THEOREM StartedOnce == Spec => FiresOnce
<1> DEFINE Fires == \A d \in due' \ due : d \notin launched \/ d[1] \in overwritten
<1>1. ASSUME CrInv, [Next]_vars PROVE Fires
  <2> SUFFICES ASSUME NEW d \in due' \ due, d \in launched, d[1] \notin overwritten PROVE FALSE
    OBVIOUS
  <2>0. CrTypeOK /\ CrStarts BY <1>1 DEF CrInv
  <2>1. CASE Tick
    <3>1. d \in Start /\ Ready(d[1]) /\ d[2] = jobs[d[1]].gen /\ d[3] = NextRun(d[1]) BY <2>0, <2>1, TickMarks
    <3>2. Stored(d[1], d[2]) /\ jobs[d[1]].status # "never" /\ NextRun(d[1]) <= jobs[d[1]].at
      BY <2>0, <3>1 DEF Ready, Stored, CrStarts
    <3>3. NextRun(d[1]) \in Nat /\ jobs[d[1]].at \in Nat BY <2>0, <3>1, NextRunIsTime DEF Start, CrTypeOK, Table, Job
    <3> QED BY <3>1, <3>2, <3>3 DEF Ready
  <2>2. CASE UNCHANGED due \/ due' = {} BY <2>2
  <2> QED
    BY <1>1, <2>1, <2>2 DEF Next, Loop, Saving, LoopSnapshot, WriteAndSpawn, TakeSnapshot, WriteSnapshot, Advance, Crash,
       Restart, Finish, CronAdd, CronRemove, CronRun, vars
<1> QED BY <1>1, CronInOrder, PTL DEF Spec, FiresOnce
=============================================================================
