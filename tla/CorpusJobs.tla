-------------------------------- MODULE CorpusJobs --------------------------------
(* The worker's agreement and overruled jobs over a label's staged courts, and what  *)
(* the host reads of them.  An agreement job compares the citations GIDEON resolved  *)
(* for one court with the publisher's citation map, which the first job splits by    *)
(* court for all of them; the overruled job resolves the captured list of overruled  *)
(* decisions.  The queue hands out one job of a lock at a time, but an execution     *)
(* whose heartbeat stalled goes on while its job is handed out again.                *)
EXTENDS Integers, FiniteSets

CONSTANTS
  JobCourts,  \* the staged courts
  ListCourt,  \* OVERRULED_COURT
  Worlds,     \* what the snapshot and the record hold, and the jobs that are deferred
  JobExecs,      \* the executions that may be going at once
  MaxPlanned,    \* bound on the jobs of a plan
  MaxStalls \* bound on the failures, the stalls and the kills

ASSUME JobShapes ==
  /\ ListCourt \in JobCourts /\ MaxPlanned \in Nat /\ MaxStalls \in Nat
  /\ 0 \notin JobExecs /\ JobCourts \cap {"map", "list", "none"} = {}
  /\ \A w \in Worlds :
       /\ IsFiniteSet(w.edges) /\ IsFiniteSet(w.map) /\ IsFiniteSet(w.list) /\ 0 \notin DOMAIN w.facts
       /\ \A j \in DOMAIN w.plan : /\ w.plan[j][1] \in {"agreement", "overruled"}
                                   /\ w.plan[j][2] \in JobCourts

VARIABLES
  world,       \* constant through a behaviour
  mapPartial,  \* the courts' files in citation-map.partial, or NoDir
  mapDir,      \* the courts' files in citation-map, or NoDir
  jobLocks,    \* the file locks: the execution holding each, or 0
  figures,     \* <court>.agreement.json
  filed,       \* <court>.agreement-failed.json and overruled-failed.json
  knownRows,   \* known_overruled
  jobs, execs, \* the queue's rows; per execution its job and place
  told,        \* what the host made of a job
  stalls

jobVars == <<world, mapPartial, mapDir, jobLocks, figures, filed, knownRows, jobs, execs, told, stalls>>

JobIds == 1..MaxPlanned
NoExec == [job |-> 0, at |-> "idle", why |-> "none", wrote |-> {}]
NoFile == [job |-> 0]
NoDir == {"none"}
Product(j) == IF jobs[j].kind = "agreement" THEN jobs[j].court ELSE "list"
Products == JobCourts \cup {"list"}

JobOf(e) == jobs[execs[e].job]
Spot(e, place) == execs[e].at = place
Goes0(e, place) == execs' = [execs EXCEPT ![e].at = place]
Trouble1 == stalls > 0 /\ stalls' = stalls - 1

Maps0  == <<mapPartial, mapDir>>
Files0 == <<figures, filed, knownRows>>

-----------------------------------------------------------------------------
(* compare. *)

\* The opinions staged for a court, and the cluster of each.
Staged(c) == {o \in DOMAIN world.court : world.court[o] = c}
InLabel == DOMAIN world.court
ready_edges(c) == {o \in Staged(c) : o \in world.ready}

\* GIDEON's pairs of ready documents against the map's rows for them: a row to an opinion
\* outside the label is counted apart, and what only the map has is seen when the
\* document cites the cluster without resolving it.
compare(c) ==
  LET ready  == ready_edges(c)
      ours   == {p \in world.edges : p[1] \in ready}
      rows   == {r \in world.map : r[1] \in ready}
      inside == {r \in rows : r[2] \in InLabel}
      theirs == {<<r[1], world.cluster[r[2]]>> : r \in inside}
      only   == theirs \ ours
      seen   == {p \in only : world.unresolved[p[1]] \cap world.cites[p[2]] # {}}
  IN  [documents |-> Cardinality(ready), gideon |-> Cardinality(ours), rows |-> Cardinality(rows),
       outside |-> Cardinality(rows \ inside), mapped |-> Cardinality(theirs),
       agreed |-> Cardinality(theirs \cap ours), gideonOnly |-> Cardinality(ours \ theirs),
       seen |-> Cardinality(seen), missed |-> Cardinality(only) - Cardinality(seen)]

\* What the host takes for a figure.
FigureValid(f) ==
  /\ f.agreed <= f.gideon /\ f.agreed <= f.mapped /\ f.outside <= f.rows
  /\ f.gideonOnly = f.gideon - f.agreed /\ f.seen + f.missed = f.mapped - f.agreed

-----------------------------------------------------------------------------
(* resolve. *)

_resolution(found, method) ==
  IF Cardinality(found) = 1 THEN [cluster |-> CHOOSE k \in found : TRUE, by |-> method]
  ELSE [cluster |-> 0, by |-> IF found = {} THEN "absent" ELSE "ambiguous"]

Held(cite) == {k \in DOMAIN world.facts : cite \in world.facts[k].cites}
Docketed(docket) == {k \in DOMAIN world.facts : docket # 0 /\ world.facts[k].docket = docket}
Named(name) == {k \in DOMAIN world.facts : name # 0 /\ k \in world.names[name]}

\* The captured page's table, one entry for every decision it lists as overruled.
parse_table == world.list

\* The overruling decision by its citation, then its docket; the overruled one by its
\* citation, then its name and year among the clusters held.
resolve(entry) ==
  [order |-> entry.order, ordinal |-> entry.ordinal,
   ruling |-> IF Held(entry.ruling.cite) # {} THEN _resolution(Held(entry.ruling.cite), "cite")
              ELSE _resolution(Docketed(entry.ruling.docket), "docket"),
   ruled  |-> IF Held(entry.ruled.cite) # {} THEN _resolution(Held(entry.ruled.cite), "cite")
              ELSE _resolution(Named(entry.ruled.name), "name")]

\* What the host takes for the list's counts.
CountsValid(rows) ==
  LET resolved == {r \in rows : r.ruled.by \in {"cite", "name"}}
      clusters == {r.ruled.cluster : r \in rows} \ {0}
      listed   == {r.order : r \in rows}
  IN  /\ \A r \in rows : r.ruled.by # "docket" /\ r.ruling.by # "name"
      /\ Cardinality(listed) <= Cardinality(rows) /\ (listed = {}) = (rows = {})
      /\ Cardinality(clusters) <= Cardinality(resolved) /\ (clusters = {}) = (resolved = {})

-----------------------------------------------------------------------------
(* The queue. *)

SameLock(i, j) == Product(i) = Product(j)

\* The installs' stages defer their jobs, one after another.
Defers0 ==
  /\ \E j \in DOMAIN world.plan :
       /\ jobs[j].kind = "none" /\ \A i \in 1..(j - 1) : jobs[i].kind # "none"
       /\ jobs' = [jobs EXCEPT ![j] = [kind |-> world.plan[j][1], court |-> world.plan[j][2], status |-> "todo"]]
  /\ UNCHANGED <<world, Maps0, jobLocks, Files0, execs, told, stalls>>

\* A job starts when no earlier job of its lock is waiting or going.
JobStarts(e) ==
  /\ execs[e] = NoExec
  /\ \E j \in JobIds :
       /\ jobs[j].status = "todo"
       /\ \A i \in JobIds \ {j} : jobs[i].status \in {"todo", "doing"} /\ SameLock(i, j)
                                    => i > j /\ jobs[i].status = "todo"
       /\ jobs' = [jobs EXCEPT ![j].status = "doing"]
       /\ execs' = [execs EXCEPT ![e] = [NoExec EXCEPT !.job = j, !.at = "lock"]]
  /\ UNCHANGED <<world, Maps0, jobLocks, Files0, told, stalls>>

\* retry_stalled_jobs: a job whose worker is not heard of is handed out again, whether
\* its execution is dead or only slow.
retry_stalled_jobs ==
  /\ \E j \in JobIds :
       /\ jobs[j].status = "doing" /\ jobs' = [jobs EXCEPT ![j].status = "todo"]
       /\ \/ (\A e \in JobExecs : execs[e].job # j) /\ UNCHANGED stalls
          \/ (\E e \in JobExecs : execs[e].job = j) /\ Trouble1
  /\ UNCHANGED <<world, Maps0, jobLocks, Files0, execs, told>>

\* The worker is killed with every execution; the locks go with it.
JobWorkerDies ==
  /\ Trouble1 /\ \E e \in JobExecs : execs[e] # NoExec
  /\ execs' = [e \in JobExecs |-> NoExec] /\ jobLocks' = [l \in DOMAIN jobLocks |-> 0]
  /\ UNCHANGED <<world, Maps0, Files0, jobs, told>>

-----------------------------------------------------------------------------
(* An execution. *)

Freed(e, set) == [l \in DOMAIN jobLocks |-> IF l \in set /\ jobLocks[l] = e THEN 0 ELSE jobLocks[l]]
Leaves(e, why) == execs' = [execs EXCEPT ![e].at = "file", ![e].why = why, ![e].wrote = {}]

\* The court's lock, or the list's: held elsewhere the job is busy.
TakesLock(e) ==
  /\ Spot(e, "lock")
  /\ LET l == Product(execs[e].job)
     IN  IF jobLocks[l] = 0 THEN jobLocks' = [jobLocks EXCEPT ![l] = e] /\ Goes0(e, "clear")
         ELSE Leaves(e, "busy") /\ UNCHANGED jobLocks
  /\ UNCHANGED <<world, Maps0, Files0, jobs, told, stalls>>

\* The earlier failure goes; then the pinned input and the staged tables are read.
Clears(e) ==
  /\ Spot(e, "clear") /\ filed' = [filed EXCEPT ![Product(execs[e].job)] = NoFile]
  /\ Goes0(e, IF JobOf(e).kind = "agreement" THEN "map" ELSE "resolve")
  /\ UNCHANGED <<world, Maps0, jobLocks, figures, knownRows, jobs, told, stalls>>

\* Anything may fail; the locks close on the way out.
Fails0(e) ==
  /\ execs[e].at \in {"lock", "map", "split", "compare", "resolve"} /\ Trouble1
  /\ \E why \in {"missing-stage", "input-mismatch", "malformed", "database"} : Leaves(e, why)
  /\ jobLocks' = Freed(e, DOMAIN jobLocks)
  /\ UNCHANGED <<world, Maps0, Files0, jobs, told>>

\* Mutant: the map is split without the lock.
WaitsForMapNot(e) ==
  /\ Spot(e, "map")
  /\ IF mapDir # NoDir THEN Goes0(e, "compare") /\ UNCHANGED mapPartial
     ELSE mapPartial' = {} /\ Goes0(e, "split")
  /\ UNCHANGED <<world, mapDir, jobLocks, Files0, jobs, told, stalls>>

\* The map's lock is waited for; a map that is there is used, a partial one starts over.
WaitsForMap(e) ==
  /\ Spot(e, "map") /\ jobLocks["map"] = 0
  /\ IF mapDir # NoDir THEN Goes0(e, "compare") /\ UNCHANGED <<mapPartial, jobLocks>>
     ELSE mapPartial' = {} /\ jobLocks' = [jobLocks EXCEPT !["map"] = e] /\ Goes0(e, "split")
  /\ UNCHANGED <<world, mapDir, Files0, jobs, told, stalls>>

\* Every court's file, each with the rows its opinions give; the rename publishes them.
_stage_map(e) ==
  /\ Spot(e, "split")
  /\ \/ \E c \in JobCourts \ execs[e].wrote :
          /\ mapPartial' = mapPartial \cup {c} /\ execs' = [execs EXCEPT ![e].wrote = @ \cup {c}]
          /\ UNCHANGED <<mapDir, jobLocks>>
     \/ /\ execs[e].wrote = JobCourts
        /\ mapDir' = mapPartial /\ mapPartial' = NoDir
        /\ execs' = [execs EXCEPT ![e].at = "compare", ![e].wrote = {}]
        /\ jobLocks' = Freed(e, {"map"})
  /\ UNCHANGED <<world, Files0, jobs, told, stalls>>

\* The figure carries the job that computed it.
WritesFigure(e) ==
  /\ Spot(e, "compare")
  /\ figures' = [figures EXCEPT ![JobOf(e).court] = [job |-> execs[e].job, figure |-> compare(JobOf(e).court)]]
  /\ Goes0(e, "end")
  /\ UNCHANGED <<world, Maps0, jobLocks, filed, knownRows, jobs, told, stalls>>

\* One transaction; a row that is there stays as it is.
write_rows(e) ==
  /\ Spot(e, "resolve")
  /\ knownRows' = IF knownRows = {} THEN {resolve(entry) : entry \in parse_table} ELSE knownRows
  /\ Goes0(e, "end")
  /\ UNCHANGED <<world, Maps0, jobLocks, figures, filed, jobs, told, stalls>>

\* The queue row ends when it is still going.
Finishes(e, status) ==
  jobs' = IF JobOf(e).status \in {"todo", "doing"} THEN [jobs EXCEPT ![execs[e].job].status = status] ELSE jobs

JobEnds(e) ==
  /\ Spot(e, "end") /\ Finishes(e, "succeeded")
  /\ execs' = [execs EXCEPT ![e] = NoExec] /\ jobLocks' = Freed(e, DOMAIN jobLocks)
  /\ UNCHANGED <<world, Maps0, Files0, told, stalls>>

\* The failure is filed after the locks are gone, unless the job was busy.
write_job_failure(e) ==
  /\ Spot(e, "file") /\ Finishes(e, "failed") /\ execs' = [execs EXCEPT ![e] = NoExec]
  /\ filed' = IF execs[e].why = "busy" THEN filed
              ELSE [filed EXCEPT ![Product(execs[e].job)] = [job |-> execs[e].job, why |-> execs[e].why]]
  /\ UNCHANGED <<world, Maps0, jobLocks, figures, knownRows, told, stalls>>

-----------------------------------------------------------------------------
(* The host. *)

JobSays(j, what) == told' = [told EXCEPT ![j] = what]

\* A succeeded job's figure is its own; another job's is none.
read_agreement(j) ==
  LET f == figures[jobs[j].court]
  IN  IF f.job = j /\ FigureValid(f.figure) THEN [kind |-> "figure", figure |-> f.figure, of |-> f.job]
      ELSE [kind |-> "problem"]

read_overruled_counts(j) ==
  IF CountsValid(knownRows) THEN [kind |-> "counts", rows |-> knownRows] ELSE [kind |-> "problem"]

\* A prior job's file does not describe this job.
read_failure(j) ==
  LET f == filed[Product(j)]
  IN  [kind |-> "failed", why |-> IF f.job = j THEN f.why ELSE "local"]

HostReads(j) ==
  /\ told[j].kind = "none" /\ jobs[j].status \in {"succeeded", "failed"}
  /\ JobSays(j, IF jobs[j].status = "failed" THEN read_failure(j)
             ELSE IF jobs[j].kind = "agreement" THEN read_agreement(j) ELSE read_overruled_counts(j))
  /\ UNCHANGED <<world, Maps0, jobLocks, Files0, jobs, execs, stalls>>

JobsInit ==
  /\ world \in Worlds /\ mapPartial = NoDir /\ mapDir = NoDir
  /\ jobLocks = [l \in Products \cup {"map"} |-> 0]
  /\ figures = [c \in JobCourts |-> NoFile] /\ filed = [p \in Products |-> NoFile] /\ knownRows = {}
  /\ jobs = [j \in JobIds |-> [kind |-> "none", court |-> "none", status |-> "none"]]
  /\ execs = [e \in JobExecs |-> NoExec] /\ told = [j \in JobIds |-> [kind |-> "none"]]
  /\ stalls = MaxStalls

ExecStep(e) == \/ TakesLock(e) \/ Clears(e) \/ WaitsForMap(e) \/ _stage_map(e) \/ WritesFigure(e)
               \/ write_rows(e) \/ JobEnds(e) \/ write_job_failure(e)

JobsNext ==
  \/ Defers0 \/ retry_stalled_jobs \/ JobWorkerDies
  \/ \E e \in JobExecs : JobStarts(e) \/ ExecStep(e) \/ Fails0(e)
  \/ \E j \in JobIds : HostReads(j)

JobsSpec == JobsInit /\ [][JobsNext]_jobVars

-----------------------------------------------------------------------------
(* Properties. *)

\* The split citation map is seen whole or not at all, with two courts' jobs at it, an
\* execution that stalled among them, or the worker killed in the middle.
MapWhole == mapDir \in {NoDir, JobCourts}

\* What the host reports of a job is of that job: the figure it accepts was computed by it,
\* whatever another execution filed meanwhile; and no figure and no list the worker wrote
\* is one the host takes for an invalid record.
ToldTrue ==
  /\ \A j \in JobIds :
       /\ told[j].kind = "figure" => told[j].of = j
       /\ jobs[j].kind = "overruled" => told[j].kind # "problem"
  /\ \A c \in JobCourts : figures[c].job # 0 => FigureValid(figures[c].figure)

\* Two courts' jobs side by side tear neither the map they share nor each other's answers.
JobsSound == MapWhole /\ ToldTrue
=============================================================================
