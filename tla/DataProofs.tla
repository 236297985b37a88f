------------------------------ MODULE DataProofs ------------------------------
(***************************************************************************)
(* Proofs about what the box stores: the worker's corpus jobs, for any     *)
(* tables, plans, executions and faults, the model store, for any          *)
(* snapshots, profiles and pushes with one process pulling at a time, and  *)
(* the file transfer, for any object, failures, kills and losses of power  *)
(* with one execution at the partial.                                      *)
(***************************************************************************)
EXTENDS ModelStore, SnapshotFetch, CorpusJobs, FiniteSetTheorems, SequenceTheorems, TLAPS

-----------------------------------------------------------------------------
(* What compare counts adds up, and what resolve lists is counted. *)

\* A finite set's image is no larger than the set.
LEMMA ImageSmaller ==
  ASSUME NEW S, IsFiniteSet(S), NEW f, DOMAIN f = S
  PROVE  LET T == {f[x] : x \in S}
         IN  IsFiniteSet(T) /\ Cardinality(T) <= Cardinality(S)
<1> DEFINE T == {f[x] : x \in S}
           g == [x \in S |-> f[x]]
<1>1. g \in [S -> T] /\ \A y \in T : \E x \in S : g[x] = y
  OBVIOUS
<1>2. g \in Surjection(S, T)
  BY <1>1 DEF Surjection
<1> QED
  BY ONLY <1>2, IsFiniteSet(S), FS_Surjection

\* Every figure compare computes is one the host takes for valid.
LEMMA ComparesValid ==
  ASSUME JobShapes, world \in Worlds, NEW c
  PROVE  FigureValid(compare(c))
<1> DEFINE ready  == ready_edges(c)
           ours   == {p \in world.edges : p[1] \in ready}
           rows   == {r \in world.map : r[1] \in ready}
           inside == {r \in rows : r[2] \in InLabel}
           pair   == [r \in inside |-> <<r[1], world.cluster[r[2]]>>]
           theirs == {<<r[1], world.cluster[r[2]]>> : r \in inside}
           only   == theirs \ ours
           seen   == {p \in only : world.unresolved[p[1]] \cap world.cites[p[2]] # {}}
<1>0. IsFiniteSet(world.edges) /\ IsFiniteSet(world.map)
  BY DEF JobShapes
<1>1. IsFiniteSet(ours) /\ IsFiniteSet(rows) /\ IsFiniteSet(inside)
  BY <1>0, FS_Subset
<1>2. IsFiniteSet(theirs)
  <2>1. theirs = {pair[r] : r \in inside} /\ DOMAIN pair = inside
    OBVIOUS
  <2>2. IsFiniteSet(inside)
    BY <1>1
  <2> HIDE DEF inside, pair, theirs
  <2> QED
    BY ONLY <2>1, <2>2, ImageSmaller
<1>3. IsFiniteSet(only) /\ IsFiniteSet(seen) /\ Cardinality(seen) <= Cardinality(only)
  BY <1>2, FS_Subset
<1> HIDE DEF ready, ours, rows, inside, pair, theirs, only, seen
<1>4. IsFiniteSet(theirs \cap ours) /\ Cardinality(theirs \cap ours) <= Cardinality(theirs)
      /\ Cardinality(theirs \cap ours) <= Cardinality(ours)
  BY <1>1, <1>2, FS_Intersection
<1>5. Cardinality(ours \ theirs) = Cardinality(ours) - Cardinality(theirs \cap ours)
  <2>1. ours \cap theirs = theirs \cap ours
    OBVIOUS
  <2>2. IsFiniteSet(ours)
    BY <1>1
  <2>3. Cardinality(ours \ theirs) = Cardinality(ours) - Cardinality(ours \cap theirs)
    BY ONLY <2>2, FS_Difference
  <2> QED
    BY ONLY <2>1, <2>3
<1>6. Cardinality(only) = Cardinality(theirs) - Cardinality(theirs \cap ours)
  BY <1>2, FS_Difference DEF only
<1>7. Cardinality(rows \ inside) <= Cardinality(rows)
  BY <1>1, FS_Subset
<1>8. /\ Cardinality(ours) \in Nat /\ Cardinality(theirs) \in Nat /\ Cardinality(theirs \cap ours) \in Nat
      /\ Cardinality(only) \in Nat /\ Cardinality(seen) \in Nat
  BY <1>1, <1>2, <1>3, <1>4, FS_CardinalityType
<1>9. compare(c) =
        [documents |-> Cardinality(ready), gideon |-> Cardinality(ours), rows |-> Cardinality(rows),
         outside |-> Cardinality(rows \ inside), mapped |-> Cardinality(theirs),
         agreed |-> Cardinality(theirs \cap ours), gideonOnly |-> Cardinality(ours \ theirs),
         seen |-> Cardinality(seen), missed |-> Cardinality(only) - Cardinality(seen)]
  BY DEF compare, ready, ours, rows, inside, theirs, only, seen
<1> QED
  BY <1>4, <1>5, <1>6, <1>7, <1>8, <1>9 DEF FigureValid

\* A resolution names a cluster exactly when it was found by a citation, a docket or a name.
LEMMA ResolutionFields ==
  ASSUME NEW found, 0 \notin found, NEW method \in {"cite", "docket", "name"}
  PROVE  LET r == _resolution(found, method)
         IN  \/ r.cluster # 0 /\ r.by = method
             \/ r.cluster = 0 /\ r.by \in {"absent", "ambiguous"}
<1>1. CASE Cardinality(found) = 1
  <2>1. found # {}
    BY <1>1, FS_EmptySet
  <2>2. (CHOOSE k \in found : TRUE) \in found
    BY <2>1
  <2> QED
    BY <1>1, <2>2 DEF _resolution
<1>2. CASE Cardinality(found) # 1
  BY <1>2 DEF _resolution
<1> QED
  BY <1>1, <1>2

\* Whatever the list and the clusters held, the rows resolve makes are counts the host accepts.
LEMMA ResolvesValid ==
  ASSUME JobShapes, world \in Worlds
  PROVE  CountsValid({resolve(entry) : entry \in parse_table})
<1> DEFINE each   == [entry \in parse_table |-> resolve(entry)]
           known  == {resolve(entry) : entry \in parse_table}
           order  == [r \in known |-> r.order]
           listed == {r.order : r \in known}
           resolved == {r \in known : r.ruled.by \in {"cite", "name"}}
           cluster  == [r \in resolved |-> r.ruled.cluster]
           clusters == {r.ruled.cluster : r \in known} \ {0}
<1>0. IsFiniteSet(parse_table) /\ 0 \notin DOMAIN world.facts
  BY DEF JobShapes, parse_table
<1>1. IsFiniteSet(known)
  <2>1. known = {each[entry] : entry \in parse_table} /\ DOMAIN each = parse_table
    OBVIOUS
  <2> HIDE DEF each, known
  <2> QED
    BY ONLY <1>0, <2>1, ImageSmaller
<1>2. ASSUME NEW entry \in parse_table
      PROVE  LET r == resolve(entry)
             IN  /\ r.ruled.by # "docket" /\ r.ruling.by # "name"
                 /\ r.ruled.cluster # 0 <=> r.ruled.by \in {"cite", "name"}
  <2>1. \A k : 0 \notin Held(k) /\ 0 \notin Docketed(k) /\ 0 \notin Named(k)
    BY <1>0 DEF Held, Docketed, Named
  <2> DEFINE ruling == IF Held(entry.ruling.cite) # {} THEN _resolution(Held(entry.ruling.cite), "cite")
                       ELSE _resolution(Docketed(entry.ruling.docket), "docket")
             ruled  == IF Held(entry.ruled.cite) # {} THEN _resolution(Held(entry.ruled.cite), "cite")
                       ELSE _resolution(Named(entry.ruled.name), "name")
  <2>2. ruling.by # "name"
    BY <2>1, ResolutionFields
  <2>3. ruled.by # "docket" /\ (ruled.cluster # 0 <=> ruled.by \in {"cite", "name"})
    BY <2>1, ResolutionFields
  <2>4. resolve(entry).ruling = ruling /\ resolve(entry).ruled = ruled
    BY DEF resolve
  <2> QED
    BY <2>2, <2>3, <2>4
<1>3. \A r \in known : /\ r.ruled.by # "docket" /\ r.ruling.by # "name"
                       /\ r.ruled.cluster # 0 <=> r.ruled.by \in {"cite", "name"}
  BY <1>2
<1> HIDE DEF known
<1>4. Cardinality(listed) <= Cardinality(known)
  <2>1. listed = {order[r] : r \in known} /\ DOMAIN order = known
    OBVIOUS
  <2> QED
    BY <1>1, <2>1, ImageSmaller
<1>5. (listed = {}) = (known = {})
  OBVIOUS
<1>6. IsFiniteSet(resolved)
  BY <1>1, FS_Subset
<1>7. clusters = {cluster[r] : r \in resolved} /\ DOMAIN cluster = resolved
  BY <1>3
<1>8. Cardinality(clusters) <= Cardinality(resolved)
  BY ONLY <1>6, <1>7, ImageSmaller
<1>9. (clusters = {}) = (resolved = {})
  <2> HIDE DEF clusters, cluster, resolved
  <2>1. clusters = {} <=> resolved = {}
    BY ONLY <1>7
  <2> QED
    BY ONLY <2>1
<1> QED
  BY <1>3, <1>4, <1>5, <1>8, <1>9 DEF CountsValid, known

-----------------------------------------------------------------------------
(* The corpus jobs: MapWhole and ToldTrue hold of every worker and every world. *)

\* The shapes of the queue's rows, the executions and the files.
Statuses == {"none", "todo", "doing", "succeeded", "failed"}
Reasons == {"none", "busy", "missing-stage", "input-mismatch", "malformed", "database"}
Places == {"idle", "lock", "clear", "map", "split", "compare", "resolve", "end", "file"}
RowShape == [kind : {"none", "agreement", "overruled"}, court : JobCourts \cup {"none"}, status : Statuses]
ExecShape == [job : {0} \cup JobIds, at : Places, why : Reasons, wrote : SUBSET JobCourts]
ExecsTyped ==
  /\ execs \in [JobExecs -> ExecShape]
  /\ \A e \in JobExecs : execs[e].at # "idle" => execs[e].job \in JobIds
RowsTyped == jobs \in [JobIds -> RowShape]
FilesTyped == DOMAIN jobLocks = Products \cup {"map"} /\ DOMAIN figures = JobCourts /\ DOMAIN told = JobIds
JobsTyped == ExecsTyped /\ RowsTyped /\ FilesTyped

\* Who splits the map holds its lock, and the partial directory is what it wrote.
SplitKept ==
  \A e \in JobExecs : execs[e].at = "split" => jobLocks["map"] = e /\ mapPartial = execs[e].wrote
SplitFresh ==
  \A e \in JobExecs : execs[e].at # "split" => execs[e].wrote = {}

\* A row that is not deferred was not heard of; a job told about was deferred.
ToldDeferred ==
  \A j \in JobIds : jobs[j].kind = "none" => jobs[j].status = "none" /\ told[j].kind = "none"

\* Every file and every row is one the host takes for valid.
FilesValid ==
  /\ \A c \in JobCourts : figures[c].job # 0 => FigureValid(figures[c].figure)
  /\ CountsValid(knownRows)
ToldOwn ==
  \A j \in JobIds : /\ told[j].kind = "figure" => told[j].of = j
                    /\ jobs[j].kind = "overruled" => told[j].kind # "problem"

JobsInv == /\ world \in Worlds /\ JobsTyped /\ SplitKept /\ SplitFresh
           /\ ToldDeferred /\ FilesValid /\ ToldOwn /\ MapWhole

\* The invariant holds at the start: nothing is deferred, written or told.
LEMMA JobsStart ==
  ASSUME JobShapes, JobsInit
  PROVE  JobsInv
<1>1. JobsTyped /\ SplitKept /\ SplitFresh
  <2>1. NoExec \in ExecShape /\ [kind |-> "none", court |-> "none", status |-> "none"] \in RowShape
    BY DEF NoExec, ExecShape, Places, Reasons, RowShape, Statuses
  <2>2. NoExec.at = "idle" /\ NoExec.wrote = {}
    BY DEF NoExec
  <2>3. ExecsTyped /\ RowsTyped
    BY <2>1, <2>2 DEF JobsInit, ExecsTyped, RowsTyped
  <2>4. FilesTyped
    BY DEF JobsInit, FilesTyped
  <2>5. SplitKept /\ SplitFresh
    BY <2>2 DEF JobsInit, SplitKept, SplitFresh
  <2> QED
    BY <2>3, <2>4, <2>5 DEF JobsTyped
<1>2. ToldDeferred /\ ToldOwn /\ MapWhole
  BY DEF JobsInit, ToldDeferred, ToldOwn, MapWhole
<1>3. FilesValid
  <2>1. CountsValid({})
    <3> DEFINE resolved == {r \in {} : r.ruled.by \in {"cite", "name"}}
               clusters == {r.ruled.cluster : r \in {}} \ {0}
               listed   == {r.order : r \in {}}
    <3>1. resolved = {} /\ clusters = {} /\ listed = {}
      OBVIOUS
    <3>2. Cardinality({}) <= Cardinality({})
      BY FS_EmptySet
    <3> QED
      BY <3>1, <3>2 DEF CountsValid
  <2> QED
    BY <2>1 DEF JobsInit, FilesValid, NoFile
<1> QED
  BY <1>1, <1>2, <1>3 DEF JobsInv, JobsInit

\* What leaves the files as they are leaves them valid.
LEMMA FilesKept ==
  ASSUME JobsInv, UNCHANGED <<world, figures, knownRows>>
  PROVE  world' \in Worlds /\ FilesValid'
BY DEF JobsInv, FilesValid, CountsValid

\* The queue's own steps touch no file and no lock's holder who still splits.
LEMMA QueueKeeps ==
  ASSUME JobShapes, JobsInv, Defers0 \/ retry_stalled_jobs \/ JobWorkerDies
  PROVE  JobsInv'
<1>0. world' \in Worlds /\ FilesValid'
  BY FilesKept DEF Defers0, retry_stalled_jobs, JobWorkerDies, Files0
<1>1. CASE Defers0
  <2>1. PICK j \in DOMAIN world.plan :
          /\ jobs[j].kind = "none"
          /\ jobs' = [jobs EXCEPT ![j] = [kind |-> world.plan[j][1], court |-> world.plan[j][2], status |-> "todo"]]
    BY <1>1 DEF Defers0
  <2>2. UNCHANGED <<mapPartial, mapDir, jobLocks, figures, execs, told>>
    BY <1>1 DEF Defers0, Maps0, Files0
  <2>3. world.plan[j][1] \in {"agreement", "overruled"} /\ world.plan[j][2] \in JobCourts
    BY <2>1 DEF JobShapes, JobsInv
  <2>a. [kind |-> world.plan[j][1], court |-> world.plan[j][2], status |-> "todo"] \in RowShape
    BY <2>3 DEF RowShape, Statuses
  <2>b. RowsTyped'
    BY <2>1, <2>a DEF JobsInv, JobsTyped, RowsTyped
  <2>4. JobsTyped'
    BY <2>2, <2>b DEF JobsInv, JobsTyped, ExecsTyped, FilesTyped
  <2>5. SplitKept' /\ SplitFresh' /\ MapWhole'
    BY <2>2 DEF JobsInv, SplitKept, SplitFresh, MapWhole
  <2>6. ToldDeferred' /\ ToldOwn'
    BY <2>1, <2>2, <2>3 DEF JobsInv, JobsTyped, RowsTyped, ToldDeferred, ToldOwn
  <2> QED
    BY <1>0, <2>4, <2>5, <2>6 DEF JobsInv
<1>2. CASE retry_stalled_jobs
  <2>1. PICK j \in JobIds : jobs[j].status = "doing" /\ jobs' = [jobs EXCEPT ![j].status = "todo"]
    BY <1>2 DEF retry_stalled_jobs
  <2>2. UNCHANGED <<mapPartial, mapDir, jobLocks, figures, execs, told>>
    BY <1>2 DEF retry_stalled_jobs, Maps0, Files0
  <2>3. RowsTyped'
    BY <2>1 DEF JobsInv, JobsTyped, RowsTyped, RowShape, Statuses
  <2>4. JobsTyped'
    BY <2>2, <2>3 DEF JobsInv, JobsTyped, ExecsTyped, FilesTyped
  <2>5. SplitKept' /\ SplitFresh' /\ MapWhole'
    BY <2>2 DEF JobsInv, SplitKept, SplitFresh, MapWhole
  <2>6. ToldDeferred' /\ ToldOwn'
    BY <2>1, <2>2 DEF JobsInv, JobsTyped, RowsTyped, RowShape, ToldDeferred, ToldOwn
  <2> QED
    BY <1>0, <2>4, <2>5, <2>6 DEF JobsInv
<1>3. CASE JobWorkerDies
  <2>1. execs' = [e \in JobExecs |-> NoExec] /\ jobLocks' = [l \in DOMAIN jobLocks |-> 0]
    BY <1>3 DEF JobWorkerDies
  <2>2. UNCHANGED <<mapPartial, mapDir, figures, jobs, told>>
    BY <1>3 DEF JobWorkerDies, Maps0, Files0
  <2>3. NoExec \in ExecShape /\ NoExec.at = "idle" /\ NoExec.wrote = {}
    BY DEF NoExec, ExecShape, Places, Reasons
  <2>4. JobsTyped' /\ SplitKept' /\ SplitFresh'
    BY <2>1, <2>2, <2>3 DEF JobsInv, JobsTyped, ExecsTyped, RowsTyped, FilesTyped, SplitKept, SplitFresh
  <2>5. MapWhole' /\ ToldDeferred' /\ ToldOwn'
    BY <2>2 DEF JobsInv, MapWhole, ToldDeferred, ToldOwn
  <2> QED
    BY <1>0, <2>4, <2>5 DEF JobsInv
<1> QED
  BY <1>1, <1>2, <1>3

\* A free lock or another's is no lock of e's to give up.
LEMMA FreesOwn ==
  ASSUME NEW e \in JobExecs, NEW set, JobShapes, JobsTyped
  PROVE  /\ DOMAIN Freed(e, set) = DOMAIN jobLocks
         /\ jobLocks["map"] # e => Freed(e, set)["map"] = jobLocks["map"]
BY DEF Freed, JobsTyped, FilesTyped

\* A queue row that ends was deferred.
LEMMA FinishesKeeps ==
  ASSUME JobsInv, NEW e \in JobExecs, NEW status \in Statuses, execs[e].job \in JobIds,
         Finishes(e, status), UNCHANGED told
  PROVE  /\ RowsTyped'
         /\ ToldDeferred' /\ ToldOwn'
<1>1. /\ RowsTyped
      /\ ToldDeferred /\ ToldOwn
  BY DEF JobsInv, JobsTyped
<1>2. CASE jobs[execs[e].job].status \in {"todo", "doing"}
  <2>1. jobs' = [jobs EXCEPT ![execs[e].job].status = status]
    BY <1>2 DEF Finishes, JobOf
  <2> QED
    BY <1>1, <1>2, <2>1 DEF RowsTyped, RowShape, ToldDeferred, ToldOwn
<1>3. CASE jobs[execs[e].job].status \notin {"todo", "doing"}
  <2>1. jobs' = jobs
    BY <1>3 DEF Finishes, JobOf
  <2> QED
    BY <1>1, <2>1 DEF RowsTyped, ToldDeferred, ToldOwn
<1> QED
  BY <1>2, <1>3

\* An execution that moves to a place where the map is not split leaves the one who splits it alone.
LEMMA MovesKeep ==
  ASSUME JobsInv, NEW e \in JobExecs, NEW x \in ExecShape,
         x.at # "split", x.wrote = {}, x.at = "idle" \/ x.job \in JobIds,
         execs' = [execs EXCEPT ![e] = x],
         UNCHANGED mapPartial \/ jobLocks["map"] = e,
         jobLocks["map"] # e => jobLocks'["map"] = jobLocks["map"]
  PROVE  ExecsTyped' /\ SplitKept' /\ SplitFresh'
<1>1. ExecsTyped /\ SplitKept /\ SplitFresh
  BY DEF JobsInv, JobsTyped
<1>2. execs'[e] = x /\ \A d \in JobExecs \ {e} : execs'[d] = execs[d]
  BY <1>1 DEF ExecsTyped
<1>3. ExecsTyped'
  BY <1>1, <1>2 DEF ExecsTyped
<1>4. SplitFresh'
  BY <1>1, <1>2 DEF SplitFresh
<1>5. SplitKept'
  BY <1>1, <1>2 DEF SplitKept
<1> QED
  BY <1>3, <1>4, <1>5

\* The step of an execution that changes no row, no report, no figure and no list.
LEMMA QuietKeeps ==
  ASSUME JobsInv, ExecsTyped', SplitKept', SplitFresh', MapWhole',
         DOMAIN jobLocks' = DOMAIN jobLocks, UNCHANGED <<world, figures, knownRows, jobs, told>>
  PROVE  JobsInv'
<1>1. world' \in Worlds /\ FilesValid'
  BY FilesKept
<1>2. RowsTyped' /\ FilesTyped'
  BY DEF JobsInv, JobsTyped, RowsTyped, FilesTyped
<1>3. ToldDeferred' /\ ToldOwn'
  BY DEF JobsInv, ToldDeferred, ToldOwn
<1> QED
  BY <1>1, <1>2, <1>3 DEF JobsInv, JobsTyped

\* The lock of a job's own product is not the map's.
LEMMA ProductApart ==
  ASSUME JobShapes, JobsInv, NEW j \in JobIds
  PROVE  Product(j) # "map"
<1>1. jobs[j].court \in JobCourts \cup {"none"}
  BY DEF JobsInv, JobsTyped, RowsTyped, RowShape
<1> QED
  BY <1>1 DEF Product, JobShapes

\* A job starts, takes its lock and clears its old failure.
LEMMA BeginsKeep ==
  ASSUME JobShapes, JobsInv, NEW e \in JobExecs, JobStarts(e) \/ TakesLock(e) \/ Clears(e)
  PROVE  JobsInv'
<1>0. ExecsTyped /\ RowsTyped /\ FilesTyped /\ SplitFresh /\ MapWhole
  BY DEF JobsInv, JobsTyped
<1>a. execs[e] \in ExecShape /\ (execs[e].at # "idle" => execs[e].job \in JobIds)
  BY <1>0 DEF ExecsTyped
<1>b. execs[e].at # "split" => execs[e].wrote = {}
  BY <1>0 DEF SplitFresh
<1>1. CASE JobStarts(e)
  <2>1. PICK j \in JobIds :
          /\ jobs[j].status = "todo" /\ jobs' = [jobs EXCEPT ![j].status = "doing"]
          /\ execs' = [execs EXCEPT ![e] = [NoExec EXCEPT !.job = j, !.at = "lock"]]
    BY <1>1 DEF JobStarts
  <2>2. UNCHANGED <<world, mapPartial, mapDir, jobLocks, figures, knownRows, told>>
    BY <1>1 DEF JobStarts, Maps0, Files0
  <2> DEFINE x == [NoExec EXCEPT !.job = j, !.at = "lock"]
  <2>3. x \in ExecShape /\ x.at = "lock" /\ x.wrote = {} /\ x.job \in JobIds
    BY DEF NoExec, ExecShape, Places, Reasons
  <2>4. ExecsTyped' /\ SplitKept' /\ SplitFresh'
    <3> HIDE DEF x
    <3>1. execs' = [execs EXCEPT ![e] = x]
      BY <2>1 DEF x
    <3> QED
      BY <2>2, <2>3, <3>1, MovesKeep
  <2>5. RowsTyped' /\ FilesTyped'
    BY <1>0, <2>1, <2>2 DEF RowsTyped, RowShape, Statuses, FilesTyped
  <2>6. ToldDeferred' /\ ToldOwn' /\ MapWhole'
    BY <1>0, <2>1, <2>2 DEF JobsInv, RowsTyped, RowShape, ToldDeferred, ToldOwn, MapWhole
  <2>7. world' \in Worlds /\ FilesValid'
    BY <2>2, FilesKept
  <2> QED
    BY <2>4, <2>5, <2>6, <2>7 DEF JobsInv, JobsTyped
<1>2. CASE TakesLock(e)
  <2>1. execs[e].at = "lock" /\ UNCHANGED <<world, mapPartial, mapDir, figures, knownRows, jobs, told>>
    BY <1>2 DEF TakesLock, Spot, Maps0, Files0
  <2> DEFINE l == Product(execs[e].job)
             y == [execs[e] EXCEPT !.at = "clear"]
             z == [execs[e] EXCEPT !.at = "file", !.why = "busy", !.wrote = {}]
  <2>2. l # "map"
    BY <1>a, <2>1, ProductApart
  <2>3. MapWhole'
    BY <1>0, <2>1 DEF MapWhole
  <2>4. CASE jobLocks[l] = 0
    <3>1. jobLocks' = [jobLocks EXCEPT ![l] = e] /\ execs' = [execs EXCEPT ![e].at = "clear"]
      BY <1>2, <2>4 DEF TakesLock, Goes0
    <3>2. y \in ExecShape /\ y.at = "clear" /\ y.wrote = {} /\ y.job \in JobIds
      BY <1>a, <1>b, <2>1 DEF ExecShape, Places
    <3>3. execs' = [execs EXCEPT ![e] = y]
      BY <3>1
    <3>4. DOMAIN jobLocks' = DOMAIN jobLocks /\ jobLocks'["map"] = jobLocks["map"]
      BY <2>2, <3>1
    <3> HIDE DEF y
    <3>5. ExecsTyped' /\ SplitKept' /\ SplitFresh'
      BY <2>1, <3>2, <3>3, <3>4, MovesKeep
    <3> QED
      BY <2>1, <2>3, <3>4, <3>5, QuietKeeps
  <2>5. CASE jobLocks[l] # 0
    <3>1. jobLocks' = jobLocks /\ execs' = [execs EXCEPT ![e].at = "file", ![e].why = "busy", ![e].wrote = {}]
      BY <1>2, <2>5 DEF TakesLock, Leaves
    <3>2. z \in ExecShape /\ z.at = "file" /\ z.wrote = {} /\ z.job \in JobIds
      BY <1>a, <2>1 DEF ExecShape, Places, Reasons
    <3>3. execs' = [execs EXCEPT ![e] = z]
      BY <1>0, <3>1 DEF ExecsTyped
    <3> HIDE DEF z
    <3>5. ExecsTyped' /\ SplitKept' /\ SplitFresh'
      BY <2>1, <3>1, <3>2, <3>3, MovesKeep
    <3> QED
      BY <2>1, <2>3, <3>1, <3>5, QuietKeeps
  <2> QED
    BY <2>4, <2>5
<1>3. CASE Clears(e)
  <2>1. execs[e].at = "clear" /\ UNCHANGED <<world, mapPartial, mapDir, jobLocks, figures, knownRows, jobs, told>>
    BY <1>3 DEF Clears, Spot, Maps0, Files0
  <2> DEFINE place == IF JobOf(e).kind = "agreement" THEN "map" ELSE "resolve"
             y == [execs[e] EXCEPT !.at = place]
  <2>2. execs' = [execs EXCEPT ![e] = y]
    BY <1>3 DEF Clears, Goes0
  <2>3. y \in ExecShape /\ y.at # "split" /\ y.wrote = {} /\ y.job \in JobIds
    BY <1>a, <1>b, <2>1 DEF ExecShape, Places
  <2> HIDE DEF y
  <2>4. ExecsTyped' /\ SplitKept' /\ SplitFresh'
    BY <2>1, <2>2, <2>3, MovesKeep
  <2>5. MapWhole'
    BY <1>0, <2>1 DEF MapWhole
  <2> QED
    BY <2>1, <2>4, <2>5, QuietKeeps
<1> QED
  BY <1>1, <1>2, <1>3

\* The map is split by who holds its lock, and published only when every court's file is written.
LEMMA MapKeeps ==
  ASSUME JobShapes, JobsInv, NEW e \in JobExecs, WaitsForMap(e) \/ _stage_map(e)
  PROVE  JobsInv'
<1>0. ExecsTyped /\ FilesTyped /\ SplitKept /\ SplitFresh /\ MapWhole
  BY DEF JobsInv, JobsTyped
<1>a. execs[e] \in ExecShape /\ (execs[e].at # "idle" => execs[e].job \in JobIds)
  BY <1>0 DEF ExecsTyped
<1>b. execs[e].at # "split" => execs[e].wrote = {}
  BY <1>0 DEF SplitFresh
<1>c. "map" \in DOMAIN jobLocks
  BY <1>0 DEF FilesTyped
<1>1. CASE WaitsForMap(e)
  <2>1. /\ execs[e].at = "map" /\ jobLocks["map"] = 0
        /\ UNCHANGED <<world, mapDir, figures, knownRows, jobs, told>>
    BY <1>1 DEF WaitsForMap, Spot, Files0
  <2>2. MapWhole'
    BY <1>0, <2>1 DEF MapWhole
  <2>3. CASE mapDir # NoDir
    <3> DEFINE y == [execs[e] EXCEPT !.at = "compare"]
    <3>1. execs' = [execs EXCEPT ![e] = y] /\ UNCHANGED <<mapPartial, jobLocks>>
      BY <1>1, <2>3 DEF WaitsForMap, Goes0
    <3>2. y \in ExecShape /\ y.at = "compare" /\ y.wrote = {} /\ y.job \in JobIds
      BY <1>a, <1>b, <2>1 DEF ExecShape, Places
    <3> HIDE DEF y
    <3>3. ExecsTyped' /\ SplitKept' /\ SplitFresh'
      BY <3>1, <3>2, MovesKeep
    <3> QED
      BY <2>1, <2>2, <3>1, <3>3, QuietKeeps
  <2>4. CASE mapDir = NoDir
    <3> DEFINE y == [execs[e] EXCEPT !.at = "split"]
    <3>1. execs' = [execs EXCEPT ![e] = y] /\ mapPartial' = {} /\ jobLocks' = [jobLocks EXCEPT !["map"] = e]
      BY <1>1, <2>4 DEF WaitsForMap, Goes0
    <3>2. y \in ExecShape /\ y.at = "split" /\ y.wrote = {} /\ y.job \in JobIds
      BY <1>a, <1>b, <2>1 DEF ExecShape, Places
    <3> HIDE DEF y
    <3>3. execs'[e] = y /\ \A d \in JobExecs \ {e} : execs'[d] = execs[d]
      BY <1>0, <3>1 DEF ExecsTyped
    <3>4. jobLocks'["map"] = e /\ DOMAIN jobLocks' = DOMAIN jobLocks
      BY <1>c, <3>1
    <3>5. \A d \in JobExecs : execs[d].at # "split"
      BY <1>0, <2>1 DEF SplitKept, JobShapes
    <3>6. ExecsTyped'
      BY <1>0, <3>1, <3>2, <3>3 DEF ExecsTyped
    <3>7. SplitKept' /\ SplitFresh'
      BY <1>0, <3>1, <3>2, <3>3, <3>4, <3>5 DEF SplitKept, SplitFresh
    <3> QED
      BY <2>1, <2>2, <3>4, <3>6, <3>7, QuietKeeps
  <2> QED
    BY <2>3, <2>4
<1>2. CASE _stage_map(e)
  <2>1. execs[e].at = "split" /\ UNCHANGED <<world, figures, knownRows, jobs, told>>
    BY <1>2 DEF _stage_map, Spot, Files0
  <2>2. jobLocks["map"] = e /\ mapPartial = execs[e].wrote
    BY <1>0, <2>1 DEF SplitKept
  <2>3. ASSUME NEW c \in JobCourts,
               mapPartial' = mapPartial \cup {c}, execs' = [execs EXCEPT ![e].wrote = @ \cup {c}],
               UNCHANGED <<mapDir, jobLocks>>
        PROVE  JobsInv'
    <3> DEFINE y == [execs[e] EXCEPT !.wrote = @ \cup {c}]
    <3>1. execs' = [execs EXCEPT ![e] = y]
      BY <2>3
    <3>2. y \in ExecShape /\ y.at = "split" /\ y.wrote = mapPartial' /\ y.job \in JobIds
      BY <1>a, <2>1, <2>2, <2>3 DEF ExecShape, Places
    <3> HIDE DEF y
    <3>3. execs'[e] = y /\ \A d \in JobExecs \ {e} : execs'[d] = execs[d]
      BY <1>0, <3>1 DEF ExecsTyped
    <3>4. ExecsTyped'
      BY <1>0, <3>1, <3>2, <3>3 DEF ExecsTyped
    <3>a. \A d \in JobExecs \ {e} : execs[d].at # "split"
      BY <1>0, <2>2 DEF SplitKept
    <3>b. SplitKept'
      BY <2>2, <2>3, <3>2, <3>3, <3>a DEF SplitKept
    <3>c. SplitFresh'
      BY <1>0, <3>2, <3>3 DEF SplitFresh
    <3>d. MapWhole'
      BY <1>0, <2>3 DEF MapWhole
    <3>5. SplitKept' /\ SplitFresh' /\ MapWhole'
      BY <3>b, <3>c, <3>d
    <3> QED
      BY <2>1, <2>3, <3>4, <3>5, QuietKeeps
  <2>4. ASSUME execs[e].wrote = JobCourts, mapDir' = mapPartial,
               execs' = [execs EXCEPT ![e].at = "compare", ![e].wrote = {}],
               jobLocks' = Freed(e, {"map"})
        PROVE  JobsInv'
    <3> DEFINE y == [execs[e] EXCEPT !.at = "compare", !.wrote = {}]
    <3>1. execs' = [execs EXCEPT ![e] = y]
      BY <1>0, <2>4 DEF ExecsTyped
    <3>2. y \in ExecShape /\ y.at = "compare" /\ y.wrote = {} /\ y.job \in JobIds
      BY <1>a, <2>1 DEF ExecShape, Places
    <3> HIDE DEF y
    <3>3. ExecsTyped' /\ SplitKept' /\ SplitFresh'
      BY <2>2, <3>1, <3>2, MovesKeep
    <3>4. MapWhole'
      BY <2>2, <2>4 DEF MapWhole
    <3>5. DOMAIN jobLocks' = DOMAIN jobLocks
      BY <2>4 DEF Freed
    <3> QED
      BY <2>1, <3>3, <3>4, <3>5, QuietKeeps
  <2> QED
    BY <1>2, <2>3, <2>4 DEF _stage_map
<1> QED
  BY <1>1, <1>2

\* A figure or a list written, a failure on the way, and the two ends of an execution.
LEMMA EndsKeep ==
  ASSUME JobShapes, JobsInv, NEW e \in JobExecs,
         Fails0(e) \/ WritesFigure(e) \/ write_rows(e) \/ JobEnds(e) \/ write_job_failure(e)
  PROVE  JobsInv'
<1>0. ExecsTyped /\ RowsTyped /\ FilesTyped /\ SplitFresh /\ MapWhole /\ FilesValid
  BY DEF JobsInv, JobsTyped
<1>a. execs[e] \in ExecShape /\ (execs[e].at # "idle" => execs[e].job \in JobIds)
  BY <1>0 DEF ExecsTyped
<1>b. execs[e].at # "split" => execs[e].wrote = {}
  BY <1>0 DEF SplitFresh
<1>c. /\ DOMAIN Freed(e, DOMAIN jobLocks) = DOMAIN jobLocks
      /\ jobLocks["map"] # e => Freed(e, DOMAIN jobLocks)["map"] = jobLocks["map"]
  BY FreesOwn DEF JobsInv
<1>d. NoExec \in ExecShape /\ NoExec.at = "idle" /\ NoExec.wrote = {}
  BY DEF NoExec, ExecShape, Places, Reasons
<1>e. mapDir' = mapDir => MapWhole'
  BY <1>0 DEF MapWhole
<1>1. CASE Fails0(e)
  <2>1. execs[e].at # "idle" /\ jobLocks' = Freed(e, DOMAIN jobLocks)
        /\ UNCHANGED <<world, mapPartial, mapDir, figures, knownRows, jobs, told>>
    BY <1>1 DEF Fails0, Maps0, Files0
  <2>2. PICK why \in {"missing-stage", "input-mismatch", "malformed", "database"} :
          execs' = [execs EXCEPT ![e].at = "file", ![e].why = why, ![e].wrote = {}]
    BY <1>1 DEF Fails0, Leaves
  <2> DEFINE z == [execs[e] EXCEPT !.at = "file", !.why = why, !.wrote = {}]
  <2>3. execs' = [execs EXCEPT ![e] = z]
    BY <1>0, <2>2 DEF ExecsTyped
  <2>4. z \in ExecShape /\ z.at = "file" /\ z.wrote = {} /\ z.job \in JobIds
    BY <1>a, <2>1 DEF ExecShape, Places, Reasons
  <2> HIDE DEF z
  <2>5. ExecsTyped' /\ SplitKept' /\ SplitFresh'
    BY <1>c, <2>1, <2>3, <2>4, MovesKeep
  <2> QED
    BY <1>c, <1>e, <2>1, <2>5, QuietKeeps
<1>2. CASE WritesFigure(e) \/ write_rows(e)
  <2> DEFINE y == [execs[e] EXCEPT !.at = "end"]
  <2>1. execs[e].at \notin {"idle", "split"} /\ UNCHANGED <<world, mapPartial, mapDir, jobLocks, jobs, told>>
    BY <1>2 DEF WritesFigure, write_rows, Spot, Maps0
  <2>2. execs' = [execs EXCEPT ![e] = y]
    BY <1>2 DEF WritesFigure, write_rows, Goes0
  <2>3. y \in ExecShape /\ y.at = "end" /\ y.wrote = {} /\ y.job \in JobIds
    BY <1>a, <1>b, <2>1 DEF ExecShape, Places
  <2> HIDE DEF y
  <2>4. ExecsTyped' /\ SplitKept' /\ SplitFresh'
    BY <2>1, <2>2, <2>3, MovesKeep
  <2>5. FilesValid' /\ DOMAIN figures' = DOMAIN figures
    <3>1. CASE WritesFigure(e)
      <4> DEFINE court == JobOf(e).court
      <4>1. /\ figures' = [figures EXCEPT ![court] = [job |-> execs[e].job, figure |-> compare(court)]]
            /\ knownRows' = knownRows
        BY <3>1 DEF WritesFigure
      <4>2. FigureValid(compare(court))
        BY ComparesValid DEF JobsInv
      <4> HIDE DEF court
      <4>3. \A c \in JobCourts : figures'[c].job # 0 => FigureValid(figures'[c].figure)
        BY <1>0, <4>1, <4>2 DEF FilesTyped, FilesValid
      <4>4. CountsValid(knownRows')
        BY <1>0, <4>1 DEF FilesValid
      <4> QED
        BY <4>1, <4>3, <4>4 DEF FilesValid
    <3>2. CASE write_rows(e)
      <4>1. /\ figures' = figures
            /\ knownRows' = IF knownRows = {} THEN {resolve(entry) : entry \in parse_table} ELSE knownRows
        BY <3>2 DEF write_rows
      <4>2. CountsValid({resolve(entry) : entry \in parse_table})
        BY ResolvesValid DEF JobsInv
      <4>3. CountsValid(knownRows')
        BY <1>0, <4>1, <4>2 DEF FilesValid
      <4> QED
        BY <1>0, <4>1, <4>3 DEF FilesValid
    <3> QED
      BY <1>2, <3>1, <3>2
  <2>6. RowsTyped' /\ FilesTyped' /\ ToldDeferred' /\ ToldOwn' /\ world' \in Worlds
    BY <2>1, <2>5 DEF JobsInv, JobsTyped, RowsTyped, FilesTyped, ToldDeferred, ToldOwn
  <2> QED
    BY <1>e, <2>1, <2>4, <2>5, <2>6 DEF JobsInv, JobsTyped
<1>3. CASE JobEnds(e) \/ write_job_failure(e)
  <2>1. /\ execs[e].at # "idle" /\ execs' = [execs EXCEPT ![e] = NoExec]
        /\ UNCHANGED <<world, mapPartial, mapDir, figures, knownRows, told>>
        /\ jobLocks' \in {jobLocks, Freed(e, DOMAIN jobLocks)}
    BY <1>3 DEF JobEnds, write_job_failure, Spot, Maps0, Files0
  <2>2. \E status \in Statuses : Finishes(e, status)
    BY <1>3 DEF JobEnds, write_job_failure, Statuses
  <2>3. RowsTyped' /\ ToldDeferred' /\ ToldOwn'
    BY <1>a, <2>1, <2>2, FinishesKeeps
  <2>4. ExecsTyped' /\ SplitKept' /\ SplitFresh'
    BY <1>c, <1>d, <2>1, MovesKeep
  <2>5. FilesTyped'
    BY <1>0, <1>c, <2>1 DEF FilesTyped
  <2>6. world' \in Worlds /\ FilesValid'
    BY <2>1, FilesKept
  <2> QED
    BY <1>e, <2>1, <2>3, <2>4, <2>5, <2>6 DEF JobsInv, JobsTyped
<1> QED
  BY <1>1, <1>2, <1>3

\* The host takes a job's own figure and no invalid one.
LEMMA ReadsKeep ==
  ASSUME JobsInv, NEW j \in JobIds, HostReads(j)
  PROVE  JobsInv'
<1>0. RowsTyped /\ FilesTyped /\ FilesValid /\ ToldDeferred /\ ToldOwn
  BY DEF JobsInv, JobsTyped
<1>1. UNCHANGED <<world, mapPartial, mapDir, jobLocks, figures, knownRows, jobs, execs>>
  BY DEF HostReads, Maps0, Files0
<1>2. jobs[j].kind # "none"
  BY <1>0 DEF HostReads, ToldDeferred
<1> DEFINE says == IF jobs[j].status = "failed" THEN read_failure(j)
                   ELSE IF jobs[j].kind = "agreement" THEN read_agreement(j) ELSE read_overruled_counts(j)
<1>3. told' = [told EXCEPT ![j] = says]
  BY DEF HostReads, JobSays
<1>4. says.kind = "figure" => says.of = j
  BY DEF read_failure, read_agreement, read_overruled_counts
<1>5. jobs[j].kind = "overruled" => says.kind # "problem"
  BY <1>0 DEF read_failure, read_overruled_counts, FilesValid
<1> HIDE DEF says
<1>6. DOMAIN told' = JobIds /\ told'[j] = says /\ \A i \in JobIds \ {j} : told'[i] = told[i]
  BY <1>0, <1>3 DEF FilesTyped
<1>7. ToldDeferred' /\ ToldOwn'
  BY <1>0, <1>1, <1>2, <1>4, <1>5, <1>6 DEF ToldDeferred, ToldOwn
<1>8. world' \in Worlds /\ FilesValid'
  BY <1>1, FilesKept
<1>9. ExecsTyped' /\ RowsTyped' /\ FilesTyped'
  BY <1>1, <1>6 DEF JobsInv, JobsTyped, ExecsTyped, RowsTyped, FilesTyped
<1>10. SplitKept' /\ SplitFresh' /\ MapWhole'
  BY <1>1 DEF JobsInv, SplitKept, SplitFresh, MapWhole
<1> QED
  BY <1>7, <1>8, <1>9, <1>10 DEF JobsInv, JobsTyped

\* JobsSound holds of every label, every plan of jobs and any number of executions: however
\* the queue hands a stalled job out again, and wherever an execution fails or the worker
\* dies, the split map is whole or absent, the host takes no job's figure for another's, and
\* no record the worker writes is one the host refuses.
THEOREM JobsAlwaysSound == JobsSpec => []JobsSound
<1>1. JobsInit => JobsInv
  BY JobsStart, JobShapes
<1>2. JobsInv /\ [JobsNext]_jobVars => JobsInv'
  <2> SUFFICES ASSUME JobsInv, [JobsNext]_jobVars PROVE JobsInv'
    OBVIOUS
  <2>1. CASE Defers0 \/ retry_stalled_jobs \/ JobWorkerDies
    BY <2>1, QueueKeeps, JobShapes
  <2>2. ASSUME NEW e \in JobExecs, JobStarts(e) \/ ExecStep(e) \/ Fails0(e)
        PROVE  JobsInv'
    BY <2>2, BeginsKeep, MapKeeps, EndsKeep, JobShapes DEF ExecStep
  <2>3. ASSUME NEW j \in JobIds, HostReads(j)
        PROVE  JobsInv'
    BY <2>3, ReadsKeep
  <2>4. CASE UNCHANGED jobVars
    <3>1. ExecsTyped' /\ SplitKept' /\ SplitFresh' /\ MapWhole'
      BY <2>4 DEF jobVars, JobsInv, JobsTyped, ExecsTyped, SplitKept, SplitFresh, MapWhole
    <3> QED
      BY <2>4, <3>1, QuietKeeps DEF jobVars
  <2> QED
    BY <2>1, <2>2, <2>3, <2>4 DEF JobsNext
<1>3. JobsInv => JobsSound
  BY DEF JobsInv, FilesValid, ToldOwn, JobsSound, ToldTrue
<1> QED
  BY <1>1, <1>2, <1>3, PTL DEF JobsSpec

-----------------------------------------------------------------------------
(* The model store: what one pull at a time keeps of the journal and the disk. *)

PullStages == {"claim", "prune snapshots", "prune blobs", "clear", "fetch", "rotated",
               "rotated blobs", "release"}
Rotated == {"rotated", "rotated blobs", "release"}
Pruning == {"prune blobs", "clear", "rotated blobs", "release"}

Journal ==
  [in_progress : [by : Pullers \cup {"nobody"}, models : SUBSET StoreSnapshots],
   current : SUBSET StoreSnapshots, previous : SUBSET StoreSnapshots,
   retiring : SUBSET StoreSnapshots, candidates : SUBSET UNION CandidateLocks]
PullShape ==
  [stage : PullStages, record : Journal, models : Profiles, lock : CandidateLocks,
   cand : SUBSET UNION CandidateLocks]
PushShape == [stage : {"copy", "check", "audit"}, held : SUBSET StoreSnapshots,
              present : SUBSET UNION {Files(s) : s \in StoreSnapshots}]

PinnedRefs == CandidateRefs(UNION CandidateLocks)
NamedBy(r) == r.current \cup r.previous
\* What keeps a snapshot directory from being a leak: an entry, or a removal still due.
Cover(r) == NamedBy(r) \cup r.retiring \cup r.in_progress.models \cup PinnedRefs

StoreTyped ==
  /\ record \in Journal /\ snaps \subseteq StoreSnapshots
  /\ links \subseteq UNION {Files(s) : s \in StoreSnapshots}
  /\ blobs \in [AllBlobs -> {"absent", "partial", "bad", "good"}]
  /\ DOMAIN pull = Pullers /\ \A p \in Pullers : pull[p] = IdlePull \/ pull[p] \in PullShape
LinksHeld == \A l \in links : l[1] \in snaps

\* The claim: the process that pulls has the journal's last state, and its models are in it.
ClaimKept ==
  \A p \in Pullers :
    pull[p].stage # "idle" =>
      /\ pull[p].record = record /\ pull[p].cand \subseteq pull[p].lock
      /\ pull[p].stage # "claim" => record.in_progress.models = pull[p].models
      /\ pull[p].stage \in Rotated => record.current = record.in_progress.models
      /\ pull[p].stage \in Pruning => snaps \cap record.retiring = {}

\* Nothing that is served retires, nothing retires without a pull, nothing is forgotten.
RetiresKept ==
  /\ record.retiring \cap NamedBy(record) = {}
  /\ record.in_progress.models = {} => record.retiring = {}
  /\ snaps \subseteq Cover(record)

ArchiveKept ==
  /\ push = IdlePush \/ push \in PushShape
  /\ push.stage = "audit" => UNION {Files(s) : s \in push.held} \subseteq archive

StoreInv == StoreTyped /\ LinksHeld /\ ClaimKept /\ RetiresKept /\ NamedWhole
PushInv == ArchiveKept /\ ArchiveHolds

\* The transitions of the journal.  A snapshot a claim or a rotation takes an entry from
\* stays covered, and none that is served retires.
LEMMA ClaimFields ==
  ASSUME NEW r \in Journal, NEW p \in Pullers, NEW models \in SUBSET StoreSnapshots
  PROVE  LET c == claim(r, p, models)
         IN  /\ c \in Journal
             /\ c.in_progress.models = models /\ c.current = r.current /\ c.previous = r.previous
             /\ c.candidates = r.candidates
             /\ c.retiring = (r.retiring \cup r.in_progress.models)
                               \ (r.current \cup r.previous \cup models \cup CandidateRefs(r.candidates))
BY DEF claim, Journal

LEMMA ReconcileFields ==
  ASSUME ModelStoreShapes, NEW r \in Journal, NEW lock \in CandidateLocks, NEW claimed
  PROVE  LET c == reconcile_candidates(r, lock, claimed)
         IN  /\ c \in Journal
             /\ c.in_progress = r.in_progress /\ c.current = r.current /\ c.previous = r.previous
             /\ c.retiring \cap (r.current \cup r.previous) = {}
             /\ r.retiring \subseteq c.retiring \cup r.in_progress.models \cup NamedBy(r) \cup PinnedRefs
<1> DEFINE kept      == {e \in r.candidates : e.name \notin claimed \/ e \in lock}
           displaced == r.candidates \ kept
           taken     == {k.name : k \in kept}
           renamed   == {l \in lock : l.name \notin taken /\ l.snap \in CandidateRefs(displaced)}
           named     == r.in_progress.models \cup r.current \cup r.previous
                          \cup CandidateRefs(kept \cup renamed) \cup CandidateRefs(lock)
           retired   == (r.retiring \cup CandidateRefs(displaced)) \ named
<1>1. kept \cup renamed \subseteq UNION CandidateLocks /\ displaced \subseteq UNION CandidateLocks
  BY DEF Journal
<1>2. CandidateRefs(displaced) \subseteq StoreSnapshots /\ CandidateRefs(kept \cup renamed) \cup CandidateRefs(lock) \subseteq PinnedRefs
  <2> HIDE DEF kept, displaced, renamed
  <2> QED
    BY <1>1 DEF CandidateRefs, PinnedRefs, ModelStoreShapes
<1>3. reconcile_candidates(r, lock, claimed) =
        [r EXCEPT !.candidates = kept \cup renamed, !.retiring = retired]
  BY DEF reconcile_candidates
<1> HIDE DEF kept, displaced, taken, renamed
<1>4. retired \subseteq StoreSnapshots /\ retired \cap (r.current \cup r.previous) = {}
      /\ r.retiring \subseteq retired \cup r.in_progress.models \cup r.current \cup r.previous \cup PinnedRefs
  BY <1>2 DEF Journal
<1> HIDE DEF named, retired
<1> DEFINE now == kept \cup renamed
           c   == [r EXCEPT !.candidates = now, !.retiring = retired]
<1>5. now \subseteq UNION CandidateLocks
  BY <1>1
<1>6. /\ c \in Journal /\ c.in_progress = r.in_progress /\ c.current = r.current /\ c.previous = r.previous
      /\ c.retiring = retired
  <2> HIDE DEF now
  <2> QED
    BY <1>4, <1>5 DEF Journal
<1>7. reconcile_candidates(r, lock, claimed) = c
  BY <1>3
<1> HIDE DEF c
<1> QED
  BY <1>4, <1>6, <1>7 DEF NamedBy

LEMMA RotatesCover ==
  ASSUME NEW r \in Journal
  PROVE  LET c == rotate(r)
         IN  /\ c \in Journal /\ c.in_progress = r.in_progress /\ c.current = r.in_progress.models
             /\ NamedBy(c) \subseteq NamedBy(r) \cup r.in_progress.models
             /\ c.retiring \cap NamedBy(c) = {} /\ Cover(r) \subseteq Cover(c)
<1> DEFINE new  == r.in_progress.models
           away == r.current # {} /\ r.current # new
           prev == IF away THEN r.current ELSE r.previous
           gone == IF away THEN r.previous ELSE {}
           retired == (r.retiring \cup gone) \ (new \cup prev \cup CandidateRefs(r.candidates))
           c == [r EXCEPT !.current = new, !.previous = prev, !.retiring = retired]
<1>1. rotate(r) = c
  BY DEF rotate
<1>2. CandidateRefs(r.candidates) \subseteq PinnedRefs
  BY DEF Journal, CandidateRefs, PinnedRefs
<1>3. prev \in SUBSET StoreSnapshots /\ retired \in SUBSET StoreSnapshots /\ new \in SUBSET StoreSnapshots
  BY DEF Journal
<1>4. /\ c \in Journal /\ c.in_progress = r.in_progress /\ c.current = new /\ c.previous = prev
      /\ c.retiring = retired
  <2> HIDE DEF prev, retired, new
  <2> QED
    BY <1>3 DEF Journal
<1> HIDE DEF c
<1>5. NamedBy(c) \subseteq NamedBy(r) \cup new /\ c.retiring \cap NamedBy(c) = {}
  BY <1>4 DEF NamedBy
<1>6. Cover(r) \subseteq Cover(c)
  BY <1>2, <1>4 DEF Cover, NamedBy
<1> QED
  BY <1>1, <1>4, <1>5, <1>6

-----------------------------------------------------------------------------

\* The store at rest.
LEMMA StoreStart ==
  ASSUME StoreInit
  PROVE  StoreInv /\ PushInv
<1>1. FreshRecord \in Journal /\ NamedBy(FreshRecord) = {} /\ FreshRecord.retiring = {}
  BY DEF FreshRecord, Journal, NoPull, NamedBy
<1>2. StoreTyped /\ LinksHeld
  BY <1>1 DEF StoreInit, StoreTyped, LinksHeld
<1>3. ClaimKept
  BY DEF StoreInit, ClaimKept, IdlePull
<1>4. RetiresKept /\ NamedWhole
  BY <1>1 DEF StoreInit, RetiresKept, NamedWhole, NamedBy
<1>5. PushInv
  BY DEF StoreInit, PushInv, ArchiveKept, ArchiveHolds, IdlePush
<1> QED
  BY <1>2, <1>3, <1>4, <1>5 DEF StoreInv

\* A push reads the disk and writes the archive, which only grows.
LEMMA PushKeeps ==
  ASSUME PushInv, snaps \subseteq StoreSnapshots, Push
  PROVE  PushInv'
<1>0. ArchiveKept /\ ArchiveHolds
  BY DEF PushInv
<1>1. CASE PushInventory
  <2>1. UNCHANGED <<archive, recorded>>
    BY <1>1 DEF PushInventory
  <2> DEFINE present == {f \in UNION {Files(s) : s \in snaps} : OnDisk(f)}
  <2>2. push' = [stage |-> "copy", held |-> snaps, present |-> present]
    BY <1>1 DEF PushInventory
  <2>3. present \subseteq UNION {Files(s) : s \in StoreSnapshots}
    OBVIOUS
  <2> HIDE DEF present
  <2>4. push' \in PushShape /\ push'.stage # "audit"
    BY <2>2, <2>3 DEF PushShape
  <2> QED
    BY <1>0, <2>1, <2>4 DEF PushInv, ArchiveKept, ArchiveHolds
<1>2. CASE PushCopies
  <2>1. push.stage = "copy" /\ UNCHANGED recorded
        /\ (\/ archive' = archive \cup push.present /\ push' = [push EXCEPT !.stage = "check"]
            \/ archive' = archive /\ push' = IdlePush)
    BY <1>2 DEF PushCopies
  <2>2. push \in PushShape
    BY <1>0, <2>1 DEF ArchiveKept, IdlePush
  <2>3. (push' = IdlePush \/ push' \in PushShape) /\ push'.stage # "audit" /\ archive \subseteq archive'
    BY <2>1, <2>2 DEF PushShape, IdlePush
  <2> QED
    BY <1>0, <2>1, <2>3 DEF PushInv, ArchiveKept, ArchiveHolds
<1>3. CASE PushChecks
  <2>1. push.stage = "check" /\ UNCHANGED <<archive, recorded>>
        /\ (\/ UNION {Files(s) : s \in push.held} \subseteq archive /\ push' = [push EXCEPT !.stage = "audit"]
            \/ push' = IdlePush)
    BY <1>3 DEF PushChecks
  <2>2. push \in PushShape
    BY <1>0, <2>1 DEF ArchiveKept, IdlePush
  <2>3. CASE UNION {Files(s) : s \in push.held} \subseteq archive /\ push' = [push EXCEPT !.stage = "audit"]
    <3>1. push' \in PushShape /\ push'.held = push.held
      BY <2>2, <2>3 DEF PushShape
    <3> QED
      BY <1>0, <2>1, <2>3, <3>1 DEF PushInv, ArchiveKept, ArchiveHolds, Files
  <2>4. CASE push' = IdlePush
    BY <1>0, <2>1, <2>4 DEF PushInv, ArchiveKept, ArchiveHolds, IdlePush
  <2> QED
    BY <2>1, <2>3, <2>4
<1>4. CASE PushAudits
  <2>1. UNCHANGED archive /\ recorded' = push.held /\ push' = IdlePush
        /\ UNION {Files(s) : s \in push.held} \subseteq archive
    BY <1>0, <1>4 DEF PushAudits, ArchiveKept
  <2> QED
    BY <2>1 DEF PushInv, ArchiveKept, ArchiveHolds, IdlePush
<1> QED
  BY <1>1, <1>2, <1>3, <1>4 DEF Push

\* What leaves the archive alone keeps what is said of it.
LEMMA PushRests ==
  ASSUME PushInv, UNCHANGED archiveVars
  PROVE  PushInv'
BY DEF PushInv, ArchiveKept, ArchiveHolds, archiveVars

\* What leaves the journal, the disk and the pulls alone keeps the store.
LEMMA StoreRests ==
  ASSUME StoreInv, UNCHANGED <<record, snaps, links, blobs, pull, damaged>>
  PROVE  StoreInv'
<1>1. StoreTyped' /\ LinksHeld'
  BY DEF StoreInv, StoreTyped, LinksHeld
<1>2. ClaimKept' /\ RetiresKept'
  BY DEF StoreInv, ClaimKept, RetiresKept, Cover, NamedBy
<1>3. NamedWhole'
  BY DEF StoreInv, NamedWhole
<1> QED
  BY <1>1, <1>2, <1>3 DEF StoreInv

\* A pull that is going, as the invariant knows it.
LEMMA PullKnown ==
  ASSUME StoreInv, NEW p \in Pullers, pull[p].stage # "idle"
  PROVE  /\ pull[p] \in PullShape /\ pull[p].record = record /\ pull[p].cand \subseteq pull[p].lock
         /\ pull[p].stage # "claim" => record.in_progress.models = pull[p].models
         /\ pull[p].stage \in Rotated => record.current = record.in_progress.models
         /\ pull[p].stage \in Pruning => snaps \cap record.retiring = {}
<1>1. StoreTyped /\ ClaimKept
  BY DEF StoreInv
<1>2. pull[p] \in PullShape
  BY <1>1 DEF StoreTyped, IdlePull
<1>3. pull[p].record = record /\ pull[p].cand \subseteq pull[p].lock
  BY <1>1 DEF ClaimKept
<1>4. pull[p].stage # "claim" => record.in_progress.models = pull[p].models
  BY <1>1 DEF ClaimKept
<1>5. pull[p].stage \in Rotated => record.current = record.in_progress.models
  BY <1>1 DEF ClaimKept
<1>6. pull[p].stage \in Pruning => snaps \cap record.retiring = {}
  BY <1>1 DEF ClaimKept
<1> QED
  BY <1>2, <1>3, <1>4, <1>5, <1>6

\* With one process, what its pull becomes is all there is to know of the pulls.
LEMMA PullMoves ==
  ASSUME NEW p \in Pullers, \A q \in Pullers : q = p, DOMAIN pull = Pullers,
         NEW x, pull' = [pull EXCEPT ![p] = x], x = IdlePull \/ x \in PullShape,
         x.stage # "idle" =>
           /\ x.record = record' /\ x.cand \subseteq x.lock
           /\ x.stage # "claim" => record'.in_progress.models = x.models
           /\ x.stage \in Rotated => record'.current = record'.in_progress.models
           /\ x.stage \in Pruning => snaps' \cap record'.retiring = {}
  PROVE  /\ DOMAIN pull' = Pullers /\ (\A q \in Pullers : pull'[q] = IdlePull \/ pull'[q] \in PullShape)
         /\ ClaimKept'
<1>1. DOMAIN pull' = Pullers /\ pull'[p] = x
  OBVIOUS
<1>2. \A q \in Pullers : pull'[q] = x
  BY <1>1
<1>3. \A q \in Pullers : pull'[q] = IdlePull \/ pull'[q] \in PullShape
  BY <1>2
<1>4. ClaimKept'
  BY <1>2 DEF ClaimKept
<1> QED
  BY <1>1, <1>3, <1>4

\* A pull starts from the journal it reads, and one that stops leaves it.
LEMMA PullBeginsKeeps ==
  ASSUME ModelStoreShapes, StoreInv, NEW p \in Pullers, \A q \in Pullers : q = p,
         \/ PullStops(p)
         \/ \E models \in Profiles, lock \in CandidateLocks :
               \E cand \in {{}} \cup {{c} : c \in lock} : PullLoads(p, models, lock, cand)
  PROVE  StoreInv'
<1>0. StoreTyped /\ LinksHeld /\ RetiresKept /\ NamedWhole
  BY DEF StoreInv
<1>1. UNCHANGED <<record, snaps, links, blobs, damaged>>
  BY DEF PullStops, PullLoads, diskVars
<1>2. LinksHeld' /\ RetiresKept' /\ NamedWhole'
  BY <1>0, <1>1 DEF LinksHeld, RetiresKept, Cover, NamedBy, NamedWhole
<1>3. \E x : /\ pull' = [pull EXCEPT ![p] = x]
             /\ x = IdlePull \/ (x \in PullShape /\ x.stage = "claim" /\ x.record = record /\ x.cand \subseteq x.lock)
  <2>1. CASE PullStops(p)
    BY <2>1 DEF PullStops
  <2>2. ASSUME NEW models \in Profiles, NEW lock \in CandidateLocks,
               NEW cand \in {{}} \cup {{c} : c \in lock}, PullLoads(p, models, lock, cand)
        PROVE  \E x : /\ pull' = [pull EXCEPT ![p] = x]
                      /\ x = IdlePull \/ (x \in PullShape /\ x.stage = "claim" /\ x.record = record /\ x.cand \subseteq x.lock)
    <3> DEFINE x == [stage |-> "claim", record |-> record, models |-> models, lock |-> lock, cand |-> cand]
    <3>1. pull' = [pull EXCEPT ![p] = x]
      BY <2>2 DEF PullLoads
    <3>2. cand \subseteq lock /\ cand \subseteq UNION CandidateLocks
      OBVIOUS
    <3>3. x \in PullShape /\ x.stage = "claim" /\ x.record = record /\ x.cand \subseteq x.lock
      BY <1>0, <3>2 DEF PullShape, PullStages, StoreTyped
    <3> HIDE DEF x
    <3> QED
      BY <3>1, <3>3
  <2> QED
    BY <2>1, <2>2
<1>4. PICK x : /\ pull' = [pull EXCEPT ![p] = x]
               /\ x = IdlePull \/ (x \in PullShape /\ x.stage = "claim" /\ x.record = record /\ x.cand \subseteq x.lock)
  BY <1>3
<1>5. DOMAIN pull' = Pullers /\ (\A q \in Pullers : pull'[q] = IdlePull \/ pull'[q] \in PullShape) /\ ClaimKept'
  <2>1. x = IdlePull => x.stage = "idle"
    BY DEF IdlePull
  <2>2. "claim" \notin Rotated /\ "claim" \notin Pruning
    BY DEF Rotated, Pruning
  <2>3. DOMAIN pull = Pullers
    BY <1>0 DEF StoreTyped
  <2> QED
    BY <1>1, <1>4, <2>1, <2>2, <2>3, PullMoves
<1>6. StoreTyped'
  BY <1>0, <1>1, <1>5 DEF StoreTyped
<1> QED
  BY <1>2, <1>5, <1>6 DEF StoreInv

\* A save of the journal: the disk is as it was, and what is newly served is whole.
LEMMA SavesKeep ==
  ASSUME StoreInv, NEW p \in Pullers, \A q \in Pullers : q = p, pull[p].stage # "idle",
         NEW r \in Journal, NEW stage \in PullStages, stage # "claim", Save(p, r, stage),
         UNCHANGED diskVars,
         r.in_progress.models = pull[p].models,
         stage \in Rotated => r.current = r.in_progress.models,
         stage \notin Pruning,
         r.retiring \cap NamedBy(r) = {}, snaps \subseteq Cover(r),
         \A s \in NamedBy(r) : \A b \in Blobs[s] \ damaged : <<s, b>> \in links /\ blobs[b] = "good",
         ModelStoreShapes
  PROVE  StoreInv'
<1>0. StoreTyped /\ LinksHeld /\ DOMAIN pull = Pullers
  BY DEF StoreInv, StoreTyped
<1>1. UNCHANGED <<snaps, links, blobs, damaged>> /\ record' = r
  BY DEF diskVars, Save
<1>2. pull[p] \in PullShape /\ pull[p].cand \subseteq pull[p].lock
  BY PullKnown
<1> DEFINE x == [pull[p] EXCEPT !.stage = stage, !.record = r]
<1>3. pull' = [pull EXCEPT ![p] = x]
  BY <1>0 DEF Save
<1>4. x \in PullShape /\ x.stage = stage /\ x.record = r /\ x.models = pull[p].models
      /\ x.lock = pull[p].lock /\ x.cand = pull[p].cand
  BY ONLY <1>2, r \in Journal, stage \in PullStages DEF PullShape
<1> HIDE DEF x
<1>5. DOMAIN pull' = Pullers /\ (\A q \in Pullers : pull'[q] = IdlePull \/ pull'[q] \in PullShape) /\ ClaimKept'
  BY <1>0, <1>1, <1>2, <1>3, <1>4, PullMoves
<1>6. StoreTyped' /\ LinksHeld'
  BY <1>0, <1>1, <1>5 DEF StoreTyped, LinksHeld
<1>7. r.in_progress.models # {}
  <2>1. pull[p].models \in Profiles
    BY <1>2 DEF PullShape
  <2> QED
    BY <2>1 DEF ModelStoreShapes
<1>8. RetiresKept'
  BY <1>1, <1>7 DEF RetiresKept, Cover, NamedBy
<1>9. NamedWhole'
  BY <1>1 DEF NamedWhole, NamedBy
<1> QED
  BY <1>5, <1>6, <1>8, <1>9 DEF StoreInv

\* The claim takes no snapshot out of service, and forgets none.
LEMMA ClaimsKeep ==
  ASSUME ModelStoreShapes, StoreInv, NEW p \in Pullers, \A q \in Pullers : q = p, PullClaims(p)
  PROVE  StoreInv'
<1>0. StoreTyped /\ RetiresKept /\ NamedWhole /\ record \in Journal
  BY DEF StoreInv, StoreTyped
<1>1. pull[p].stage = "claim" /\ UNCHANGED diskVars
  BY DEF PullClaims, PullAt
<1>2. pull[p] \in PullShape /\ pull[p].record = record /\ pull[p].cand \subseteq pull[p].lock
  BY <1>1, PullKnown
<1>3. pull[p].models \in Profiles /\ pull[p].lock \in CandidateLocks /\ pull[p].cand \in SUBSET pull[p].lock
  BY <1>2 DEF PullShape
<1> DEFINE listed == {c.name : c \in IF pull[p].cand = {} THEN record.candidates ELSE pull[p].cand}
           r == WithPending(reconcile_candidates(claim(record, p, pull[p].models), pull[p].lock, listed),
                            pull[p].cand)
<1>4. Save(p, r, "prune snapshots")
  BY <1>2 DEF PullClaims
<1> HIDE DEF listed
<1>5. record.retiring \cap NamedBy(record) = {} /\ snaps \subseteq Cover(record)
  BY <1>0 DEF RetiresKept
<1>6. /\ r \in Journal /\ r.in_progress.models = pull[p].models /\ NamedBy(r) = NamedBy(record)
      /\ r.retiring \cap NamedBy(r) = {} /\ Cover(record) \subseteq Cover(r)
  <2> DEFINE m == pull[p].models
             l == pull[p].lock
             k == pull[p].cand
             a == claim(record, p, m)
             b == reconcile_candidates(a, l, listed)
             now == {e \in b.candidates : e.name \notin {c.name : c \in k}} \cup k
  <2>0. /\ m \in SUBSET StoreSnapshots /\ l \in CandidateLocks /\ k \subseteq UNION CandidateLocks
    BY <1>2, <1>3 DEF ModelStoreShapes, PullShape
  <2>r. r = [b EXCEPT !.candidates = now]
    BY DEF WithPending
  <2> HIDE DEF m, l, k, r
  <2>1. /\ a \in Journal /\ a.in_progress.models = m /\ a.current = record.current /\ a.previous = record.previous
        /\ a.retiring = (record.retiring \cup record.in_progress.models)
                          \ (record.current \cup record.previous \cup m \cup CandidateRefs(record.candidates))
    BY <1>0, <2>0, ClaimFields
  <2> HIDE DEF a
  <2>2. /\ b \in Journal /\ b.in_progress = a.in_progress /\ b.current = a.current /\ b.previous = a.previous
        /\ b.retiring \cap (a.current \cup a.previous) = {}
        /\ a.retiring \subseteq b.retiring \cup a.in_progress.models \cup NamedBy(a) \cup PinnedRefs
    BY <2>0, <2>1, ReconcileFields
  <2> HIDE DEF b
  <2>3. /\ r \in Journal /\ r.in_progress = b.in_progress /\ r.current = b.current /\ r.previous = b.previous
        /\ r.retiring = b.retiring
    <3>1. now \subseteq UNION CandidateLocks
      BY <2>0, <2>2 DEF Journal
    <3> HIDE DEF now
    <3> QED
      BY <2>2, <2>r, <3>1 DEF Journal
  <2>4. CandidateRefs(record.candidates) \subseteq PinnedRefs
    BY <1>0 DEF Journal, CandidateRefs, PinnedRefs
  <2>5. NamedBy(r) = NamedBy(record) /\ r.retiring \cap NamedBy(r) = {} /\ NamedBy(a) = NamedBy(record)
    BY <2>1, <2>2, <2>3 DEF NamedBy
  <2>6. Cover(record) \subseteq Cover(r)
    BY <2>1, <2>2, <2>3, <2>4, <2>5 DEF Cover, NamedBy
  <2> QED
    BY <2>1, <2>2, <2>3, <2>5, <2>6 DEF m
<1> HIDE DEF r
<1>7. \A s \in NamedBy(r) : \A b \in Blobs[s] \ damaged : <<s, b>> \in links /\ blobs[b] = "good"
  BY <1>0, <1>6 DEF NamedWhole, NamedBy
<1>8. "prune snapshots" \in PullStages /\ "prune snapshots" \notin Rotated /\ "prune snapshots" \notin Pruning
  BY DEF PullStages, Rotated, Pruning
<1>9. snaps \subseteq Cover(r)
  BY <1>5, <1>6
<1> QED
  BY <1>1, <1>4, <1>6, <1>7, <1>8, <1>9, SavesKeep

\* What the prune removed needs no entry; what was fetched whole may be served.
LEMMA ClearsKeep ==
  ASSUME ModelStoreShapes, StoreInv, NEW p \in Pullers, \A q \in Pullers : q = p,
         PullClears(p) \/ PullRotates(p)
  PROVE  StoreInv'
<1>0. StoreTyped /\ RetiresKept /\ NamedWhole /\ record \in Journal
  BY DEF StoreInv, StoreTyped
<1>1. CASE PullClears(p)
  <2>1. pull[p].stage = "clear" /\ UNCHANGED diskVars
    BY <1>1 DEF PullClears, PullAt
  <2>2. pull[p].record = record /\ record.in_progress.models = pull[p].models /\ snaps \cap record.retiring = {}
    BY <2>1, PullKnown DEF Pruning
  <2> DEFINE r == [record EXCEPT !.retiring = {}]
  <2>3. Save(p, r, "fetch")
    BY <1>1, <2>2 DEF PullClears
  <2>4. /\ r \in Journal /\ r.in_progress = record.in_progress /\ r.current = record.current
        /\ r.previous = record.previous /\ r.retiring = {}
    BY <1>0 DEF Journal
  <2> HIDE DEF r
  <2>5. NamedBy(r) = NamedBy(record) /\ snaps \subseteq Cover(r)
    BY <1>0, <2>2, <2>4 DEF RetiresKept, Cover, NamedBy
  <2>6. \A s \in NamedBy(r) : \A b \in Blobs[s] \ damaged : <<s, b>> \in links /\ blobs[b] = "good"
    BY <1>0, <2>5 DEF NamedWhole, NamedBy
  <2>7. "fetch" \in PullStages /\ "fetch" \notin Rotated /\ "fetch" \notin Pruning /\ r.retiring \cap NamedBy(r) = {}
    BY <2>4 DEF PullStages, Rotated, Pruning
  <2>8. r.in_progress.models = pull[p].models
    BY <2>2, <2>4
  <2> QED
    BY <2>1, <2>3, <2>4, <2>5, <2>6, <2>7, <2>8, SavesKeep
<1>2. CASE PullRotates(p)
  <2>1. pull[p].stage = "fetch" /\ UNCHANGED diskVars /\ ToConverge(p) = {}
    BY <1>2 DEF PullRotates, PullAt
  <2>2. pull[p].record = record /\ record.in_progress.models = pull[p].models /\ pull[p] \in PullShape
    BY <2>1, PullKnown
  <2> DEFINE r == rotate(record)
  <2>3. Save(p, r, "rotated")
    BY <1>2, <2>2 DEF PullRotates
  <2>4. /\ r \in Journal /\ r.in_progress = record.in_progress /\ r.current = record.in_progress.models
        /\ NamedBy(r) \subseteq NamedBy(record) \cup record.in_progress.models
        /\ r.retiring \cap NamedBy(r) = {} /\ Cover(record) \subseteq Cover(r)
    BY <1>0, RotatesCover
  <2> HIDE DEF r
  <2>5. \A s \in pull[p].models : \A b \in Blobs[s] : <<s, b>> \in links /\ blobs[b] = "good"
    <3> SUFFICES ASSUME NEW s \in pull[p].models, NEW b \in Blobs[s]
                 PROVE  <<s, b>> \in links /\ blobs[b] = "good"
      OBVIOUS
    <3> DEFINE f == <<s, b>>
    <3>1. s \in Pins(p) /\ f \in Files(s)
      BY DEF Pins, Files
    <3>2. f \in UNION {Files(t) : t \in Pins(p)}
      BY <3>1
    <3>3. FileState(f[1], f[2]) = "present"
      BY <2>1, <3>2 DEF ToConverge
    <3>4. FileState(s, b) = "present"
      BY <3>3
    <3>5. s \in StoreSnapshots /\ b \in AllBlobs
      BY <2>2 DEF PullShape, ModelStoreShapes, AllBlobs
    <3>6. blobs[b] \in {"absent", "partial", "bad", "good"}
      BY <1>0, <3>5 DEF StoreTyped
    <3> QED
      BY <3>4, <3>6 DEF FileState
  <2>6. \A s \in NamedBy(r) : \A b \in Blobs[s] \ damaged : <<s, b>> \in links /\ blobs[b] = "good"
    BY <1>0, <2>2, <2>4, <2>5 DEF NamedWhole, NamedBy
  <2>7. "rotated" \in PullStages /\ "rotated" \notin Pruning /\ snaps \subseteq Cover(r)
    BY <1>0, <2>4 DEF PullStages, Pruning, RetiresKept
  <2>8. r.in_progress.models = pull[p].models /\ r.current = r.in_progress.models
    BY <2>2, <2>4
  <2> QED
    BY <2>1, <2>3, <2>4, <2>6, <2>7, <2>8, SavesKeep
<1> QED
  BY <1>1, <1>2

\* A pull that only goes on to its next stage.
LEMMA StagesKeep ==
  ASSUME StoreInv, NEW p \in Pullers, \A q \in Pullers : q = p, pull[p].stage \notin {"idle", "claim"},
         NEW stage \in PullStages, stage # "claim", StoreTo(p, stage), UNCHANGED record,
         stage \in Rotated => pull[p].stage \in Rotated,
         stage \in Pruning => snaps' \cap record.retiring = {}
  PROVE  /\ DOMAIN pull' = Pullers /\ (\A q \in Pullers : pull'[q] = IdlePull \/ pull'[q] \in PullShape)
         /\ ClaimKept'
<1>0. DOMAIN pull = Pullers
  BY DEF StoreInv, StoreTyped
<1>1. /\ pull[p] \in PullShape /\ pull[p].record = record /\ pull[p].cand \subseteq pull[p].lock
      /\ record.in_progress.models = pull[p].models
      /\ pull[p].stage \in Rotated => record.current = record.in_progress.models
  BY PullKnown
<1> DEFINE x == [pull[p] EXCEPT !.stage = stage]
<1>2. pull' = [pull EXCEPT ![p] = x]
  BY <1>0 DEF StoreTo
<1>3. x \in PullShape /\ x.stage = stage /\ x.record = pull[p].record /\ x.models = pull[p].models
      /\ x.lock = pull[p].lock /\ x.cand = pull[p].cand
  BY ONLY <1>1, stage \in PullStages DEF PullShape
<1> HIDE DEF x
<1> QED
  BY <1>0, <1>1, <1>2, <1>3, PullMoves

\* A prune of snapshots takes only what retires, and nothing that retires is served.
LEMMA SnapshotsPruned ==
  ASSUME StoreInv, NEW p \in Pullers, \A q \in Pullers : q = p,
         PruneSnapshots(p, "prune snapshots", "prune blobs") \/ PruneSnapshots(p, "rotated", "rotated blobs")
  PROVE  StoreInv'
<1>0. StoreTyped /\ LinksHeld /\ RetiresKept /\ NamedWhole
  BY DEF StoreInv
<1>1. pull[p].stage \in {"prune snapshots", "rotated"}
  BY DEF PruneSnapshots, PullAt
<1>2. pull[p].record = record
  BY <1>1, PullKnown
<1>3. /\ snaps' = snaps \ record.retiring /\ links' = {l \in links : l[1] \notin record.retiring}
      /\ UNCHANGED <<record, blobs, damaged>>
  BY <1>2 DEF PruneSnapshots
<1>4. DOMAIN pull' = Pullers /\ (\A q \in Pullers : pull'[q] = IdlePull \/ pull'[q] \in PullShape) /\ ClaimKept'
  <2>1. snaps' \cap record.retiring = {}
    BY <1>3
  <2>2. CASE PruneSnapshots(p, "prune snapshots", "prune blobs")
    <3>1. StoreTo(p, "prune blobs") /\ "prune blobs" \in PullStages /\ "prune blobs" \notin Rotated
      BY <2>2 DEF PruneSnapshots, PullStages, Rotated
    <3> QED
      BY <1>1, <1>3, <2>1, <3>1, StagesKeep
  <2>3. CASE PruneSnapshots(p, "rotated", "rotated blobs")
    <3>1. StoreTo(p, "rotated blobs") /\ "rotated blobs" \in PullStages /\ pull[p].stage \in Rotated
      BY <2>3 DEF PruneSnapshots, PullStages, Rotated, PullAt
    <3> QED
      BY <1>1, <1>3, <2>1, <3>1, StagesKeep
  <2> QED
    BY <2>2, <2>3
<1>5. StoreTyped'
  BY <1>0, <1>3, <1>4 DEF StoreTyped
<1>6. LinksHeld' /\ RetiresKept'
  BY <1>0, <1>3 DEF LinksHeld, RetiresKept, Cover, NamedBy
<1>7. NamedWhole'
  <2> SUFFICES ASSUME NEW s \in record.current \cup record.previous, NEW b \in Blobs[s] \ damaged
               PROVE  <<s, b>> \in links' /\ blobs[b] = "good"
    BY <1>3 DEF NamedWhole
  <2>1. <<s, b>> \in links /\ blobs[b] = "good"
    BY <1>0 DEF NamedWhole
  <2>2. s \notin record.retiring
    BY <1>0 DEF RetiresKept, NamedBy
  <2>3. <<s, b>>[1] = s
    OBVIOUS
  <2> QED
    BY <1>3, <2>1, <2>2, <2>3
<1> QED
  BY <1>4, <1>5, <1>6, <1>7 DEF StoreInv

\* A prune of blobs takes none that a snapshot which is served links.
LEMMA BlobsPruned ==
  ASSUME ModelStoreShapes, StoreInv, NEW p \in Pullers, \A q \in Pullers : q = p,
         PruneBlobs(p, "prune blobs", "clear") \/ PruneBlobs(p, "rotated blobs", "release")
  PROVE  StoreInv'
<1>0. StoreTyped /\ LinksHeld /\ RetiresKept /\ NamedWhole
  BY DEF StoreInv
<1>1. pull[p].stage \in {"prune blobs", "rotated blobs"}
  BY DEF PruneBlobs, PullAt
<1>2. snaps \cap record.retiring = {}
  BY <1>1, PullKnown DEF Pruning
<1>3. /\ blobs' = [b \in AllBlobs |-> IF b \in Pruned(p) THEN "absent" ELSE blobs[b]]
      /\ UNCHANGED <<record, snaps, links, damaged>>
  BY DEF PruneBlobs
<1>4. DOMAIN pull' = Pullers /\ (\A q \in Pullers : pull'[q] = IdlePull \/ pull'[q] \in PullShape) /\ ClaimKept'
  <2>2. CASE PruneBlobs(p, "prune blobs", "clear")
    <3>1. StoreTo(p, "clear") /\ "clear" \in PullStages /\ "clear" \notin Rotated
      BY <2>2 DEF PruneBlobs, PullStages, Rotated
    <3> QED
      BY <1>1, <1>2, <1>3, <3>1, StagesKeep
  <2>3. CASE PruneBlobs(p, "rotated blobs", "release")
    <3>1. StoreTo(p, "release") /\ "release" \in PullStages /\ pull[p].stage \in Rotated
      BY <2>3 DEF PruneBlobs, PullStages, Rotated, PullAt
    <3> QED
      BY <1>1, <1>2, <1>3, <3>1, StagesKeep
  <2> QED
    BY <2>2, <2>3
<1>5. StoreTyped'
  <2>1. blobs' \in [AllBlobs -> {"absent", "partial", "bad", "good"}]
    BY <1>0, <1>3 DEF StoreTyped
  <2> QED
    BY <1>0, <1>3, <1>4, <2>1 DEF StoreTyped
<1>6. LinksHeld' /\ RetiresKept'
  BY <1>0, <1>3 DEF LinksHeld, RetiresKept, Cover, NamedBy
<1>7. NamedWhole'
  <2> SUFFICES ASSUME NEW s \in record.current \cup record.previous, NEW b \in Blobs[s] \ damaged
               PROVE  <<s, b>> \in links /\ blobs'[b] = "good"
    BY <1>3 DEF NamedWhole
  <2>1. <<s, b>> \in links /\ blobs[b] = "good"
    BY <1>0 DEF NamedWhole
  <2>2. s \in snaps /\ b \in {l[2] : l \in links}
    <3>1. <<s, b>>[1] = s /\ <<s, b>>[2] = b
      OBVIOUS
    <3> QED
      BY <1>0, <2>1, <3>1 DEF LinksHeld
  <2>3. s \in StoreSnapshots
    BY <1>0, <2>2 DEF StoreTyped
  <2>4. \A t \in StoreSnapshots : b \in Blobs[t] => Repo[t] = Repo[s]
    BY <2>3 DEF ModelStoreShapes
  <2>5. b \notin Pruned(p)
    BY <2>2, <2>4 DEF Pruned
  <2>6. b \in AllBlobs
    <3>1. b \in Blobs[s] /\ Blobs[s] \in {Blobs[t] : t \in StoreSnapshots}
      BY <2>3
    <3> QED
      BY <3>1 DEF AllBlobs
  <2> QED
    BY <1>3, <2>1, <2>5, <2>6
<1> QED
  BY <1>4, <1>5, <1>6, <1>7 DEF StoreInv

\* A fetch replaces no file that is whole, and its snapshot is of the claim or of the lock.
LEMMA FetchKeeps ==
  ASSUME ModelStoreShapes, StoreInv, NEW p \in Pullers, \A q \in Pullers : q = p,
         FileRelinked(p) \/ FileFetchBegins(p) \/ FileFetched(p)
  PROVE  StoreInv'
<1>0. StoreTyped /\ LinksHeld /\ ClaimKept /\ RetiresKept /\ NamedWhole
  BY DEF StoreInv
<1>1. pull[p].stage = "fetch" /\ UNCHANGED <<record, pull, damaged>>
  BY DEF FileRelinked, FileFetchBegins, FileFetched, PullAt
<1>2. record.in_progress.models = pull[p].models /\ pull[p] \in PullShape /\ pull[p].cand \subseteq pull[p].lock
  BY <1>1, PullKnown
<1>3. PICK f \in ToConverge(p) :
        /\ snaps' = snaps \cup {f[1]}
        /\ \/ links' = links \cup {f} /\ blobs' = blobs
           \/ /\ FileState(f[1], f[2]) \in {"absent", "mismatched"}
              /\ links' = links \ {f} /\ blobs' = [blobs EXCEPT ![f[2]] = "partial"]
           \/ links' = links \cup {f} /\ blobs' = [blobs EXCEPT ![f[2]] = "good"]
  BY DEF FileRelinked, FileFetchBegins, FileFetched
<1>4. PICK s \in Pins(p) : f \in Files(s)
  BY DEF ToConverge
<1>5. s \in pull[p].models \cup PinnedRefs /\ s \in StoreSnapshots
  BY <1>2, <1>4 DEF Pins, PullShape, CandidateRefs, PinnedRefs, ModelStoreShapes
<1>6. f[1] = s /\ f[2] \in Blobs[s] /\ f = <<f[1], f[2]>> /\ f[2] \in AllBlobs
  BY <1>4, <1>5 DEF Files, AllBlobs
<1>7. StoreTyped'
  <2>1. snaps' \subseteq StoreSnapshots
    BY <1>0, <1>3, <1>5, <1>6 DEF StoreTyped
  <2>2. links' \subseteq UNION {Files(t) : t \in StoreSnapshots}
    BY <1>0, <1>3, <1>4, <1>5 DEF StoreTyped
  <2>3. blobs' \in [AllBlobs -> {"absent", "partial", "bad", "good"}]
    BY <1>0, <1>3 DEF StoreTyped
  <2> QED
    BY <1>0, <1>1, <2>1, <2>2, <2>3 DEF StoreTyped
<1>8. LinksHeld'
  BY <1>0, <1>3 DEF LinksHeld
<1>9. RetiresKept'
  <2>1. s \in Cover(record)
    BY <1>2, <1>5 DEF Cover
  <2> QED
    BY <1>0, <1>1, <1>3, <1>6, <2>1 DEF RetiresKept, Cover, NamedBy
<1>10. NamedWhole'
  <2> SUFFICES ASSUME NEW t \in record.current \cup record.previous, NEW b \in Blobs[t] \ damaged
               PROVE  <<t, b>> \in links' /\ blobs'[b] = "good"
    BY <1>1 DEF NamedWhole
  <2>1. <<t, b>> \in links /\ blobs[b] = "good"
    BY <1>0 DEF NamedWhole
  <2>2. FileState(f[1], f[2]) \in {"absent", "mismatched"} => blobs[f[2]] # "good"
    BY DEF FileState
  <2>3. blobs[f[2]] # "good" => f[2] # b /\ f # <<t, b>>
    BY <1>6, <2>1
  <2>4. blobs \in [AllBlobs -> {"absent", "partial", "bad", "good"}]
    BY <1>0 DEF StoreTyped
  <2>5. CASE links' = links \cup {f} /\ blobs' = blobs
    BY <2>1, <2>5
  <2>6. CASE /\ FileState(f[1], f[2]) \in {"absent", "mismatched"}
             /\ links' = links \ {f} /\ blobs' = [blobs EXCEPT ![f[2]] = "partial"]
    BY <2>1, <2>2, <2>3, <2>6
  <2>7. CASE links' = links \cup {f} /\ blobs' = [blobs EXCEPT ![f[2]] = "good"]
    <3>1. blobs'[b] = IF b = f[2] THEN "good" ELSE blobs[b]
      BY <1>6, <2>4, <2>7
    <3> QED
      BY <2>1, <2>7, <3>1
  <2> QED
    BY <1>3, <2>5, <2>6, <2>7
<1>11. ClaimKept'
  <2> SUFFICES ASSUME NEW q \in Pullers, pull[q].stage # "idle"
               PROVE  /\ pull[q].record = record /\ pull[q].cand \subseteq pull[q].lock
                      /\ pull[q].stage # "claim" => record.in_progress.models = pull[q].models
                      /\ pull[q].stage \in Rotated => record.current = record.in_progress.models
                      /\ pull[q].stage \in Pruning => snaps' \cap record.retiring = {}
    BY <1>1 DEF ClaimKept
  <2>1. pull[q].stage \notin Pruning
    BY <1>1 DEF Pruning
  <2> QED
    BY <2>1, PullKnown
<1> QED
  BY <1>7, <1>8, <1>9, <1>10, <1>11 DEF StoreInv

\* The release drops what the rotation's prune removed.
LEMMA ReleaseKeeps ==
  ASSUME StoreInv, NEW p \in Pullers, \A q \in Pullers : q = p, PullReleases(p)
  PROVE  StoreInv'
<1>0. StoreTyped /\ LinksHeld /\ RetiresKept /\ NamedWhole /\ record \in Journal /\ DOMAIN pull = Pullers
  BY DEF StoreInv, StoreTyped
<1>1. pull[p].stage = "release" /\ UNCHANGED <<snaps, links, blobs, damaged>>
      /\ record' = release(pull[p].record) /\ pull' = [pull EXCEPT ![p] = IdlePull]
  BY DEF PullReleases, PullAt, diskVars
<1>2. pull[p].record = record /\ record.current = record.in_progress.models /\ snaps \cap record.retiring = {}
  BY <1>1, PullKnown DEF Pruning, Rotated
<1>3. /\ record' \in Journal /\ record'.in_progress.models = {} /\ record'.current = record.current
      /\ record'.previous = record.previous /\ record'.retiring = {}
  <2>1. record' = [record EXCEPT !.in_progress = NoPull, !.retiring = {}]
    BY <1>1, <1>2 DEF release
  <2> QED
    BY <1>0, <2>1 DEF Journal, NoPull
<1>4. DOMAIN pull' = Pullers /\ (\A q \in Pullers : pull'[q] = IdlePull \/ pull'[q] \in PullShape) /\ ClaimKept'
  <2>1. IdlePull.stage = "idle"
    BY DEF IdlePull
  <2> QED
    BY <1>0, <1>1, <2>1, PullMoves
<1>5. StoreTyped' /\ LinksHeld'
  BY <1>0, <1>1, <1>3, <1>4 DEF StoreTyped, LinksHeld
<1>6. RetiresKept' /\ NamedWhole'
  BY <1>0, <1>1, <1>2, <1>3 DEF RetiresKept, Cover, NamedBy, NamedWhole
<1> QED
  BY <1>4, <1>5, <1>6 DEF StoreInv

\* A spoilt file is remembered as damaged.
LEMMA SpoiltKeeps ==
  ASSUME StoreInv, NEW b \in AllBlobs, Spoilt(b)
  PROVE  StoreInv'
<1>0. StoreTyped /\ LinksHeld /\ ClaimKept /\ RetiresKept /\ NamedWhole
  BY DEF StoreInv
<1>1. UNCHANGED <<record, snaps, links, pull>> /\ blobs' = [blobs EXCEPT ![b] = "bad"]
      /\ damaged' = damaged \cup {b}
  BY DEF Spoilt
<1>2. StoreTyped' /\ LinksHeld'
  BY <1>0, <1>1 DEF StoreTyped, LinksHeld
<1>3. ClaimKept' /\ RetiresKept'
  BY <1>0, <1>1 DEF ClaimKept, RetiresKept, Cover, NamedBy
<1>4. NamedWhole'
  <2>1. \A c \in AllBlobs : c # b => blobs'[c] = blobs[c]
    BY <1>0, <1>1 DEF StoreTyped
  <2>2. \A s \in record.current \cup record.previous : \A c \in Blobs[s] \ damaged' :
          <<s, c>> \in links /\ blobs'[c] = "good"
    <3> SUFFICES ASSUME NEW s \in record.current \cup record.previous, NEW c \in Blobs[s] \ damaged'
                 PROVE  <<s, c>> \in links /\ blobs'[c] = "good"
      OBVIOUS
    <3>1. c \in Blobs[s] \ damaged /\ c # b
      BY <1>1
    <3>2. <<s, c>> \in links /\ blobs[c] = "good"
      BY <1>0, <3>1 DEF NamedWhole
    <3>3. s \in StoreSnapshots
      BY <1>0 DEF StoreTyped, Journal
    <3>4. c \in AllBlobs
      BY <3>1, <3>3 DEF AllBlobs
    <3> QED
      BY <2>1, <3>1, <3>2, <3>4
  <2> QED
    BY <1>1, <2>2 DEF NamedWhole
<1> QED
  BY <1>2, <1>3, <1>4 DEF StoreInv

\* StoreSound holds of every set of models, every pinning of candidates and any number of
\* pulls that stop anywhere and are run again, as long as one process pulls at a time:
\* the snapshots in service and the ones a rollback would serve stay whole, no displaced
\* snapshot is forgotten on the disk, and what the audit row calls archived is archived.
THEOREM StoreAlwaysSound ==
  ASSUME \A p, q \in Pullers : p = q
  PROVE  StoreSpec => []StoreSound
<1>1. StoreInit => StoreInv /\ PushInv
  BY StoreStart
<1>2. StoreInv /\ PushInv /\ [StoreNext]_storeVars => (StoreInv /\ PushInv)'
  <2> SUFFICES ASSUME StoreInv, PushInv, [StoreNext]_storeVars PROVE StoreInv' /\ PushInv'
    OBVIOUS
  <2>0. snaps \subseteq StoreSnapshots
    BY DEF StoreInv, StoreTyped
  <2>1. CASE Push
    <3>1. UNCHANGED <<record, snaps, links, blobs, pull, damaged>>
      BY <2>1 DEF Push, PushInventory, PushCopies, PushChecks, PushAudits, PushUnchanged, diskVars
    <3> QED
      BY <2>0, <2>1, <3>1, PushKeeps, StoreRests
  <2>2. ASSUME NEW p \in Pullers, Pull(p)
        PROVE  StoreInv' /\ PushInv'
    <3>1. \A q \in Pullers : q = p
      OBVIOUS
    <3>2. UNCHANGED archiveVars
      BY <2>2 DEF Pull, PullLoads, PullClaims, PruneSnapshots, PruneBlobs, PullClears, FileRelinked,
                  FileFetchBegins, FileFetched, PullRotates, PullReleases, PullStops
    <3>3. PushInv'
      BY <3>2, PushRests
    <3>4. StoreInv'
      BY <2>2, <3>1, ModelStoreShapes, PullBeginsKeeps, ClaimsKeep, SnapshotsPruned, BlobsPruned,
         ClearsKeep, FetchKeeps, ReleaseKeeps DEF Pull
    <3> QED
      BY <3>3, <3>4
  <2>3. ASSUME NEW b \in AllBlobs, Spoilt(b)
        PROVE  StoreInv' /\ PushInv'
    <3>1. UNCHANGED archiveVars
      BY <2>3 DEF Spoilt
    <3> QED
      BY <2>3, <3>1, SpoiltKeeps, PushRests
  <2>4. CASE UNCHANGED storeVars
    BY <2>4, StoreRests, PushRests DEF storeVars, archiveVars
  <2> QED
    BY <2>1, <2>2, <2>3, <2>4 DEF StoreNext
<1>3. StoreInv /\ PushInv => StoreSound
  <2> SUFFICES ASSUME StoreInv, PushInv PROVE StoreSound
    OBVIOUS
  <2>1. record \in Journal /\ RetiresKept /\ NamedWhole /\ ArchiveHolds
    BY DEF StoreInv, StoreTyped, PushInv
  <2>2. NothingLeaks
    <3>1. PinnedRefs \subseteq CandidateRefs(record.candidates \cup UNION CandidateLocks)
      BY DEF PinnedRefs, CandidateRefs
    <3>2. record.in_progress = NoPull => record.in_progress.models = {}
      BY DEF NoPull
    <3> QED
      BY <2>1, <3>1, <3>2 DEF NothingLeaks, RetiresKept, Cover, NamedBy
  <2> QED
    BY <2>1, <2>2 DEF StoreSound
<1> QED
  BY <1>1, <1>2, <1>3, PTL DEF StoreSpec

-----------------------------------------------------------------------------
(* The file transfer. *)

Streaming == {"ask", "body", "retry", "flush", "record", "rename"}
AtWork    == Streaming \cup {"resume"}

\* An execution that holds the partial the name leads to.
Holding(e) ==
  \/ Run(e).at \in AtWork
  \/ LET i == Run(e).ino
     IN  Run(e).at = "close" /\ i # 0 /\ names.partial = i /\ flocks[i] = e

\* While the kept file is not there, one execution has its partial.
OneHolder ==
  form = "kept" /\ names.file = 0 =>
    \A e, x \in Execs : Holding(e) /\ Holding(x) => e = x

FetchReasons == {"none", "busy", "local", "changed", "transport", "succeeded"}
RunType ==
  [at : AtWork \cup {"idle", "open", "lock", "close"}, ino : Inodes \cup {0}, had : BOOLEAN,
   size : 0..Size, durable : 0..Size, total : {0, Size}, etag : 0..Versions, ranged : BOOLEAN,
   digest : Seq(Nat), out : Inodes \cup {0}, serving : 0..Versions, before : 0..Size,
   failures : Nat, reason : FetchReasons]

FetchTypes ==
  /\ upstream \in [v : 1..Versions, etag : BOOLEAN, length : BOOLEAN]
  /\ names \in [partial : Inodes \cup {0}, file : Inodes \cup {0}]
  /\ blocks \in [Inodes -> Seq(Nat)] /\ \A i \in Inodes : Len(blocks[i]) <= Size
  /\ synced \in [Inodes -> 0..Size]
  /\ fetchRun \in [Execs -> RunType]
  /\ jobsDone \in Seq(FetchReasons)

\* The first n blocks of version v.
Pure(n, v) == [k \in 1..n |-> v]

\* What a transfer has so far is of version v.
OneVersion(r, v) ==
  /\ r.digest = Pure(r.size, v) /\ r.durable <= r.size
  /\ r.size > 0 /\ r.etag # 0 => v = r.etag
  /\ r.at = "body" => v = r.serving /\ r.etag \in {0, v} /\ r.out = names.partial
  /\ r.at = "ask" => (r.ranged = TRUE <=> r.size > 0) /\ (r.size > 0 => r.etag # 0)
  /\ r.at \in {"flush", "record", "rename"} => r.size = Size
  /\ r.at \in {"record", "rename"} => synced[names.partial] = Size

\* A transfer under way has in the partial what its digest was taken over.
Transfer(r) ==
  /\ names.file = 0 /\ names.partial # 0 /\ blocks[names.partial] = r.digest
  /\ \E v \in 1..Versions : OneVersion(r, v)
  /\ IF r.at = "rename" THEN fetchRec = WholeRecord(r)
     ELSE /\ fetchRec.state # "whole"
          /\ fetchRec.state = "partial" => fetchRec.durable <= r.size

RunOK(r) == /\ r.at \in Streaming => Transfer(r)
            /\ r.at = "close" /\ r.reason = "succeeded" => names.file # 0

RunsHold == \A e \in Execs : RunOK(fetchRun[e])

\* A record on the disk vouches for the blocks it speaks of.
PartialVouches ==
  fetchRec.state = "partial" =>
    /\ fetchRec.durable \in 1..Size /\ fetchRec.total \in {0, Size}
    /\ fetchRec.etag \in 0..Versions
    /\ fetchRec.etag # 0 /\ names.partial # 0 /\ Len(blocks[names.partial]) >= fetchRec.durable
         => \A k \in 1..fetchRec.durable : blocks[names.partial][k] = fetchRec.etag
WholeVouches ==
  fetchRec.state = "whole" =>
    /\ fetchRec.size = Size /\ \E v \in 1..Versions : fetchRec.digest = Pure(Size, v)
    /\ names.file = 0 /\ names.partial # 0 /\ Len(blocks[names.partial]) = Size
         => blocks[names.partial] = fetchRec.digest /\ synced[names.partial] = Size

\* A published file is its record's, durable, and no transfer's partial.
FileStands ==
  /\ names.file # 0 =>
       /\ fetchRec.state = "whole" /\ blocks[names.file] = fetchRec.digest
       /\ synced[names.file] = Size /\ names.partial # names.file
  /\ (\E i \in DOMAIN jobsDone : jobsDone[i] = "succeeded") => names.file # 0

FetchInv == form = "kept" =>
  FetchTypes /\ RunsHold /\ PartialVouches /\ WholeVouches /\ FileStands

\* Blocks of one version: what a prefix of them is, and what one more makes it.
LEMMA PureFacts ==
  ASSUME NEW n \in Nat, NEW v \in Nat
  PROVE  /\ Pure(n, v) \in Seq(Nat) /\ Len(Pure(n, v)) = n
         /\ Pure(0, v) = <<>>
         /\ \A k \in 1..n : Pure(n, v)[k] = v
         /\ Append(Pure(n, v), v) = Pure(n + 1, v)
         /\ Written(Pure(n, v), n + 1, v) = Pure(n + 1, v)
<1>1. /\ Pure(n, v) \in Seq(Nat) /\ Len(Pure(n, v)) = n /\ DOMAIN Pure(n, v) = 1..n
      /\ \A k \in 1..n : Pure(n, v)[k] = v
  <2>1. Pure(n, v) \in [1..n -> Nat]
    BY DEF Pure
  <2>2. \A s : s \in [1..n -> Nat] => s \in Seq(Nat) /\ Len(s) = n
    OBVIOUS
  <2> QED
    BY <2>1, <2>2 DEF Pure
<1>2. Pure(0, v) = <<>>
  <2>1. Pure(0, v) \in [1..0 -> Nat]
    BY DEF Pure
  <2>2. \A s : s \in [1..0 -> Nat] => s \in Seq(Nat) /\ Len(s) = 0
    OBVIOUS
  <2> QED
    BY <2>1, <2>2, EmptySeq
<1>3. Append(Pure(n, v), v) = Pure(n + 1, v)
  <2>1. /\ Append(Pure(n, v), v) \in Seq(Nat) /\ Len(Append(Pure(n, v), v)) = n + 1
        /\ \A k \in 1..(n + 1) : Append(Pure(n, v), v)[k] = v
    <3> HIDE DEF Pure
    <3> QED
      BY <1>1, AppendProperties
  <2>2. /\ Pure(n + 1, v) \in Seq(Nat) /\ Len(Pure(n + 1, v)) = n + 1
        /\ \A k \in 1..(n + 1) : Pure(n + 1, v)[k] = v
    <3>1. Pure(n + 1, v) \in [1..(n + 1) -> Nat]
      BY DEF Pure
    <3>2. \A s : s \in [1..(n + 1) -> Nat] => s \in Seq(Nat) /\ Len(s) = n + 1
      OBVIOUS
    <3> QED
      BY <3>1, <3>2 DEF Pure
  <2> QED
    <3> HIDE DEF Pure
    <3> QED
      BY <2>1, <2>2, SeqEqual
<1>4. Written(Pure(n, v), n + 1, v) = Pure(n + 1, v)
  <2>1. (IF Len(Pure(n, v)) >= n + 1 THEN Len(Pure(n, v)) ELSE n + 1) = n + 1
    BY <1>1
  <2>2. \A k \in 1..(n + 1) :
          (IF k = n + 1 THEN v ELSE IF k <= Len(Pure(n, v)) THEN Pure(n, v)[k] ELSE 0) = v
    BY <1>1
  <2> QED
    BY <2>1, <2>2 DEF Written, Pure
<1> QED
  BY <1>1, <1>2, <1>3, <1>4

\* A prefix of a file.
LEMMA PrefixFacts ==
  ASSUME NEW s \in Seq(Nat), NEW n \in 0..Len(s)
  PROVE  /\ SubSeq(s, 1, n) \in Seq(Nat) /\ Len(SubSeq(s, 1, n)) = n
         /\ \A k \in 1..n : SubSeq(s, 1, n)[k] = s[k]
         /\ n = Len(s) => SubSeq(s, 1, n) = s
         /\ \A v \in Nat : (\A k \in 1..n : s[k] = v) => SubSeq(s, 1, n) = Pure(n, v)
<1>1. /\ SubSeq(s, 1, n) \in Seq(Nat) /\ Len(SubSeq(s, 1, n)) = n
      /\ \A k \in 1..n : SubSeq(s, 1, n)[k] = s[k]
  OBVIOUS
<1>2. n = Len(s) => SubSeq(s, 1, n) = s
  BY <1>1, SeqEqual
<1>3. ASSUME NEW v \in Nat, \A k \in 1..n : s[k] = v
      PROVE  SubSeq(s, 1, n) = Pure(n, v)
  <2>1. SubSeq(s, 1, n) = [k \in 1..n |-> SubSeq(s, 1, n)[k]]
    BY <1>1, LenProperties
  <2> QED
    BY <1>1, <1>3, <2>1 DEF Pure
<1> QED
  BY <1>1, <1>2, <1>3

Quiet(r) == r.at \notin Streaming /\ ~(r.at = "close" /\ r.reason = "succeeded")

\* A step that leaves the disk alone only has to account for the execution it moves.
LEMMA Stays ==
  ASSUME FetchInv, form = "kept", form' = form, upstream' = upstream, UNCHANGED Disk,
         jobsDone' = jobsDone, NEW e \in Execs, NEW r \in RunType, To(e, r), RunOK(r)
  PROVE  FetchInv'
<1>1. fetchRun \in [Execs -> RunType] /\ fetchRun' \in [Execs -> RunType]
  BY DEF FetchInv, FetchTypes, To
<1>2. names' = names /\ blocks' = blocks /\ synced' = synced /\ fetchRec' = fetchRec
  BY DEF Disk
<1>3. \A x : RunOK(x) <=> RunOK(x)'
  BY <1>2 DEF RunOK, Transfer, OneVersion
<1>4. \A x \in Execs : RunOK(fetchRun'[x])
  BY <1>1 DEF FetchInv, RunsHold, To
<1>5. RunsHold'
  BY <1>3, <1>4 DEF RunsHold
<1>6. FetchTypes'
  BY <1>1, <1>2 DEF FetchInv, FetchTypes
<1>7. PartialVouches' /\ WholeVouches' /\ FileStands'
  BY <1>2 DEF FetchInv, PartialVouches, WholeVouches, FileStands
<1> QED
  BY <1>5, <1>6, <1>7 DEF FetchInv

\* While the file is not there, whoever holds the partial is the only one at it.
LEMMA Alone ==
  ASSUME FetchInv, form = "kept", OneHolder, NEW e \in Execs, Holding(e), names.file = 0
  PROVE  \A x \in Execs \ {e} : Quiet(fetchRun[x])
  BY DEF FetchInv, RunsHold, RunOK, OneHolder, Holding, Quiet, AtWork, Run

\* A published file leaves nobody at a partial.
LEMMA Published ==
  ASSUME FetchInv, form = "kept", names.file # 0
  PROVE  \A x \in Execs : fetchRun[x].at \notin Streaming
  BY DEF FetchInv, RunsHold, RunOK, Transfer

\* The step of the execution that has the partial.
LEMMA Moves ==
  ASSUME FetchInv, form = "kept", form' = form, upstream' = upstream, jobsDone' = jobsDone,
         NEW e \in Execs, NEW r \in RunType, To(e, r), RunOK(r)',
         \A x \in Execs \ {e} : Quiet(fetchRun[x]),
         names' \in [partial : Inodes \cup {0}, file : Inodes \cup {0}],
         blocks' \in [Inodes -> Seq(Nat)], \A i \in Inodes : Len(blocks'[i]) <= Size,
         synced' \in [Inodes -> 0..Size],
         PartialVouches', WholeVouches', FileStands'
  PROVE  FetchInv'
<1>1. fetchRun \in [Execs -> RunType] /\ fetchRun' \in [Execs -> RunType]
  BY DEF FetchInv, FetchTypes, To
<1>2. FetchTypes'
  BY <1>1 DEF FetchInv, FetchTypes
<1>3. \A x : Quiet(x) => RunOK(x)'
  BY DEF Quiet, RunOK
<1>4. ASSUME NEW x \in Execs PROVE RunOK(fetchRun[x])'
  <2>1. CASE x = e
    <3>1. fetchRun'[x] = r
      BY <1>1, <2>1 DEF To
    <3> QED
      BY <3>1 DEF RunOK, Transfer, OneVersion
  <2>2. CASE x # e
    <3>1. fetchRun'[x] = fetchRun[x] /\ Quiet(fetchRun[x])
      BY <1>1, <2>2 DEF To
    <3> QED
      BY <3>1 DEF Quiet, RunOK
  <2> QED
    BY <2>1, <2>2
<1>5. RunsHold'
  BY <1>4 DEF RunsHold
<1> QED
  BY <1>2, <1>5 DEF FetchInv

\* An execution that only goes on to its next place.
LEMMA PlaceFacts ==
  ASSUME NEW r \in RunType, NEW place \in Streaming
  PROVE  LET u == [r EXCEPT !.at = place]
         IN  /\ u \in RunType /\ u.at = place /\ u.size = r.size /\ u.digest = r.digest
             /\ u.durable = r.durable /\ u.etag = r.etag
<1>1. place \in AtWork
  BY DEF AtWork
<1> HIDE DEF AtWork, Streaming
<1> QED
  BY <1>1 DEF RunType

\* A job that ends as anything but a success, the disk as it was.
LEMMA RefusedFacts ==
  ASSUME FetchInv, form = "kept", NEW e \in Execs, NEW reason \in FetchReasons
  PROVE  LET r == [Run(e) EXCEPT !.at = "close", !.reason = reason]
         IN  /\ r \in RunType /\ r.at = "close" /\ r.reason = reason
             /\ reason # "succeeded" => Quiet(r)
             /\ names.file # 0 => RunOK(r)
<1>1. Run(e) \in RunType
  BY DEF FetchInv, FetchTypes, Run
<1>2. /\ [Run(e) EXCEPT !.at = "close", !.reason = reason] \in RunType
      /\ [Run(e) EXCEPT !.at = "close", !.reason = reason].at = "close"
      /\ [Run(e) EXCEPT !.at = "close", !.reason = reason].reason = reason
  BY <1>1 DEF RunType
<1> QED
  BY <1>2 DEF Quiet, RunOK, Streaming

\* A failure filed with the disk as it was.
LEMMA Refuses ==
  ASSUME FetchInv, form = "kept", form' = form, upstream' = upstream, UNCHANGED Disk,
         jobsDone' = jobsDone, NEW e \in Execs, NEW reason \in FetchReasons,
         reason # "succeeded" \/ names.file # 0, Refused(e, reason)
  PROVE  FetchInv'
<1> DEFINE r == [Run(e) EXCEPT !.at = "close", !.reason = reason]
<1>1. r \in RunType /\ RunOK(r) /\ To(e, r)
  BY RefusedFacts DEF Refused, Quiet, RunOK
<1> HIDE DEF r
<1> QED
  BY <1>1, Stays

\* An execution that is not going is at nothing.
LEMMA IdleRun == NewRun \in RunType /\ NewRun.at = "idle" /\ Quiet(NewRun)
<1>1. <<>> \in Seq(Nat)
  OBVIOUS
<1> QED
  BY <1>1, FetchShapes DEF NewRun, RunType, Quiet, Streaming, AtWork, FetchReasons

\* Starting a fetch, _open by name and the lock keep the invariant.
LEMMA StartsKeep ==
  ASSUME FetchInv, form = "kept", NEW e \in Execs, Starts(e)
  PROVE  FetchInv'
<1>1. /\ names' = names /\ blocks' = blocks /\ synced' = synced /\ fetchRec' = fetchRec
      /\ upstream' = upstream /\ form' = form
  BY DEF Starts, Disk, World
<1>2. CASE FileWhole
  <2>1. jobsDone' = Append(jobsDone, "succeeded") /\ fetchRun' = fetchRun
    BY <1>2 DEF Starts
  <2>2. jobsDone' \in Seq(FetchReasons)
    BY <2>1, AppendProperties DEF FetchInv, FetchTypes, FetchReasons
  <2>3. FileStands'
    BY <1>1, <1>2 DEF FetchInv, FileStands, FileWhole
  <2>4. FetchTypes' /\ RunsHold'
    BY <1>1, <2>1, <2>2 DEF FetchInv, FetchTypes, RunsHold, RunOK, Transfer, OneVersion
  <2>5. PartialVouches' /\ WholeVouches'
    BY <1>1 DEF FetchInv, PartialVouches, WholeVouches
  <2> QED
    BY <2>3, <2>4, <2>5 DEF FetchInv
<1>3. CASE ~FileWhole
  <2> DEFINE r == [NewRun EXCEPT !.at = "open"]
  <2>1. r \in RunType /\ r.at = "open"
    BY IdleRun DEF RunType
  <2>2. To(e, r) /\ jobsDone' = jobsDone
    BY <1>3 DEF Starts
  <2>3. RunOK(r)
    BY <2>1 DEF RunOK, Streaming
  <2> HIDE DEF r
  <2> QED
    BY <1>1, <2>1, <2>2, <2>3, Stays DEF Disk
<1> QED
  BY <1>2, <1>3

\* The partial opened by name is the one there or a new, empty one.
LEMMA OpensKeep ==
  ASSUME FetchInv, form = "kept", NEW e \in Execs, Opens(e)
  PROVE  FetchInv'
<1>1. /\ blocks' = blocks /\ synced' = synced /\ fetchRec' = fetchRec
      /\ upstream' = upstream /\ form' = form /\ jobsDone' = jobsDone
  BY DEF Opens, World
<1>2. Run(e) \in RunType /\ names \in [partial : Inodes \cup {0}, file : Inodes \cup {0}]
  BY DEF FetchInv, FetchTypes, Run
<1>3. CASE names.partial # 0
  <2> DEFINE r == [Run(e) EXCEPT !.at = "lock", !.ino = names.partial, !.had = TRUE]
  <2>1. r \in RunType /\ r.at = "lock"
    BY <1>2 DEF RunType
  <2>2. To(e, r) /\ names' = names
    BY <1>3 DEF Opens
  <2>3. RunOK(r)
    BY <2>1 DEF RunOK, Streaming
  <2> HIDE DEF r
  <2> QED
    BY <1>1, <2>1, <2>2, <2>3, Stays DEF Disk
<1>4. CASE names.partial = 0
  <2>1. PICK i \in Inodes :
          /\ blocks[i] = <<>> /\ names.file # i
          /\ To(e, [Run(e) EXCEPT !.at = "lock", !.ino = i, !.had = FALSE])
          /\ names' = [names EXCEPT !.partial = i]
    BY <1>4 DEF Opens
  <2> DEFINE r == [Run(e) EXCEPT !.at = "lock", !.ino = i, !.had = FALSE]
  <2>2. r \in RunType /\ r.at = "lock" /\ To(e, r)
    BY <1>2, <2>1 DEF RunType
  <2>3. \A x \in Execs : fetchRun[x].at \notin Streaming
    BY <1>4 DEF FetchInv, RunsHold, RunOK, Transfer
  <2> HIDE DEF r
  <2>4. /\ names'.partial = i /\ names'.file = names.file
        /\ names' \in [partial : Inodes \cup {0}, file : Inodes \cup {0}]
    BY <1>2, <2>1
  <2>5. fetchRun \in [Execs -> RunType] /\ fetchRun' \in [Execs -> RunType]
    BY <2>2 DEF FetchInv, FetchTypes, To
  <2>6. RunsHold'
    <3>1. ASSUME NEW x \in Execs PROVE RunOK(fetchRun[x])'
      <4>1. CASE x = e
        <5>1. fetchRun'[x].at = "lock"
          BY <2>2, <2>5, <4>1 DEF To
        <5> QED
          BY <5>1 DEF RunOK, Streaming
      <4>2. CASE x # e
        <5>1. fetchRun'[x] = fetchRun[x] /\ fetchRun[x].at \notin Streaming
          BY <2>2, <2>3, <2>5, <4>2 DEF To
        <5> QED
          BY <2>4, <5>1 DEF FetchInv, RunsHold, RunOK
      <4> QED
        BY <4>1, <4>2
    <3> QED
      BY <3>1 DEF RunsHold
  <2>7. FetchTypes'
    BY <1>1, <2>4, <2>5 DEF FetchInv, FetchTypes
  <2>8. Len(blocks[i]) = 0
    BY <2>1
  <2>9. PartialVouches' /\ WholeVouches'
    BY <1>1, <2>4, <2>8, FetchShapes DEF FetchInv, PartialVouches, WholeVouches
  <2>10. FileStands'
    BY <1>1, <2>1, <2>4, FetchShapes DEF FetchInv, FileStands
  <2> QED
    BY <2>6, <2>7, <2>9, <2>10 DEF FetchInv
<1> QED
  BY <1>3, <1>4

\* A lock, or the answer that it is held, changes nothing on the disk.
LEMMA LocksKeep ==
  ASSUME FetchInv, form = "kept", NEW e \in Execs, Locks(e)
  PROVE  FetchInv'
<1>1. UNCHANGED Disk /\ upstream' = upstream /\ form' = form /\ jobsDone' = jobsDone
  BY DEF Locks, World
<1>2. Run(e) \in RunType
  BY DEF FetchInv, FetchTypes, Run
<1>3. CASE flocks[Run(e).ino] = 0
  <2> DEFINE r == [Run(e) EXCEPT !.at = "resume"]
  <2>1. r \in RunType /\ r.at = "resume"
    BY <1>2 DEF RunType, AtWork
  <2>2. To(e, r)
    BY <1>3 DEF Locks, Goes
  <2>3. RunOK(r)
    BY <2>1 DEF RunOK, Streaming
  <2> HIDE DEF r
  <2> QED
    BY <1>1, <2>1, <2>2, <2>3, Stays
<1>4. CASE flocks[Run(e).ino] # 0
  <2>1. Refused(e, "busy") /\ "busy" \in FetchReasons
    BY <1>4 DEF Locks, FetchReasons
  <2> QED
    BY <1>1, <2>1, Refuses
<1> QED
  BY <1>3, <1>4

\* Taking the name off an empty partial disturbs nobody: its holder is leaving.
LEMMA ClosesKeep ==
  ASSUME FetchInv, form = "kept", OneHolder, NEW e \in Execs, Closes(e)
  PROVE  FetchInv'
<1>1. /\ blocks' = blocks /\ synced' = synced /\ fetchRec' = fetchRec
      /\ upstream' = upstream /\ form' = form
      /\ jobsDone' = Append(jobsDone, Run(e).reason) /\ To(e, NewRun) /\ Run(e).at = "close"
  BY DEF Closes, World
<1>2. /\ Run(e) \in RunType /\ fetchRun \in [Execs -> RunType]
      /\ names \in [partial : Inodes \cup {0}, file : Inodes \cup {0}]
  BY DEF FetchInv, FetchTypes, Run
<1>3. fetchRun' \in [Execs -> RunType]
  BY <1>1, <1>2, IdleRun DEF To
<1>4. \/ names' = names
      \/ names' = [names EXCEPT !.partial = 0] /\ Holding(e)
  BY <1>1 DEF Closes, Holding
<1>5. /\ names'.file = names.file /\ names'.partial \in {names.partial, 0}
      /\ names' \in [partial : Inodes \cup {0}, file : Inodes \cup {0}]
  BY <1>2, <1>4
<1>6. jobsDone' \in Seq(FetchReasons)
  <2>1. Run(e).reason \in FetchReasons
    BY <1>2 DEF RunType
  <2> QED
    BY <1>1, <2>1, AppendProperties DEF FetchInv, FetchTypes
<1>7. RunsHold'
  <2>1. ASSUME NEW x \in Execs, x # e PROVE RunOK(fetchRun[x])'
    <3>1. fetchRun'[x] = fetchRun[x] /\ RunOK(fetchRun[x])
      BY <1>1, <1>2, <2>1 DEF To, FetchInv, RunsHold
    <3>2. CASE names' = names
      BY <1>1, <3>1, <3>2 DEF RunOK, Transfer, OneVersion
    <3>3. CASE Holding(e)
      <4>1. fetchRun[x].at \notin Streaming
        BY <2>1, <3>3, Alone, Published DEF Quiet
      <4> QED
        BY <1>5, <3>1, <4>1 DEF RunOK
    <3> QED
      BY <1>4, <3>2, <3>3
  <2>2. ASSUME NEW x \in Execs, x = e PROVE RunOK(fetchRun[x])'
    <3>1. fetchRun'[x] = NewRun
      BY <1>1, <1>2, <2>2 DEF To
    <3> QED
      BY <3>1, IdleRun DEF RunOK, Quiet
  <2> QED
    BY <2>1, <2>2 DEF RunsHold
<1>8. FetchTypes'
  BY <1>1, <1>3, <1>5, <1>6 DEF FetchInv, FetchTypes
<1>9. PartialVouches' /\ WholeVouches'
  BY <1>1, <1>5 DEF FetchInv, PartialVouches, WholeVouches
<1>10. FileStands'
  <2>1. names'.file # 0 => names'.partial # names'.file
    BY <1>5 DEF FetchInv, FileStands
  <2>2. ASSUME NEW i \in DOMAIN jobsDone', jobsDone'[i] = "succeeded"
        PROVE  names.file # 0
    <3>1. CASE i \in DOMAIN jobsDone
      <4>1. jobsDone'[i] = jobsDone[i]
        BY <1>1, <3>1, AppendProperties, LenProperties DEF FetchInv, FetchTypes
      <4> QED
        BY <2>2, <3>1, <4>1 DEF FetchInv, FileStands
    <3>2. CASE i \notin DOMAIN jobsDone
      <4>1. jobsDone'[i] = Run(e).reason
        BY <1>1, <2>2, <3>2, AppendProperties, LenProperties DEF FetchInv, FetchTypes
      <4> QED
        BY <1>1, <2>2, <4>1 DEF FetchInv, RunsHold, RunOK, Run
    <3> QED
      BY <3>1, <3>2
  <2>3. names'.file # 0 => /\ fetchRec'.state = "whole" /\ blocks'[names'.file] = fetchRec'.digest
                          /\ synced'[names'.file] = Size
    BY <1>1, <1>5 DEF FetchInv, FileStands
  <2> QED
    BY <1>5, <2>1, <2>2, <2>3 DEF FileStands
<1> QED
  BY <1>7, <1>8, <1>9, <1>10 DEF FetchInv

\* Emptying the partial leaves a record of nothing, and a transfer of nothing.
LEMMA ResetKeeps ==
  ASSUME FetchInv, form = "kept", form' = form, upstream' = upstream, jobsDone' = jobsDone,
         NEW e \in Execs, \A x \in Execs \ {e} : Quiet(fetchRun[x]), names.file = 0,
         NEW r \in RunType, r.at = "ask", r.size = 0, r.digest = <<>>, r.durable = 0,
         r.ranged = FALSE, _reset_incomplete(e, r)
  PROVE  FetchInv'
<1>1. CASE names.partial = 0
  <2>1. Refused(e, "local") /\ UNCHANGED Disk /\ "local" \in FetchReasons
    BY <1>1 DEF _reset_incomplete, FetchReasons
  <2> QED
    BY <2>1, Refuses
<1>2. CASE names.partial # 0
  <2>1. /\ blocks' = [blocks EXCEPT ![names.partial] = <<>>]
        /\ synced' = [synced EXCEPT ![names.partial] = 0]
        /\ fetchRec' = NoRecord /\ To(e, r) /\ names' = names
    BY <1>2 DEF _reset_incomplete
  <2>2. /\ names \in [partial : Inodes \cup {0}, file : Inodes \cup {0}]
        /\ blocks \in [Inodes -> Seq(Nat)] /\ \A i \in Inodes : Len(blocks[i]) <= Size
        /\ synced \in [Inodes -> 0..Size] /\ names.partial \in Inodes
    BY <1>2 DEF FetchInv, FetchTypes
  <2>3. <<>> \in Seq(Nat) /\ Len(<<>>) = 0
    OBVIOUS
  <2>4. /\ blocks' \in [Inodes -> Seq(Nat)] /\ \A i \in Inodes : Len(blocks'[i]) <= Size
        /\ synced' \in [Inodes -> 0..Size] /\ blocks'[names.partial] = <<>>
    BY <2>1, <2>2, <2>3, FetchShapes
  <2>5. fetchRec'.state = "none"
    BY <2>1 DEF NoRecord
  <2>6. Pure(0, 1) = <<>>
    BY PureFacts
  <2>7. OneVersion(r, 1)'
    BY <2>6, FetchShapes DEF OneVersion
  <2>8. RunOK(r)'
    <3>1. 1 \in 1..Versions
      BY FetchShapes
    <3>2. Transfer(r)'
      BY <1>2, <2>1, <2>4, <2>5, <2>7, <3>1 DEF Transfer
    <3> QED
      BY <3>2 DEF RunOK
  <2>9. PartialVouches' /\ WholeVouches' /\ FileStands'
    BY <2>1, <2>5 DEF FetchInv, PartialVouches, WholeVouches, FileStands
  <2> QED
    BY <2>1, <2>2, <2>4, <2>8, <2>9, Moves
<1> QED
  BY <1>1, <1>2

\* A fetch from the first byte starts from an empty partial and no record.
LEMMA FreshKeeps ==
  ASSUME FetchInv, form = "kept", form' = form, upstream' = upstream, jobsDone' = jobsDone,
         OneHolder, NEW e \in Execs, Run(e).at = "resume", names.file = 0, Fresh(e)
  PROVE  FetchInv'
<1> DEFINE r == [NewRun EXCEPT !.at = "ask", !.ino = Run(e).ino, !.had = Run(e).had]
<1>1. Run(e) \in RunType
  BY DEF FetchInv, FetchTypes, Run
<1>2. r \in RunType
  <2>1. "ask" \in AtWork /\ Run(e).ino \in Inodes \cup {0} /\ Run(e).had \in BOOLEAN
    BY <1>1 DEF RunType, AtWork, Streaming
  <2> HIDE DEF NewRun
  <2> QED
    BY <2>1, IdleRun DEF RunType
<1>3. /\ r.at = "ask" /\ r.size = 0 /\ r.digest = <<>> /\ r.durable = 0 /\ r.ranged = FALSE
      /\ _reset_incomplete(e, r)
  BY DEF Fresh, NewRun
<1>4. \A x \in Execs \ {e} : Quiet(fetchRun[x])
  BY Alone DEF Holding, AtWork
<1> HIDE DEF r
<1> QED
  BY <1>2, <1>3, <1>4, ResetKeeps

\* A whole record is published as it is, or the fetch is refused.
LEMMA WholeKeeps ==
  ASSUME FetchInv, form = "kept", form' = form, upstream' = upstream, jobsDone' = jobsDone,
         OneHolder, NEW e \in Execs, Run(e).at = "resume", ResumesWhole(e)
  PROVE  FetchInv'
<1>1. /\ names \in [partial : Inodes \cup {0}, file : Inodes \cup {0}]
      /\ blocks \in [Inodes -> Seq(Nat)] /\ \A i \in Inodes : Len(blocks[i]) <= Size
      /\ synced \in [Inodes -> 0..Size] /\ Run(e) \in RunType
  BY DEF FetchInv, FetchTypes, Run
<1> DEFINE r == [Run(e) EXCEPT !.at = "close", !.reason = "succeeded"]
<1>2. r \in RunType /\ r.at = "close"
  BY RefusedFacts DEF FetchReasons
<1>3. CASE FileWhole
  <2>1. /\ names' = [names EXCEPT !.partial = 0] /\ To(e, r)
        /\ blocks' = blocks /\ synced' = synced /\ fetchRec' = fetchRec
    BY <1>3 DEF ResumesWhole, Refused
  <2>2. \A x \in Execs : fetchRun[x].at \notin Streaming
    BY <1>3, Published DEF FileWhole
  <2>3. /\ names'.file = names.file /\ names'.partial = 0 /\ names.file # 0
        /\ names' \in [partial : Inodes \cup {0}, file : Inodes \cup {0}]
    BY <1>1, <1>3, <2>1 DEF FileWhole
  <2>4. PartialVouches' /\ WholeVouches' /\ FileStands'
    BY <2>1, <2>3 DEF FetchInv, PartialVouches, WholeVouches, FileStands
  <2> HIDE DEF r
  <2>5. fetchRun \in [Execs -> RunType] /\ fetchRun' \in [Execs -> RunType]
    BY <1>2, <2>1 DEF FetchInv, FetchTypes, To
  <2>6. \A x \in Execs : fetchRun'[x].at \notin Streaming
    BY <1>2, <2>1, <2>2, <2>5 DEF To, Streaming
  <2>7. RunsHold'
    BY <2>3, <2>6 DEF RunsHold, RunOK
  <2>8. FetchTypes'
    BY <1>1, <2>1, <2>3, <2>5 DEF FetchInv, FetchTypes
  <2> QED
    BY <2>4, <2>7, <2>8 DEF FetchInv
<1>4. CASE /\ ~FileWhole /\ names.file = 0 /\ names.partial # 0
           /\ Len(blocks[names.partial]) = fetchRec.size /\ Refused(e, "succeeded")
           /\ names' = [partial |-> 0, file |-> names.partial]
           /\ UNCHANGED <<blocks, synced, fetchRec>>
  <2>1. /\ names'.partial = 0 /\ names'.file = names.partial /\ To(e, r)
        /\ names' \in [partial : Inodes \cup {0}, file : Inodes \cup {0}]
        /\ blocks' = blocks /\ synced' = synced /\ fetchRec' = fetchRec
    BY <1>1, <1>4 DEF Refused
  <2>2. \A x \in Execs \ {e} : Quiet(fetchRun[x])
    BY <1>4, Alone DEF Holding, AtWork
  <2>3. fetchRec.state = "whole"
    BY DEF ResumesWhole
  <2>4. PartialVouches' /\ WholeVouches'
    BY <2>1, <2>3, <1>4 DEF FetchInv, PartialVouches, WholeVouches
  <2>5. FileStands'
    BY <1>4, <2>1, <2>3 DEF FetchInv, WholeVouches, FileStands
  <2> HIDE DEF r
  <2>6. PICK u \in RunType : u = r
    BY <1>2
  <2>7. To(e, u) /\ RunOK(u)'
    BY <1>2, <1>4, <2>1, <2>6 DEF RunOK, Streaming
  <2> QED
    BY <1>1, <2>1, <2>2, <2>4, <2>5, <2>7, Moves
<1>5. CASE Refused(e, "local") /\ UNCHANGED Disk
  BY <1>5, Refuses DEF FetchReasons
<1> QED
  BY <1>3, <1>4, <1>5 DEF ResumesWhole

\* A usable record resumes from the blocks it vouches for, all of the entity tag's version.
LEMMA PartialKeeps ==
  ASSUME FetchInv, form = "kept", form' = form, upstream' = upstream, jobsDone' = jobsDone,
         OneHolder, NEW e \in Execs, Run(e).at = "resume", ResumesPartial(e)
  PROVE  FetchInv'
<1>1. /\ names \in [partial : Inodes \cup {0}, file : Inodes \cup {0}]
      /\ blocks \in [Inodes -> Seq(Nat)] /\ \A i \in Inodes : Len(blocks[i]) <= Size
      /\ synced \in [Inodes -> 0..Size] /\ Run(e) \in RunType
  BY DEF FetchInv, FetchTypes, Run
<1>2. CASE names.partial = 0 \/ Len(blocks[names.partial]) < fetchRec.durable
  <2>1. Refused(e, "local") /\ UNCHANGED Disk /\ "local" \in FetchReasons
    BY <1>2 DEF ResumesPartial, FetchReasons
  <2> QED
    BY <2>1, Refuses
<1>3. CASE ~(names.partial = 0 \/ Len(blocks[names.partial]) < fetchRec.durable)
  <2> DEFINE p == names.partial
             d == fetchRec.durable
             kept == SubSeq(blocks[p], 1, d)
             place == IF fetchRec.total = d THEN "flush" ELSE "ask"
             r == [Run(e) EXCEPT !.at = place,
                          !.size = d, !.durable = d,
                          !.total = fetchRec.total, !.etag = fetchRec.etag,
                          !.digest = kept, !.ranged = TRUE]
  <2>1. /\ blocks' = [blocks EXCEPT ![p] = kept] /\ synced' = [synced EXCEPT ![p] = d]
        /\ To(e, r) /\ names' = names /\ fetchRec' = fetchRec
    BY <1>3 DEF ResumesPartial
  <2>2. fetchRec.state = "partial" /\ fetchRec.etag # 0 /\ names.file = 0
    BY DEF ResumesPartial, Usable
  <2>3. /\ p \in Inodes /\ d \in 1..Size /\ fetchRec.total \in {0, Size} /\ fetchRec.etag \in 1..Versions
        /\ blocks[p] \in Seq(Nat) /\ d <= Len(blocks[p])
        /\ \A k \in 1..d : blocks[p][k] = fetchRec.etag
    <3>1. p \in Inodes /\ p # 0 /\ blocks[p] \in Seq(Nat)
      BY <1>1, <1>3
    <3>2. d \in 1..Size /\ fetchRec.total \in {0, Size} /\ fetchRec.etag \in 1..Versions
      BY <2>2, FetchShapes DEF FetchInv, PartialVouches
    <3>3. d <= Len(blocks[p])
      BY <1>3, <3>1, <3>2
    <3>4. \A k \in 1..d : blocks[p][k] = fetchRec.etag
      BY <2>2, <3>1, <3>2, <3>3 DEF FetchInv, PartialVouches
    <3> QED
      BY <3>1, <3>2, <3>3, <3>4
  <2>4. kept \in Seq(Nat) /\ Len(kept) = d /\ kept = Pure(d, fetchRec.etag)
        /\ \A k \in 1..d : kept[k] = fetchRec.etag
    <3>1. d \in 0..Len(blocks[p]) /\ fetchRec.etag \in Nat
      BY <2>3, FetchShapes
    <3> HIDE DEF p, d
    <3> QED
      BY <2>3, <3>1, PrefixFacts
  <2> HIDE DEF kept
  <2>5. /\ r \in RunType /\ r.size = d /\ r.durable = d /\ r.etag = fetchRec.etag
        /\ r.digest = kept /\ r.ranged = TRUE /\ r.at = place
    <3>1. place \in AtWork /\ d \in 0..Size /\ fetchRec.etag \in 0..Versions /\ TRUE \in BOOLEAN
      BY <2>3, FetchShapes DEF AtWork, Streaming
    <3> HIDE DEF place, d
    <3> QED
      BY <1>1, <2>3, <2>4, <3>1 DEF RunType
  <2>6. place \in {"flush", "ask"} /\ (place = "flush" => d = Size)
    BY <2>3, FetchShapes
  <2> HIDE DEF r, place
  <2>7. /\ blocks' \in [Inodes -> Seq(Nat)] /\ \A i \in Inodes : Len(blocks'[i]) <= Size
        /\ synced' \in [Inodes -> 0..Size] /\ blocks'[p] = kept
    BY <1>1, <2>1, <2>3, <2>4, FetchShapes
  <2>8. PICK u \in RunType : u = r
    BY <2>5
  <2>9. PICK v \in 1..Versions : v = fetchRec.etag
    BY <2>3
  <2>10. To(e, u) /\ RunOK(u)'
    <3>1. OneVersion(u, v)'
      BY <2>1, <2>2, <2>3, <2>4, <2>5, <2>6, <2>8, <2>9 DEF OneVersion
    <3>2. Transfer(u)'
      BY <1>3, <2>1, <2>2, <2>3, <2>5, <2>6, <2>7, <2>8, <3>1 DEF Transfer
    <3> QED
      BY <2>1, <2>8, <3>2, <2>5, <2>6 DEF RunOK
  <2>11. PartialVouches' /\ WholeVouches' /\ FileStands'
    BY <2>1, <2>2, <2>4, <2>7 DEF FetchInv, PartialVouches, WholeVouches, FileStands
  <2>12. \A x \in Execs \ {e} : Quiet(fetchRun[x])
    BY <2>2, Alone DEF Holding, AtWork
  <2> QED
    BY <1>1, <2>1, <2>7, <2>10, <2>11, <2>12, Moves
<1> QED
  BY <1>2, <1>3

\* However a fetch opens its destination, the invariant is kept.
LEMMA ResumeKeeps ==
  ASSUME FetchInv, form = "kept", OneHolder, NEW e \in Execs, _open_or_resume(e)
  PROVE  FetchInv'
<1>1. form' = form /\ upstream' = upstream /\ jobsDone' = jobsDone /\ Run(e).at = "resume"
  BY DEF _open_or_resume, World
<1>2. CASE ResumesWhole(e)
  BY <1>1, <1>2, WholeKeeps
<1>3. CASE Refused(e, "local") /\ UNCHANGED Disk
  BY <1>1, <1>3, Refuses DEF FetchReasons
<1>4. CASE ResumesPartial(e)
  BY <1>1, <1>4, PartialKeeps
<1>5. CASE names.file = 0 /\ Fresh(e)
  BY <1>1, <1>5, FreshKeeps
<1> QED
  BY <1>2, <1>3, <1>4, <1>5 DEF _open_or_resume

\* What an execution at its transfer may count on.
LEMMA Sole ==
  ASSUME FetchInv, form = "kept", OneHolder, NEW e \in Execs, Run(e).at \in Streaming
  PROVE  /\ Run(e) \in RunType /\ Transfer(Run(e)) /\ names.file = 0
         /\ \A x \in Execs \ {e} : Quiet(fetchRun[x])
         /\ names \in [partial : Inodes \cup {0}, file : Inodes \cup {0}]
         /\ names.partial \in Inodes /\ blocks[names.partial] = Run(e).digest
         /\ blocks \in [Inodes -> Seq(Nat)] /\ \A i \in Inodes : Len(blocks[i]) <= Size
         /\ synced \in [Inodes -> 0..Size]
<1>1. /\ Run(e) \in RunType /\ Transfer(Run(e)) /\ names.file = 0
      /\ names \in [partial : Inodes \cup {0}, file : Inodes \cup {0}]
      /\ names.partial \in Inodes /\ blocks[names.partial] = Run(e).digest
      /\ blocks \in [Inodes -> Seq(Nat)] /\ \A i \in Inodes : Len(blocks[i]) <= Size
      /\ synced \in [Inodes -> 0..Size]
  BY DEF FetchInv, FetchTypes, RunsHold, RunOK, Transfer, Run
<1>2. Holding(e)
  BY DEF Holding, AtWork
<1> QED
  BY <1>1, <1>2, Alone

\* A transfer that moves on without touching the disk.
LEMMA Proceeds ==
  ASSUME FetchInv, form = "kept", form' = form, upstream' = upstream, jobsDone' = jobsDone,
         UNCHANGED Disk, NEW e \in Execs, NEW r \in RunType, To(e, r),
         r.at \in Streaming \ {"rename"}, names.file = 0, names.partial # 0,
         blocks[names.partial] = r.digest, NEW v \in 1..Versions, OneVersion(r, v),
         fetchRec.state # "whole", fetchRec.state = "partial" => fetchRec.durable <= r.size
  PROVE  FetchInv'
<1>1. RunOK(r)
  <2>1. Transfer(r)
    BY DEF Transfer
  <2> QED
    BY <2>1 DEF RunOK, Streaming
<1> QED
  BY <1>1, Stays

\* A body that is streamed is of the version of the blocks there already.
LEMMA AnswersKeep ==
  ASSUME FetchInv, form = "kept", OneHolder, NEW e \in Execs, Answers(e)
  PROVE  FetchInv'
<1>1. form' = form /\ upstream' = upstream /\ jobsDone' = jobsDone /\ Run(e).at = "ask"
  BY DEF Answers, World
<1>2. Run(e).at \in Streaming
  BY <1>1 DEF Streaming
<1>3. CASE _changed(e)
  <2> DEFINE r == [Run(e) EXCEPT !.at = "close", !.reason = "changed"]
  <2>1. r \in RunType /\ Quiet(r)
    BY RefusedFacts DEF FetchReasons
  <2>2. PICK u \in RunType : u = r
    BY <2>1
  <2>3. /\ To(e, u) /\ names'.partial = 0 /\ names'.file = 0 /\ fetchRec' = NoRecord
        /\ names' \in [partial : Inodes \cup {0}, file : Inodes \cup {0}]
        /\ blocks' = blocks /\ synced' = synced
    BY <1>2, <1>3, <2>2, Sole DEF _changed, Refused
  <2>4. RunOK(u)'
    BY <2>1, <2>2 DEF RunOK, Quiet
  <2>5. PartialVouches' /\ WholeVouches' /\ FileStands'
    BY <1>1, <1>2, <2>3, Sole DEF NoRecord, FetchInv, PartialVouches, WholeVouches, FileStands
  <2>6. /\ blocks' \in [Inodes -> Seq(Nat)] /\ \A i \in Inodes : Len(blocks'[i]) <= Size
        /\ synced' \in [Inodes -> 0..Size] /\ \A x \in Execs \ {e} : Quiet(fetchRun[x])
    BY <1>2, <2>3, Sole
  <2> QED
    BY <1>1, <2>3, <2>4, <2>5, <2>6, Moves
<1>4. CASE Refused(e, "local") /\ UNCHANGED Disk
  BY <1>1, <1>4, Refuses DEF FetchReasons
<1>5. ASSUME UNCHANGED Disk, ~(Run(e).ranged /\ (~Matches(e) \/ Run(e).size = Size)),
             NEW t, t = (IF Run(e).ranged THEN Run(e).total ELSE IF upstream.length THEN Size ELSE 0),
             NEW g, g = (IF Run(e).ranged THEN Run(e).etag ELSE IF upstream.etag THEN upstream.v ELSE 0),
             To(e, [Run(e) EXCEPT !.at = "body", !.out = names.partial, !.serving = upstream.v,
                      !.before = Run(e).size, !.total = t, !.etag = g])
      PROVE  FetchInv'
  <2>1. /\ Run(e).ranged \in BOOLEAN /\ Run(e).total \in {0, Size} /\ Run(e).etag \in 0..Versions
        /\ Run(e).size \in 0..Size
    BY <1>2, Sole DEF RunType
  <2>2. t \in {Run(e).total, Size, 0}
    BY <1>5, Zenon
  <2>3. \/ Run(e).ranged = TRUE /\ g = Run(e).etag /\ Run(e).etag = upstream.v
        \/ Run(e).ranged = FALSE /\ g \in {upstream.v, 0}
    BY <1>5, <2>1, Zenon DEF Matches
  <2>4. upstream.v \in 1..Versions
    BY DEF FetchInv, FetchTypes
  <2> DEFINE r == [Run(e) EXCEPT !.at = "body", !.out = names.partial, !.serving = upstream.v,
                      !.before = Run(e).size, !.total = t, !.etag = g]
  <2>5. /\ Run(e) \in RunType /\ names.partial \in Inodes /\ g \in 0..Versions /\ t \in {0, Size}
        /\ upstream.v \in 0..Versions
    BY <1>2, <2>1, <2>2, <2>3, <2>4, FetchShapes, Sole
  <2>6. /\ r \in RunType /\ r.at = "body" /\ r.out = names.partial /\ r.serving = upstream.v
        /\ r.etag = g /\ r.size = Run(e).size /\ r.digest = Run(e).digest
        /\ r.durable = Run(e).durable
    BY <2>1, <2>5 DEF RunType, AtWork, Streaming
  <2>7. To(e, r)
    BY <1>5
  <2> HIDE DEF r
  <2>8. PICK v \in 1..Versions : OneVersion(Run(e), v)
    BY <1>2, Sole DEF Transfer
  <2>9. OneVersion(r, upstream.v)
    <3>1. CASE Run(e).ranged = TRUE
      <4>1. v = upstream.v
        BY <1>1, <2>1, <2>3, <2>4, <2>8, <3>1 DEF OneVersion
      <4> QED
        BY <2>3, <2>6, <2>8, <3>1, <4>1 DEF OneVersion
    <3>2. CASE Run(e).ranged = FALSE
      <4>1. Run(e).size = 0
        BY <1>1, <2>1, <2>8, <3>2 DEF OneVersion
      <4>2. Pure(0, v) = Pure(0, upstream.v)
        <5>1. 0 \in Nat /\ v \in Nat /\ upstream.v \in Nat
          BY <2>4, <2>8, FetchShapes
        <5> QED
          BY <5>1, PureFacts
      <4> QED
        BY <2>3, <2>6, <2>8, <3>2, <4>1, <4>2 DEF OneVersion
    <3> QED
      BY <2>1, <3>1, <3>2
  <2>10. /\ names.file = 0 /\ names.partial # 0 /\ blocks[names.partial] = r.digest
         /\ fetchRec.state # "whole"
         /\ fetchRec.state = "partial" => fetchRec.durable <= r.size
    BY <1>1, <1>2, <2>6, Sole DEF Transfer
  <2>11. r.at \in Streaming \ {"rename"}
    BY <2>6 DEF Streaming
  <2> QED
    BY <1>1, <1>5, <2>4, <2>6, <2>7, <2>9, <2>10, <2>11, Proceeds
<1>6. CASE Run(e).ranged /\ (~Matches(e) \/ Run(e).size = Size)
  <2>1. _changed(e)
    BY <1>6, Zenon DEF Answers
  <2> QED
    BY <2>1, <1>3
<1>7. CASE ~(Run(e).ranged /\ (~Matches(e) \/ Run(e).size = Size)) /\ names.partial = 0
  <2>1. Refused(e, "local") /\ UNCHANGED Disk
    BY <1>7, Zenon DEF Answers
  <2> QED
    BY <2>1, <1>4
<1>8. CASE ~(Run(e).ranged /\ (~Matches(e) \/ Run(e).size = Size)) /\ names.partial # 0
  <2>1. /\ UNCHANGED Disk
        /\ To(e, [Run(e) EXCEPT !.at = "body", !.out = names.partial, !.serving = upstream.v,
                      !.before = Run(e).size,
                      !.total = IF Run(e).ranged THEN @ ELSE IF upstream.length THEN Size ELSE 0,
                      !.etag = IF Run(e).ranged THEN @ ELSE IF upstream.etag THEN upstream.v ELSE 0])
    BY <1>8, Zenon DEF Answers
  <2>2. PICK t : t = (IF Run(e).ranged THEN Run(e).total ELSE IF upstream.length THEN Size ELSE 0)
    BY Zenon
  <2>3. PICK g : g = (IF Run(e).ranged THEN Run(e).etag ELSE IF upstream.etag THEN upstream.v ELSE 0)
    BY Zenon
  <2>4. To(e, [Run(e) EXCEPT !.at = "body", !.out = names.partial, !.serving = upstream.v,
                      !.before = Run(e).size, !.total = t, !.etag = g])
    BY <2>1, <2>2, <2>3, Zenon
  <2> QED
    BY <1>5, <1>8, <2>1, <2>2, <2>3, <2>4, Zenon
<1> QED
  BY <1>6, <1>7, <1>8, Zenon

\* A chunk, and the checkpoint it may bring, keep file, digest and record in step.
LEMMA StreamsKeep ==
  ASSUME FetchInv, form = "kept", OneHolder, NEW e \in Execs, Streams(e)
  PROVE  FetchInv'
<1> DEFINE p == names.partial
           grown == [Run(e) EXCEPT !.size = @ + 1, !.digest = Append(@, Run(e).serving)]
<1>1. /\ form' = form /\ upstream' = upstream /\ jobsDone' = jobsDone /\ names' = names
      /\ Run(e).at = "body" /\ Run(e).size < Size
  BY DEF Streams, World
<1>2. Run(e).at \in Streaming
  BY <1>1 DEF Streaming
<1>3. PICK v \in 1..Versions : OneVersion(Run(e), v)
  BY <1>2, Sole DEF Transfer
<1>0. PICK n \in 1..Size : n = Run(e).size + 1
  <2>1. Run(e).size \in 0..Size
    BY <1>2, Sole DEF RunType
  <2> QED
    BY <1>1, <2>1, FetchShapes
<1>4. /\ Run(e).size \in Nat /\ n \in 1..Size /\ v \in Nat /\ v \in 0..Versions
      /\ Run(e).out = p /\ Run(e).serving = v /\ Run(e).digest = Pure(Run(e).size, v)
      /\ blocks[p] = Run(e).digest /\ p \in Inodes /\ p # 0
  BY <1>1, <1>2, <1>3, <1>0, Sole, FetchShapes DEF OneVersion, RunType
<1>5. /\ Append(Run(e).digest, v) = Pure(n, v) /\ Written(blocks[p], n, v) = Pure(n, v)
      /\ Pure(n, v) \in Seq(Nat) /\ Len(Pure(n, v)) = n /\ \A k \in 1..n : Pure(n, v)[k] = v
  <2>1. n \in Nat /\ Run(e).size + 1 = n
    BY <1>0, <1>4, FetchShapes
  <2>2. /\ Append(Pure(Run(e).size, v), v) = Pure(Run(e).size + 1, v)
        /\ Written(Pure(Run(e).size, v), Run(e).size + 1, v) = Pure(Run(e).size + 1, v)
        /\ Pure(n, v) \in Seq(Nat) /\ Len(Pure(n, v)) = n /\ \A k \in 1..n : Pure(n, v)[k] = v
    <3>1. Run(e).size \in Nat /\ v \in Nat /\ n \in Nat
      BY <1>4, <2>1
    <3> QED
      BY ONLY <3>1, PureFacts
  <2> QED
    BY <1>4, <2>1, <2>2
<1>6. /\ grown \in RunType /\ grown.at = "body" /\ grown.size = n /\ grown.digest = Pure(n, v)
      /\ grown.durable = Run(e).durable /\ grown.etag = Run(e).etag /\ grown.out = p
      /\ grown.serving = v /\ grown.total = Run(e).total
  <2>1. n = Run(e).size + 1 /\ n \in 0..Size /\ Run(e) \in RunType
    BY <1>2, <1>0, <1>4, Sole
  <2> QED
    BY <1>1, <1>4, <1>5, <2>1 DEF RunType
<1>7. PICK g \in RunType : g = grown
  BY <1>6
<1> HIDE DEF grown
<1>8. /\ blocks' = [blocks EXCEPT ![p] = Pure(n, v)]
      /\ \/ /\ synced' = synced /\ fetchRec' = fetchRec /\ To(e, g)
         \/ /\ synced' = [synced EXCEPT ![p] = Len(blocks'[p])]
            /\ fetchRec' = PartialRecord([g EXCEPT !.durable = g.size])
            /\ To(e, [g EXCEPT !.durable = g.size])
  <2>1. Written(blocks[g.out], g.size, g.serving) = Pure(n, v) /\ g.out = p
    BY <1>5, <1>6, <1>7
  <2>2. blocks' = [blocks EXCEPT ![g.out] = Written(@, g.size, g.serving)]
    BY <1>7 DEF Streams, grown
  <2>3. \/ /\ synced' = synced /\ fetchRec' = fetchRec /\ To(e, g)
        \/ /\ synced' = [synced EXCEPT ![g.out] = Len(blocks'[g.out])]
           /\ fetchRec' = PartialRecord([g EXCEPT !.durable = g.size])
           /\ To(e, [g EXCEPT !.durable = g.size])
    BY <1>7 DEF Streams, grown
  <2> QED
    BY <2>1, <2>2, <2>3
<1>9. /\ blocks' \in [Inodes -> Seq(Nat)] /\ \A i \in Inodes : Len(blocks'[i]) <= Size
      /\ blocks'[p] = Pure(n, v)
  BY <1>2, <1>4, <1>5, <1>8, Sole
<1>10. /\ fetchRec.state # "whole"
       /\ fetchRec.state = "partial" => fetchRec.durable <= Run(e).size /\ fetchRec.durable \in Nat
       /\ Run(e).durable <= Run(e).size /\ Run(e).durable \in Nat /\ names.file = 0
       /\ (Run(e).size > 0 /\ Run(e).etag # 0 => v = Run(e).etag) /\ Run(e).etag \in {0, v}
  <2>1. /\ fetchRec.state # "whole"
        /\ fetchRec.state = "partial" => fetchRec.durable <= Run(e).size
        /\ names.file = 0
    BY <1>1, <1>2, Sole DEF Transfer
  <2>2. fetchRec.state = "partial" => fetchRec.durable \in Nat
    BY FetchShapes DEF FetchInv, PartialVouches
  <2>3. Run(e).durable \in Nat
    BY <1>2, Sole, FetchShapes DEF RunType
  <2> QED
    BY <1>1, <1>3, <1>4, <2>1, <2>2, <2>3 DEF OneVersion
<1>11. \A x \in Execs \ {e} : Quiet(fetchRun[x])
  BY <1>2, Sole
<1>12. CASE synced' = synced /\ fetchRec' = fetchRec /\ To(e, g)
  <2>1. OneVersion(g, v)'
    BY <1>1, <1>0, <1>4, <1>6, <1>7, <1>10, <1>12 DEF OneVersion
  <2>2. RunOK(g)'
    <3>1. Transfer(g)'
      BY <1>1, <1>0, <1>4, <1>6, <1>7, <1>9, <1>10, <1>12, <2>1 DEF Transfer
    <3> QED
      BY <1>6, <1>7, <3>1 DEF RunOK
  <2>3. PartialVouches'
    <3>1. ASSUME fetchRec.state = "partial", fetchRec.etag # 0, NEW k \in 1..fetchRec.durable
          PROVE  blocks'[p][k] = fetchRec.etag
      <4>1. /\ fetchRec.durable \in 1..Size /\ fetchRec.durable <= Run(e).size
            /\ Len(blocks[p]) = Run(e).size /\ \A j \in 1..Run(e).size : blocks[p][j] = v
        <5>1. fetchRec.durable \in 1..Size /\ fetchRec.durable <= Run(e).size
          BY <1>10, <3>1 DEF FetchInv, PartialVouches
        <5>2. /\ Len(Pure(Run(e).size, v)) = Run(e).size
              /\ \A j \in 1..Run(e).size : Pure(Run(e).size, v)[j] = v
          BY <1>4, PureFacts
        <5> QED
          BY <1>4, <5>1, <5>2
      <4>2. blocks[p][k] = fetchRec.etag
        BY <1>4, <3>1, <4>1 DEF FetchInv, PartialVouches
      <4>3. k \in 1..Run(e).size /\ k \in 1..n
        BY <1>0, <1>4, <1>10, <3>1, <4>1
      <4> QED
        BY <1>5, <1>9, <4>1, <4>2, <4>3
    <3> QED
      BY <1>1, <1>12, <3>1 DEF FetchInv, PartialVouches
  <2>4. WholeVouches' /\ FileStands'
    BY <1>1, <1>10, <1>12 DEF FetchInv, WholeVouches, FileStands
  <2> QED
    BY <1>1, <1>2, <1>9, <1>11, <1>12, <2>2, <2>3, <2>4, Sole, Moves
<1>13. CASE /\ synced' = [synced EXCEPT ![p] = Len(blocks'[p])]
            /\ fetchRec' = PartialRecord([g EXCEPT !.durable = g.size])
            /\ To(e, [g EXCEPT !.durable = g.size])
  <2>1. /\ [g EXCEPT !.durable = g.size] \in RunType
        /\ [g EXCEPT !.durable = g.size].durable = n
        /\ \A f \in {"at", "size", "digest", "etag", "out", "serving", "total"} :
             [g EXCEPT !.durable = g.size][f] = g[f]
    BY <1>6, <1>7 DEF RunType
  <2>2. PICK u \in RunType : u = [g EXCEPT !.durable = g.size]
    BY <2>1
  <2>3. /\ u.at = "body" /\ u.size = n /\ u.durable = n /\ u.digest = Pure(n, v) /\ u.out = p
        /\ u.etag = Run(e).etag /\ u.serving = v /\ u.total = Run(e).total
    BY <1>6, <1>7, <2>1, <2>2
  <2>4. /\ fetchRec'.state = "partial" /\ fetchRec'.durable = n /\ fetchRec'.etag = Run(e).etag
        /\ fetchRec'.total = Run(e).total
    BY <1>13, <2>2, <2>3 DEF PartialRecord
  <2>5. OneVersion(u, v)'
    BY <1>1, <1>10, <2>3 DEF OneVersion
  <2>6. RunOK(u)'
    <3>1. Transfer(u)'
      BY <1>1, <1>4, <1>9, <1>10, <2>3, <2>4, <2>5 DEF Transfer
    <3> QED
      BY <2>3, <3>1 DEF RunOK
  <2>7. synced' \in [Inodes -> 0..Size]
    <3>1. Len(blocks'[p]) \in 0..Size
      BY <1>4, <1>5, <1>9
    <3> QED
      BY <1>2, <1>13, <3>1, Sole
  <2>8. PartialVouches'
    <3>1. Run(e).etag \in 0..Versions /\ Run(e).total \in {0, Size}
      BY <1>2, Sole DEF RunType
    <3> QED
      BY <1>1, <1>4, <1>5, <1>9, <1>10, <2>4, <3>1 DEF PartialVouches
  <2>9. WholeVouches' /\ FileStands'
    BY <1>1, <1>10, <2>4 DEF FetchInv, WholeVouches, FileStands
  <2> QED
    BY <1>1, <1>2, <1>9, <1>11, <1>13, <2>2, <2>6, <2>7, <2>8, <2>9, Sole, Moves
<1> QED
  BY <1>8, <1>12, <1>13

\* A body ends with every block there.
LEMMA BodyEndsKeep ==
  ASSUME FetchInv, form = "kept", OneHolder, NEW e \in Execs, BodyEnds(e)
  PROVE  FetchInv'
<1>1. /\ form' = form /\ upstream' = upstream /\ jobsDone' = jobsDone /\ UNCHANGED Disk
      /\ Run(e).at = "body" /\ Run(e).size = Size /\ To(e, [Run(e) EXCEPT !.at = "flush"])
  BY DEF BodyEnds, World, Goes
<1>2. Run(e).at \in Streaming
  BY <1>1 DEF Streaming
<1> DEFINE r == [Run(e) EXCEPT !.at = "flush"]
<1>3. /\ r \in RunType /\ r.at = "flush" /\ r.size = Run(e).size /\ r.digest = Run(e).digest
      /\ r.durable = Run(e).durable /\ r.etag = Run(e).etag
  BY <1>2, Sole, PlaceFacts DEF Streaming
<1>4. PICK v \in 1..Versions : OneVersion(Run(e), v)
  BY <1>2, Sole DEF Transfer
<1>5. /\ names.file = 0 /\ names.partial # 0 /\ blocks[names.partial] = Run(e).digest
      /\ fetchRec.state # "whole"
      /\ fetchRec.state = "partial" => fetchRec.durable <= Run(e).size
  BY <1>1, <1>2, Sole DEF Transfer
<1> HIDE DEF r
<1>6. OneVersion(r, v)
  BY <1>1, <1>3, <1>4 DEF OneVersion
<1>7. r.at \in Streaming \ {"rename"} /\ To(e, r)
  BY <1>1, <1>3 DEF Streaming, r
<1> QED
  BY <1>1, <1>3, <1>5, <1>6, <1>7, Proceeds

\* A failed answer or body leaves what had come.
LEMMA FailsKeep ==
  ASSUME FetchInv, form = "kept", OneHolder, NEW e \in Execs, StreamFails(e)
  PROVE  FetchInv'
<1>1. /\ form' = form /\ upstream' = upstream /\ jobsDone' = jobsDone /\ UNCHANGED Disk
      /\ Run(e).at \in {"ask", "body"} /\ To(e, [Run(e) EXCEPT !.at = "retry"])
  BY DEF StreamFails, World, Goes
<1>2. Run(e).at \in Streaming /\ Run(e).at # "rename"
  BY <1>1 DEF Streaming
<1> DEFINE r == [Run(e) EXCEPT !.at = "retry"]
<1>3. /\ r \in RunType /\ r.at = "retry" /\ r.size = Run(e).size /\ r.digest = Run(e).digest
      /\ r.durable = Run(e).durable /\ r.etag = Run(e).etag
  BY <1>2, Sole, PlaceFacts DEF Streaming
<1>4. PICK v \in 1..Versions : OneVersion(Run(e), v)
  BY <1>2, Sole DEF Transfer
<1>5. /\ names.file = 0 /\ names.partial # 0 /\ blocks[names.partial] = Run(e).digest
      /\ fetchRec.state # "whole"
      /\ fetchRec.state = "partial" => fetchRec.durable <= Run(e).size
  BY <1>2, Sole DEF Transfer
<1> HIDE DEF r
<1>6. OneVersion(r, v)
  BY <1>3, <1>4 DEF OneVersion
<1>7. r.at \in Streaming \ {"rename"} /\ To(e, r)
  BY <1>1, <1>3 DEF Streaming, r
<1> QED
  BY <1>1, <1>3, <1>5, <1>6, <1>7, Proceeds

\* What _retry does, by its outcomes: give up, start over, save what has come, ask again.
LEMMA RetryCases ==
  ASSUME FetchInv, form = "kept", OneHolder, NEW e \in Execs, _retry(e)
  PROVE  \/ Refused(e, "transport") /\ UNCHANGED Disk
         \/ \E r \in RunType :
              /\ r.at = "ask" /\ r.size = 0 /\ r.digest = <<>> /\ r.durable = 0 /\ r.ranged = FALSE
              /\ _reset_incomplete(e, r)
         \/ \E r \in RunType :
              /\ r.at = "ask" /\ r.size = Run(e).size /\ r.digest = Run(e).digest
              /\ r.etag = Run(e).etag /\ r.ranged = TRUE /\ r.durable = r.size /\ r.size > 0
              /\ r.etag # 0 /\ fetchRec' = PartialRecord(r) /\ To(e, r)
              /\ synced' = [synced EXCEPT ![names.partial] = Len(blocks[names.partial])]
              /\ UNCHANGED <<names, blocks>>
         \/ \E r \in RunType :
              /\ r.at = "ask" /\ r.size = Run(e).size /\ r.digest = Run(e).digest
              /\ r.etag = Run(e).etag /\ r.durable = Run(e).durable
              /\ (r.ranged = TRUE <=> r.size > 0) /\ (r.size > 0 => r.etag # 0)
              /\ To(e, r) /\ UNCHANGED Disk
<1>1. Run(e).at \in Streaming
  BY DEF _retry, Streaming
<1>2. Run(e) \in RunType /\ names.partial # 0
  BY <1>1, Sole DEF Transfer
<1> DEFINE saved == Run(e).size > Run(e).before /\ Run(e).etag # 0
<1>3. PICK f \in Nat : f = IF saved THEN 0 ELSE Run(e).failures + 1
  BY <1>2 DEF RunType
<1>4. PICK r \in RunType : r = [Run(e) EXCEPT !.at = "ask", !.failures = f, !.out = 0, !.serving = 0,
                                  !.before = 0]
  <2>1. 0 \in 0..Versions /\ 0 \in 0..Size
    BY FetchShapes
  <2>2. [Run(e) EXCEPT !.at = "ask", !.failures = f, !.out = 0, !.serving = 0,
                       !.before = 0] \in RunType
    BY <1>2, <1>3, <2>1 DEF RunType, AtWork, Streaming
  <2> QED
    BY <2>2
<1>5. /\ r.at = "ask" /\ r.size = Run(e).size /\ r.digest = Run(e).digest
      /\ r.etag = Run(e).etag /\ r.durable = Run(e).durable
      /\ r.size \in 0..Size /\ r.durable \in 0..Size
  BY <1>2, <1>4 DEF RunType
<1>6. IF f >= MaxFailures THEN Refused(e, "transport") /\ UNCHANGED Disk
      ELSE IF r.size > 0 /\ r.etag = 0
      THEN _reset_incomplete(e, [r EXCEPT !.digest = <<>>, !.size = 0, !.durable = 0,
                                     !.total = 0, !.ranged = FALSE])
      ELSE IF r.size > r.durable
      THEN IF names.partial = 0 THEN Refused(e, "local") /\ UNCHANGED Disk
           ELSE /\ synced' = [synced EXCEPT ![names.partial] = Len(blocks[names.partial])]
                /\ fetchRec' = PartialRecord([r EXCEPT !.durable = r.size, !.ranged = TRUE])
                /\ To(e, [r EXCEPT !.durable = r.size, !.ranged = TRUE])
                /\ UNCHANGED <<names, blocks>>
      ELSE To(e, [r EXCEPT !.ranged = r.size > 0]) /\ UNCHANGED Disk
  BY <1>3, <1>4, Zenon DEF _retry
<1>7. CASE f >= MaxFailures
  BY <1>6, <1>7
<1>8. CASE ~(f >= MaxFailures) /\ r.size > 0 /\ r.etag = 0
  <2> DEFINE u == [r EXCEPT !.digest = <<>>, !.size = 0, !.durable = 0,
                            !.total = 0, !.ranged = FALSE]
  <2>1. _reset_incomplete(e, u)
    BY <1>6, <1>8
  <2>2. <<>> \in Seq(Nat) /\ 0 \in 0..Size /\ 0 \in {0, Size} /\ FALSE \in BOOLEAN
    BY FetchShapes
  <2>3. /\ u \in RunType /\ u.at = "ask" /\ u.size = 0 /\ u.digest = <<>> /\ u.durable = 0
        /\ u.ranged = FALSE
    BY <1>5, <2>2 DEF RunType
  <2> HIDE DEF u
  <2> QED
    BY <2>1, <2>3
<1>9. CASE ~(f >= MaxFailures) /\ ~(r.size > 0 /\ r.etag = 0) /\ r.size > r.durable
  <2> DEFINE u == [r EXCEPT !.durable = r.size, !.ranged = TRUE]
  <2>1. /\ synced' = [synced EXCEPT ![names.partial] = Len(blocks[names.partial])]
        /\ fetchRec' = PartialRecord(u) /\ To(e, u) /\ UNCHANGED <<names, blocks>>
    BY <1>2, <1>6, <1>9
  <2>2. /\ u \in RunType /\ u.at = "ask" /\ u.size = r.size /\ u.digest = r.digest
        /\ u.durable = r.size /\ u.ranged = TRUE /\ u.etag = r.etag
    BY <1>5 DEF RunType
  <2>3. r.size > 0 /\ r.etag # 0
    BY <1>5, <1>9, FetchShapes
  <2> HIDE DEF u
  <2> QED
    BY <1>5, <2>1, <2>2, <2>3
<1>10. CASE ~(f >= MaxFailures) /\ ~(r.size > 0 /\ r.etag = 0) /\ ~(r.size > r.durable)
  <2>1. PICK b \in BOOLEAN : b = (r.size > 0)
    <3>1. CASE r.size > 0
      <4>1. TRUE = (r.size > 0)
        BY <3>1, Zenon
      <4> QED
        BY <4>1, Zenon
    <3>2. CASE ~(r.size > 0)
      <4>1. FALSE = (r.size > 0)
        BY <1>5, <3>2, SMT
      <4> QED
        BY <4>1, Zenon
    <3> QED
      BY <3>1, <3>2, Zenon
  <2> DEFINE u == [r EXCEPT !.ranged = b]
  <2>2. To(e, [r EXCEPT !.ranged = r.size > 0]) /\ UNCHANGED Disk
    BY <1>6, <1>10
  <2>3. To(e, u) /\ UNCHANGED Disk
    BY <2>1, <2>2, Zenon
  <2>4. /\ u \in RunType /\ u.at = "ask" /\ u.size = r.size /\ u.digest = r.digest
        /\ u.durable = r.durable /\ u.ranged = b /\ u.etag = r.etag
    BY <1>5 DEF RunType
  <2>5. b = TRUE <=> r.size > 0
    BY <2>1
  <2> HIDE DEF u
  <2> QED
    BY <1>5, <1>10, <2>3, <2>4, <2>5
<1> QED
  BY <1>7, <1>8, <1>9, <1>10

\* Each outcome of _retry keeps the invariant.
LEMMA RetryKeeps ==
  ASSUME FetchInv, form = "kept", OneHolder, NEW e \in Execs, _retry(e)
  PROVE  FetchInv'
<1>1. /\ form' = form /\ upstream' = upstream /\ jobsDone' = jobsDone /\ Run(e).at = "retry"
  BY DEF _retry, World
<1>2. Run(e).at \in Streaming
  BY <1>1 DEF Streaming
<1>3. PICK v \in 1..Versions : OneVersion(Run(e), v)
  BY <1>2, Sole DEF Transfer
<1>4. /\ names.file = 0 /\ names.partial # 0 /\ blocks[names.partial] = Run(e).digest
      /\ fetchRec.state # "whole"
      /\ fetchRec.state = "partial" => fetchRec.durable <= Run(e).size
  BY <1>1, <1>2, Sole DEF Transfer
<1>5. CASE Refused(e, "transport") /\ UNCHANGED Disk
  BY <1>1, <1>5, Refuses DEF FetchReasons
<1>6. ASSUME NEW r \in RunType, r.at = "ask", r.size = 0, r.digest = <<>>, r.durable = 0,
             r.ranged = FALSE, _reset_incomplete(e, r)
      PROVE  FetchInv'
  BY <1>1, <1>2, <1>6, Sole, ResetKeeps
<1>7. ASSUME NEW r \in RunType, r.at = "ask", r.size = Run(e).size, r.digest = Run(e).digest,
             r.etag = Run(e).etag, r.durable = Run(e).durable,
             (r.ranged = TRUE <=> r.size > 0), (r.size > 0 => r.etag # 0),
             To(e, r), UNCHANGED Disk
      PROVE  FetchInv'
  <2>1. OneVersion(r, v)
    BY <1>3, <1>7 DEF OneVersion
  <2>2. r.at \in Streaming \ {"rename"}
    BY <1>7 DEF Streaming
  <2> QED
    BY <1>1, <1>4, <1>7, <2>1, <2>2, Proceeds
<1>8. ASSUME NEW r \in RunType, r.at = "ask", r.size = Run(e).size, r.digest = Run(e).digest,
             r.etag = Run(e).etag, r.ranged = TRUE, r.durable = r.size, r.size > 0,
             r.etag # 0, fetchRec' = PartialRecord(r), To(e, r),
             synced' = [synced EXCEPT ![names.partial] = Len(blocks[names.partial])],
             UNCHANGED <<names, blocks>>
      PROVE  FetchInv'
  <2> DEFINE p == names.partial
  <2>1. /\ r.size \in 1..Size /\ r.total \in {0, Size} /\ r.etag \in 0..Versions /\ v \in Nat
        /\ r.digest = Pure(r.size, v) /\ r.etag = v /\ p \in Inodes
    BY <1>2, <1>3, <1>8, FetchShapes, Sole DEF OneVersion, RunType
  <2>2. Len(r.digest) = r.size /\ \A k \in 1..r.size : r.digest[k] = v
    <3>1. r.size \in Nat
      BY <2>1, FetchShapes
    <3>2. Len(Pure(r.size, v)) = r.size /\ \A k \in 1..r.size : Pure(r.size, v)[k] = v
      BY <2>1, <3>1, PureFacts
    <3> QED
      BY <2>1, <3>2
  <2>3. OneVersion(r, v)'
    BY <1>3, <1>8, <2>1 DEF OneVersion
  <2>4. /\ fetchRec'.state = "partial" /\ fetchRec'.durable = r.size /\ fetchRec'.etag = r.etag
        /\ fetchRec'.total = r.total
    BY <1>8 DEF PartialRecord
  <2>5. RunOK(r)'
    <3>1. Transfer(r)'
      BY <1>4, <1>8, <2>1, <2>3, <2>4 DEF Transfer
    <3> QED
      BY <1>8, <3>1 DEF RunOK
  <2>6. synced' \in [Inodes -> 0..Size]
    <3>1. Len(blocks[p]) \in 0..Size
      BY <1>4, <1>8, <2>1, <2>2
    <3> QED
      BY <1>2, <1>8, <3>1, Sole
  <2>7. PartialVouches'
    BY <1>4, <1>8, <2>1, <2>2, <2>4 DEF PartialVouches
  <2>8. WholeVouches' /\ FileStands'
    BY <1>1, <1>4, <1>8, <2>4 DEF FetchInv, WholeVouches, FileStands
  <2> QED
    BY <1>1, <1>2, <1>8, <2>5, <2>6, <2>7, <2>8, Sole, Moves
<1> QED
  BY <1>5, <1>6, <1>7, <1>8, RetryCases

\* The flush makes every block durable.
LEMMA FlushesKeep ==
  ASSUME FetchInv, form = "kept", OneHolder, NEW e \in Execs, Flushes(e)
  PROVE  FetchInv'
<1>1. /\ form' = form /\ upstream' = upstream /\ jobsDone' = jobsDone /\ Run(e).at = "flush"
      /\ names' = names /\ blocks' = blocks /\ fetchRec' = fetchRec
  BY DEF Flushes, World
<1>2. Run(e).at \in Streaming
  BY <1>1 DEF Streaming
<1> DEFINE p == names.partial
<1>3. /\ names.file = 0 /\ p # 0 /\ blocks[p] = Run(e).digest /\ fetchRec.state # "whole"
      /\ fetchRec.state = "partial" => fetchRec.durable <= Run(e).size
  BY <1>1, <1>2, Sole DEF Transfer
<1>4. /\ synced' = [synced EXCEPT ![p] = Len(blocks[p])]
      /\ To(e, [Run(e) EXCEPT !.at = "record"])
  BY <1>3 DEF Flushes, Goes
<1>5. PICK r \in RunType :
        /\ r = [Run(e) EXCEPT !.at = "record"] /\ r.at = "record" /\ r.size = Run(e).size
        /\ r.digest = Run(e).digest /\ r.durable = Run(e).durable /\ r.etag = Run(e).etag
  <2> DEFINE r == [Run(e) EXCEPT !.at = "record"]
  <2>1. /\ r \in RunType /\ r.at = "record" /\ r.size = Run(e).size
        /\ r.digest = Run(e).digest /\ r.durable = Run(e).durable /\ r.etag = Run(e).etag
    BY <1>2, Sole, PlaceFacts DEF Streaming
  <2> QED
    BY <2>1
<1>6. PICK v \in 1..Versions : OneVersion(Run(e), v)
  BY <1>2, Sole DEF Transfer
<1>7. Run(e).size = Size /\ Run(e).digest = Pure(Size, v) /\ Len(blocks[p]) = Size
  <2>1. Run(e).size = Size /\ Run(e).digest = Pure(Size, v)
    BY <1>1, <1>6 DEF OneVersion
  <2>2. Len(Pure(Size, v)) = Size
    BY FetchShapes, PureFacts
  <2> QED
    BY <1>3, <2>1, <2>2
<1>8. synced' \in [Inodes -> 0..Size] /\ synced'[p] = Size
  BY <1>2, <1>4, <1>7, FetchShapes, Sole
<1>9. OneVersion(r, v)'
  BY <1>1, <1>5, <1>6, <1>7, <1>8 DEF OneVersion
<1>10. RunOK(r)'
  <2>1. Transfer(r)'
    BY <1>1, <1>3, <1>5, <1>9 DEF Transfer
  <2> QED
    BY <1>5, <2>1 DEF RunOK
<1>11. PartialVouches' /\ WholeVouches' /\ FileStands'
  BY <1>1, <1>3 DEF FetchInv, PartialVouches, WholeVouches, FileStands
<1> QED
  BY <1>1, <1>2, <1>4, <1>5, <1>8, <1>10, <1>11, Sole, Moves

\* The whole record speaks of the durable partial.
LEMMA RecordsKeep ==
  ASSUME FetchInv, form = "kept", OneHolder, NEW e \in Execs, RecordsWhole(e)
  PROVE  FetchInv'
<1>1. /\ form' = form /\ upstream' = upstream /\ jobsDone' = jobsDone /\ Run(e).at = "record"
      /\ names' = names /\ blocks' = blocks /\ synced' = synced
      /\ fetchRec' = WholeRecord(Run(e)) /\ To(e, [Run(e) EXCEPT !.at = "rename"])
  BY DEF RecordsWhole, World, Goes
<1>2. Run(e).at \in Streaming
  BY <1>1 DEF Streaming
<1> DEFINE p == names.partial
<1>3. names.file = 0 /\ p # 0 /\ blocks[p] = Run(e).digest
  BY <1>1, <1>2, Sole DEF Transfer
<1>4. PICK r \in RunType :
        /\ r = [Run(e) EXCEPT !.at = "rename"] /\ r.at = "rename" /\ r.size = Run(e).size
        /\ r.digest = Run(e).digest /\ r.durable = Run(e).durable /\ r.etag = Run(e).etag
  <2> DEFINE r == [Run(e) EXCEPT !.at = "rename"]
  <2>1. /\ r \in RunType /\ r.at = "rename" /\ r.size = Run(e).size
        /\ r.digest = Run(e).digest /\ r.durable = Run(e).durable /\ r.etag = Run(e).etag
    BY <1>2, Sole, PlaceFacts DEF Streaming
  <2> QED
    BY <2>1
<1>5. PICK v \in 1..Versions : OneVersion(Run(e), v)
  BY <1>2, Sole DEF Transfer
<1>6. Run(e).size = Size /\ Run(e).digest = Pure(Size, v) /\ synced[p] = Size
  BY <1>1, <1>5 DEF OneVersion
<1>7. /\ fetchRec'.state = "whole" /\ fetchRec'.size = Size /\ fetchRec'.digest = Run(e).digest
      /\ fetchRec' = WholeRecord(r)
  BY <1>1, <1>4, <1>6 DEF WholeRecord
<1>8. OneVersion(r, v)'
  BY <1>1, <1>4, <1>5, <1>6 DEF OneVersion
<1>9. RunOK(r)'
  <2>1. Transfer(r)'
    BY <1>1, <1>3, <1>4, <1>7, <1>8 DEF Transfer, WholeRecord
  <2> QED
    BY <1>4, <2>1 DEF RunOK
<1>10. PartialVouches' /\ WholeVouches' /\ FileStands'
  BY <1>1, <1>3, <1>6, <1>7 DEF FetchInv, PartialVouches, WholeVouches, FileStands
<1> QED
  BY <1>1, <1>2, <1>4, <1>9, <1>10, Sole, Moves

\* The rename publishes what the whole record speaks of.
LEMMA RenamesKeep ==
  ASSUME FetchInv, form = "kept", OneHolder, NEW e \in Execs, Renames(e)
  PROVE  FetchInv'
<1>1. /\ form' = form /\ upstream' = upstream /\ jobsDone' = jobsDone /\ Run(e).at = "rename"
      /\ blocks' = blocks /\ synced' = synced /\ fetchRec' = fetchRec
  BY DEF Renames, World
<1>2. Run(e).at \in Streaming
  BY <1>1 DEF Streaming
<1> DEFINE p == names.partial
<1>3. names.file = 0 /\ p # 0 /\ blocks[p] = Run(e).digest /\ fetchRec = WholeRecord(Run(e))
  BY <1>1, <1>2, Sole DEF Transfer
<1>4. names' = [partial |-> 0, file |-> p] /\ Refused(e, "succeeded")
  BY <1>3 DEF Renames
<1>5. /\ names' \in [partial : Inodes \cup {0}, file : Inodes \cup {0}]
      /\ names'.partial = 0 /\ names'.file = p
  BY <1>2, <1>4, Sole
<1>6. PICK r \in RunType :
        /\ r = [Run(e) EXCEPT !.at = "close", !.reason = "succeeded"] /\ r.at = "close"
  BY RefusedFacts DEF FetchReasons
<1>7. To(e, r)
  BY <1>4, <1>6 DEF Refused
<1>8. synced[p] = Size
  BY <1>1, <1>2, Sole DEF Transfer, OneVersion
<1>9. fetchRec.state = "whole" /\ fetchRec.digest = Run(e).digest
  BY <1>3 DEF WholeRecord
<1>10. RunOK(r)'
  BY <1>3, <1>5, <1>6 DEF RunOK, Streaming
<1>11. PartialVouches' /\ WholeVouches' /\ FileStands'
  BY <1>1, <1>3, <1>5, <1>8, <1>9 DEF FetchInv, PartialVouches, WholeVouches, FileStands
<1> QED
  BY <1>1, <1>2, <1>5, <1>7, <1>10, <1>11, Sole, Moves

\* The worker's death takes its executions and leaves the disk.
LEMMA DiesKeep ==
  ASSUME FetchInv, form = "kept", WorkerDies
  PROVE  FetchInv'
<1>1. /\ form' = form /\ upstream' = upstream /\ jobsDone' = jobsDone /\ names' = names
      /\ blocks' = blocks /\ synced' = synced /\ fetchRec' = fetchRec
      /\ fetchRun' = [e \in Execs |-> NewRun]
  BY DEF WorkerDies, World, Disk
<1>2. FetchTypes'
  BY <1>1, IdleRun DEF FetchInv, FetchTypes
<1>3. RunsHold'
  BY <1>1, IdleRun DEF RunsHold, RunOK, Quiet
<1>4. PartialVouches' /\ WholeVouches' /\ FileStands'
  BY <1>1 DEF FetchInv, PartialVouches, WholeVouches, FileStands
<1> QED
  BY <1>2, <1>3, <1>4 DEF FetchInv

\* What was flushed outlives a loss of power, and a record speaks of no more than that.
LEMMA LossKeeps ==
  ASSUME FetchInv, form = "kept", PowerLoss
  PROVE  FetchInv'
<1>1. /\ form' = form /\ upstream' = upstream /\ jobsDone' = jobsDone /\ names' = names
      /\ fetchRec' = fetchRec /\ fetchRun' = [e \in Execs |-> NewRun]
  BY DEF PowerLoss, World
<1>2. PICK n \in [Inodes -> 0..Size] :
        /\ \A i \in Inodes : n[i] \in synced[i]..Len(blocks[i])
        /\ blocks' = [i \in Inodes |-> SubSeq(blocks[i], 1, n[i])]
        /\ synced' = n
  BY DEF PowerLoss
<1>3. /\ names \in [partial : Inodes \cup {0}, file : Inodes \cup {0}]
      /\ blocks \in [Inodes -> Seq(Nat)] /\ \A i \in Inodes : Len(blocks[i]) <= Size
      /\ synced \in [Inodes -> 0..Size] /\ Size \in Nat \ {0}
  BY FetchShapes DEF FetchInv, FetchTypes
<1>4. ASSUME NEW i \in Inodes
      PROVE  /\ blocks'[i] \in Seq(Nat) /\ Len(blocks'[i]) = n[i] /\ n[i] <= Len(blocks[i])
             /\ Len(blocks[i]) <= Size /\ synced[i] <= n[i] /\ n[i] \in Nat
             /\ \A k \in 1..n[i] : blocks'[i][k] = blocks[i][k]
             /\ n[i] = Size => blocks'[i] = blocks[i] /\ Len(blocks[i]) = Size
  <2>1. /\ n[i] \in 0..Len(blocks[i]) /\ n[i] \in 0..Size /\ blocks[i] \in Seq(Nat)
        /\ Len(blocks[i]) <= Size /\ synced[i] <= n[i]
        /\ blocks'[i] = SubSeq(blocks[i], 1, n[i])
    BY <1>2, <1>3
  <2>2. n[i] = Size => n[i] = Len(blocks[i])
    BY <1>3, <2>1
  <2> QED
    BY <2>1, <2>2, PrefixFacts
<1>5. FetchTypes'
  BY <1>1, <1>2, <1>3, <1>4, IdleRun DEF FetchInv, FetchTypes
<1>6. RunsHold'
  BY <1>1, IdleRun DEF RunsHold, RunOK, Quiet
<1>7. PartialVouches'
  <2>1. ASSUME fetchRec.state = "partial", fetchRec.etag # 0, names.partial # 0,
               Len(blocks'[names.partial]) >= fetchRec.durable, NEW k \in 1..fetchRec.durable
        PROVE  blocks'[names.partial][k] = fetchRec.etag
    <3> DEFINE p == names.partial
    <3>1. p \in Inodes /\ fetchRec.durable \in 1..Size
      BY <1>3, <2>1 DEF FetchInv, PartialVouches
    <3>2. Len(blocks[p]) >= fetchRec.durable /\ k \in 1..n[p]
      <4>1. /\ Len(blocks'[p]) = n[p] /\ n[p] \in Nat /\ n[p] <= Len(blocks[p])
            /\ Len(blocks[p]) \in Nat /\ Len(blocks'[p]) >= fetchRec.durable
        BY <1>3, <1>4, <2>1, <3>1
      <4> QED
        BY ONLY <2>1, <3>1, <4>1
    <3>3. blocks[p][k] = fetchRec.etag
      BY <2>1, <3>1, <3>2 DEF FetchInv, PartialVouches
    <3> QED
      BY <1>4, <3>1, <3>2, <3>3
  <2> QED
    BY <1>1, <2>1 DEF FetchInv, PartialVouches
<1>8. WholeVouches'
  <2>1. ASSUME fetchRec.state = "whole", names.file = 0, names.partial # 0,
               Len(blocks'[names.partial]) = Size
        PROVE  blocks'[names.partial] = fetchRec.digest /\ synced'[names.partial] = Size
    <3>1. names.partial \in Inodes
      BY <1>3, <2>1
    <3>2. n[names.partial] = Size /\ blocks'[names.partial] = blocks[names.partial]
          /\ Len(blocks[names.partial]) = Size
      BY <1>4, <2>1, <3>1
    <3> QED
      BY <1>2, <2>1, <3>2 DEF FetchInv, WholeVouches
  <2> QED
    BY <1>1, <2>1 DEF FetchInv, WholeVouches
<1>9. FileStands'
  <2>1. ASSUME names.file # 0
        PROVE  blocks'[names.file] = fetchRec.digest /\ synced'[names.file] = Size
    <3>1. names.file \in Inodes /\ synced[names.file] = Size /\ blocks[names.file] = fetchRec.digest
      BY <1>3, <2>1 DEF FetchInv, FileStands
    <3>2. n[names.file] = Size
      BY <1>3, <1>4, <3>1
    <3> QED
      BY <1>2, <1>4, <3>1, <3>2
  <2> QED
    BY <1>1, <2>1 DEF FetchInv, FileStands
<1> QED
  BY <1>5, <1>6, <1>7, <1>8, <1>9 DEF FetchInv

\* A new version upstream changes nothing here.
LEMMA ChangeKeeps ==
  ASSUME FetchInv, form = "kept", UpstreamChanges
  PROVE  FetchInv'
<1>1. /\ form' = form /\ jobsDone' = jobsDone /\ names' = names
      /\ blocks' = blocks /\ synced' = synced /\ fetchRec' = fetchRec /\ fetchRun' = fetchRun
      /\ upstream.v < Versions /\ upstream' = [upstream EXCEPT !.v = @ + 1]
  BY DEF UpstreamChanges, Disk
<1>2. upstream' \in [v : 1..Versions, etag : BOOLEAN, length : BOOLEAN]
  <2>1. upstream \in [v : 1..Versions, etag : BOOLEAN, length : BOOLEAN]
    BY DEF FetchInv, FetchTypes
  <2>2. upstream.v + 1 \in 1..Versions
    BY <1>1, <2>1, FetchShapes
  <2> QED
    BY <1>1, <2>1, <2>2
<1>3. FetchTypes'
  BY <1>1, <1>2 DEF FetchInv, FetchTypes
<1>4. RunsHold'
  BY <1>1 DEF FetchInv, RunsHold, RunOK, Transfer, OneVersion
<1>5. PartialVouches' /\ WholeVouches' /\ FileStands'
  BY <1>1 DEF FetchInv, PartialVouches, WholeVouches, FileStands
<1> QED
  BY <1>3, <1>4, <1>5 DEF FetchInv

\* Nor does a step that leaves all of it as it was.
LEMMA SameKeeps ==
  ASSUME FetchInv, form = "kept",
         UNCHANGED <<form, upstream, names, blocks, synced, fetchRec, fetchRun, jobsDone>>
  PROVE  FetchInv'
<1>1. FetchTypes'
  BY DEF FetchInv, FetchTypes
<1>2. RunsHold'
  BY DEF FetchInv, RunsHold, RunOK, Transfer, OneVersion
<1>3. PartialVouches' /\ WholeVouches' /\ FileStands'
  BY DEF FetchInv, PartialVouches, WholeVouches, FileStands
<1> QED
  BY <1>1, <1>2, <1>3 DEF FetchInv

\* The empty directory meets the invariant.
LEMMA FetchInitially == FetchInit => FetchInv
<1> SUFFICES ASSUME FetchInit PROVE FetchInv
  OBVIOUS
<1>1. /\ names = [partial |-> 0, file |-> 0] /\ names.partial = 0 /\ names.file = 0
      /\ blocks = [i \in Inodes |-> <<>>] /\ synced = [i \in Inodes |-> 0]
      /\ fetchRec.state = "none" /\ fetchRun = [e \in Execs |-> NewRun] /\ jobsDone = <<>>
  BY DEF FetchInit, NoRecord
<1>2. upstream \in [v : 1..Versions, etag : BOOLEAN, length : BOOLEAN]
  <2>1. PICK o \in Offers : upstream = [v |-> 1, etag |-> o.etag, length |-> o.length]
    BY DEF FetchInit
  <2>2. o.etag \in BOOLEAN /\ o.length \in BOOLEAN /\ 1 \in 1..Versions
    BY FetchShapes
  <2> QED
    BY <2>1, <2>2
<1>3. /\ <<>> \in Seq(Nat) /\ Len(<<>>) = 0 /\ <<>> \in Seq(FetchReasons)
      /\ \A i \in DOMAIN jobsDone : FALSE
  BY <1>1
<1>4. FetchTypes
  BY <1>1, <1>2, <1>3, IdleRun, FetchShapes DEF FetchTypes
<1>5. RunsHold
  BY <1>1, IdleRun DEF RunsHold, RunOK, Quiet
<1>6. PartialVouches /\ WholeVouches /\ FileStands
  BY <1>1, <1>3 DEF PartialVouches, WholeVouches, FileStands
<1> QED
  BY <1>4, <1>5, <1>6 DEF FetchInv

\* The destination's form is given with the job.
LEMMA FormStays == [FetchNext]_fetchVars => form' = form
<1>1. ASSUME NEW e \in Execs, FetchStep(e) PROVE form' = form
  <2>1. CASE _open_or_resume(e) \/ Answers(e) \/ Streams(e) \/ BodyEnds(e)
               \/ StreamFails(e) \/ _retry(e)
    BY <2>1 DEF World, _open_or_resume, Answers, Streams, BodyEnds, StreamFails, _retry
  <2>2. CASE Opens(e) \/ Locks(e) \/ Closes(e) \/ Flushes(e) \/ RecordsWhole(e)
               \/ Renames(e)
    BY <2>2 DEF World, Opens, Locks, Closes, Flushes, RecordsWhole, Renames
  <2> QED
    BY <1>1, <2>1, <2>2 DEF FetchStep
<1>2. ASSUME NEW e \in Execs, Starts(e) PROVE form' = form
  BY <1>2 DEF Starts, World
<1>3. WorkerDies \/ PowerLoss \/ UpstreamChanges \/ UNCHANGED fetchVars => form' = form
  BY DEF WorkerDies, PowerLoss, UpstreamChanges, World, fetchVars
<1> QED
  BY <1>1, <1>2, <1>3 DEF FetchNext

\* Every step keeps the invariant while one execution has the partial.
LEMMA FetchInvSteps ==
  ASSUME FetchInv, OneHolder, [FetchNext]_fetchVars
  PROVE  FetchInv'
<1>1. form' = form
  BY FormStays
<1>2. SUFFICES ASSUME form = "kept" PROVE FetchInv'
  BY <1>1 DEF FetchInv
<1>3. CASE UNCHANGED fetchVars
  <2>1. UNCHANGED <<form, upstream, names, blocks, synced, fetchRec, fetchRun, jobsDone>>
    BY <1>3 DEF fetchVars
  <2> QED
    BY <1>2, <2>1, SameKeeps
<1>4. ASSUME NEW e \in Execs, Starts(e) PROVE FetchInv'
  BY <1>2, <1>4, StartsKeep
<1>5. ASSUME NEW e \in Execs, FetchStep(e) PROVE FetchInv'
  BY <1>2, <1>5, OpensKeep, LocksKeep, ClosesKeep, ResumeKeeps, AnswersKeep, StreamsKeep,
     BodyEndsKeep, FailsKeep, RetryKeeps, FlushesKeep, RecordsKeep, RenamesKeep
     DEF FetchStep
<1>6. CASE WorkerDies \/ PowerLoss \/ UpstreamChanges
  BY <1>2, <1>6, DiesKeep, LossKeeps, ChangeKeeps
<1> QED
  BY <1>3, <1>4, <1>5, <1>6 DEF FetchNext

\* The invariant gives the property.
LEMMA FetchInvSound ==
  ASSUME FetchInv
  PROVE  FetchSound
<1> SUFFICES ASSUME form = "kept" PROVE FetchSound
  BY DEF FetchSound, WholeTrue, SucceededWhole
<1>1. ASSUME names.file # 0
      PROVE  /\ fetchRec.state = "whole" /\ fetchRec.size = Size
             /\ blocks[names.file] = fetchRec.digest /\ Len(blocks[names.file]) = Size
             /\ \E v \in 1..Versions : fetchRec.digest = Pure(Size, v)
  <2>1. /\ fetchRec.state = "whole" /\ fetchRec.size = Size
        /\ blocks[names.file] = fetchRec.digest
    BY <1>1 DEF FetchInv, FileStands, WholeVouches
  <2>2. PICK v \in 1..Versions : fetchRec.digest = Pure(Size, v)
    BY <2>1 DEF FetchInv, WholeVouches
  <2>3. Len(Pure(Size, v)) = Size
    BY FetchShapes, PureFacts
  <2> QED
    BY <2>1, <2>2, <2>3
<1>2. WholeTrue
  BY <1>1 DEF WholeTrue, FileWhole, Pure
<1>3. SucceededWhole
  BY <1>1 DEF SucceededWhole, FileWhole, FetchInv, FileStands
<1> QED
  BY <1>2, <1>3 DEF FetchSound

\* A kept fetch tells the truth for any object, upstream, checkpoint, failures, kills and
\* losses of power, as long as one execution at a time has the partial while the file is
\* not there: a file read as whole holds every block of one version and its record's digest,
\* and a success leaves one that stays.
THEOREM FetchSoundHolds == FetchSpec /\ []OneHolder => []FetchSound
<1>1. FetchInit => FetchInv
  BY FetchInitially
<1>2. FetchInv /\ OneHolder /\ [FetchNext]_fetchVars => FetchInv'
  BY FetchInvSteps
<1>3. FetchInv => FetchSound
  BY FetchInvSound
<1> QED
  BY <1>1, <1>2, <1>3, PTL DEF FetchSpec

Active == {x \in Execs : fetchRun[x].at # "idle"}

\* With no job done, whoever asked for a lock asked for it under the name the partial still
\* has, or will find it taken.
HoldInv ==
  form = "kept" /\ names.file = 0 =>
    /\ IsFiniteSet(Active) /\ Cardinality(Active) + Len(jobsDone) <= MaxJobs
    /\ flocks \in [Inodes -> Execs \cup {0}]
    /\ jobsDone = <<>> =>
         \A e \in Execs :
           LET i == fetchRun[e].ino
           IN  /\ fetchRun[e].at \in AtWork => i # 0 /\ names.partial = i /\ flocks[i] = e
               /\ fetchRun[e].at = "lock" => i # 0 /\ (names.partial = i \/ flocks[i] # 0)

\* With at most two executions nobody locks a partial whose name was replaced.
LEMMA HoldersOne ==
  ASSUME MaxJobs <= 2, FetchInv, HoldInv
  PROVE  OneHolder
<1> SUFFICES ASSUME form = "kept", names.file = 0,
                    NEW e \in Execs, NEW x \in Execs, Holding(e), Holding(x)
             PROVE  e = x
  BY DEF OneHolder
<1>1. e \in Active /\ x \in Active
  BY DEF Holding, Active, Run, AtWork, Streaming
<1>2. CASE jobsDone = <<>>
  <2>1. \A y \in {e, x} : flocks[names.partial] = y
    BY <1>2 DEF HoldInv, Holding, Run
  <2> QED
    BY <2>1
<1>3. CASE jobsDone # <<>>
  <2>1. Len(jobsDone) >= 1
    BY <1>3, EmptySeq DEF FetchInv, FetchTypes
  <2>2. IsFiniteSet(Active) /\ Cardinality(Active) \in Nat /\ Cardinality(Active) <= 1
    <3>1. IsFiniteSet(Active) /\ Cardinality(Active) + Len(jobsDone) <= MaxJobs
      BY DEF HoldInv
    <3>2. Cardinality(Active) \in Nat
      BY <3>1, FS_CardinalityType
    <3>3. Len(jobsDone) \in Nat
      BY DEF FetchInv, FetchTypes
    <3> QED
      BY <2>1, <3>1, <3>2, <3>3, FetchShapes
  <2>3. ASSUME e # x PROVE FALSE
    <3>1. IsFiniteSet({e}) /\ Cardinality({e}) = 1
      BY FS_Singleton
    <3>2. IsFiniteSet({e} \cup {x}) /\ Cardinality({e} \cup {x}) = 2
      BY <2>3, <3>1, FS_AddElement
    <3>3. {e} \cup {x} \subseteq Active
      BY <1>1
    <3>4. Cardinality({e} \cup {x}) <= Cardinality(Active)
      BY <2>2, <3>3, FS_Subset
    <3> QED
      BY <2>2, <3>2, <3>4
  <2> QED
    BY <2>3
<1> QED
  BY <1>2, <1>3

\* What any step of an execution at work leaves as it was.
LEMMA WorkShape ==
  ASSUME FetchInv, form = "kept", OneHolder, NEW e \in Execs, names.file = 0, names'.file = 0,
         \/ _open_or_resume(e) \/ Answers(e) \/ Streams(e) \/ BodyEnds(e) \/ StreamFails(e)
         \/ _retry(e) \/ Flushes(e) \/ RecordsWhole(e) \/ Renames(e)
  PROVE  /\ Run(e).at \in AtWork /\ flocks' = flocks /\ jobsDone' = jobsDone
         /\ \A x \in Execs \ {e} : fetchRun'[x] = fetchRun[x]
         /\ fetchRun'[e].ino = Run(e).ino /\ fetchRun'[e].at \in AtWork \cup {"close"}
         /\ \/ names' = names
            \/ names'.partial = 0 /\ fetchRun'[e].at = "close"
<1>1. Run(e).at \in AtWork /\ flocks' = flocks /\ jobsDone' = jobsDone
  BY DEF _open_or_resume, Answers, Streams, BodyEnds, StreamFails, _retry, Flushes,
         RecordsWhole, Renames, AtWork, Streaming
<1>2. /\ fetchRun \in [Execs -> RunType] /\ Run(e) \in RunType
      /\ names \in [partial : Inodes \cup {0}, file : Inodes \cup {0}]
  BY DEF FetchInv, FetchTypes, Run
<1> DEFINE Moved(r) == To(e, r) /\ r.ino = Run(e).ino /\ r.at \in AtWork \cup {"close"}
           Shape == \E r : Moved(r) /\ (names' = names \/ (names'.partial = 0 /\ r.at = "close"))
<1>15. ASSUME NEW r, To(e, r), r.ino = Run(e).ino, r.at \in AtWork, names' = names
      PROVE  Shape
  <2>1. Moved(r) /\ (names' = names \/ (names'.partial = 0 /\ r.at = "close"))
    BY <1>15
  <2> HIDE DEF Moved
  <2> QED
    BY <2>1, Zenon
<1>3. ASSUME NEW reason, Refused(e, reason), names' = names \/ names'.partial = 0 PROVE Shape
  <2> DEFINE r == [Run(e) EXCEPT !.at = "close", !.reason = reason]
  <2>1. r.ino = Run(e).ino /\ r.at = "close" /\ To(e, r)
    BY <1>2, <1>3 DEF RunType, Refused
  <2> HIDE DEF r
  <2> QED
    BY <1>3, <2>1
<1>4. ASSUME NEW place \in AtWork, Goes(e, place), names' = names PROVE Shape
  <2> DEFINE r == [Run(e) EXCEPT !.at = place]
  <2>1. r.ino = Run(e).ino /\ r.at = place /\ To(e, r)
    BY <1>2, <1>4 DEF RunType, Goes
  <2> HIDE DEF r, Shape
  <2>2. r.at \in AtWork
    BY <1>4, <2>1
  <2> QED
    BY <1>4, <1>15, <2>1, <2>2
<1>5. ASSUME NEW r, r.ino = Run(e).ino, r.at \in AtWork, _reset_incomplete(e, r) PROVE Shape
  <2>1. \/ Refused(e, "local") /\ names' = names
        \/ To(e, r) /\ names' = names
    BY <1>5 DEF _reset_incomplete, Disk
  <2>2. To(e, r) /\ names' = names => Shape
    <3> HIDE DEF Shape
    <3> QED
      BY <1>5, <1>15
  <2> QED
    BY <1>3, <2>1, <2>2
<1>6. ASSUME Fresh(e) PROVE Shape
  <2> DEFINE r == [NewRun EXCEPT !.at = "ask", !.ino = Run(e).ino, !.had = Run(e).had]
  <2>1. r.ino = Run(e).ino /\ r.at \in AtWork /\ _reset_incomplete(e, r)
    BY <1>6 DEF Fresh, NewRun, AtWork, Streaming
  <2> HIDE DEF r
  <2> QED
    BY <1>5, <2>1
<1>7. ASSUME _open_or_resume(e) PROVE Shape
  <2>1. CASE ResumesWhole(e)
    <3>1. ~FileWhole
      BY DEF FileWhole
    <3>2. \/ names' = [partial |-> 0, file |-> names.partial] /\ Refused(e, "succeeded")
          \/ names' = names /\ Refused(e, "local")
      BY <2>1, <3>1 DEF ResumesWhole, Disk
    <3>3. names' = names \/ names'.partial = 0
      BY <3>2
    <3> QED
      BY <1>3, <3>2, <3>3
  <2>2. CASE Refused(e, "local") /\ UNCHANGED Disk
    BY <1>3, <2>2 DEF Disk
  <2>3. CASE ResumesPartial(e)
    <3>1. CASE names.partial = 0 \/ Len(blocks[names.partial]) < fetchRec.durable
      BY <1>3, <2>3, <3>1 DEF ResumesPartial, Disk
    <3>2. CASE ~(names.partial = 0 \/ Len(blocks[names.partial]) < fetchRec.durable)
      <4> DEFINE kept == SubSeq(blocks[names.partial], 1, fetchRec.durable)
                 place == IF fetchRec.total = fetchRec.durable THEN "flush" ELSE "ask"
                 r == [Run(e) EXCEPT !.at = place,
                          !.size = fetchRec.durable, !.durable = fetchRec.durable,
                          !.total = fetchRec.total, !.etag = fetchRec.etag,
                          !.digest = kept, !.ranged = TRUE]
      <4>1. To(e, r) /\ names' = names
        BY <2>3, <3>2 DEF ResumesPartial
      <4>2. place \in AtWork
        BY DEF AtWork, Streaming
      <4> HIDE DEF kept, place
      <4>3. r.ino = Run(e).ino /\ r.at = place
        BY <1>2 DEF RunType
      <4> HIDE DEF r, Shape
      <4> QED
        BY <1>15, <4>1, <4>2, <4>3
    <3> QED
      BY <3>1, <3>2
  <2>4. CASE Fresh(e)
    BY <1>6, <2>4
  <2> QED
    BY <1>7, <2>1, <2>2, <2>3, <2>4 DEF _open_or_resume
<1>8. ASSUME Answers(e) PROVE Shape
  <2>1. \/ _changed(e)
        \/ Refused(e, "local") /\ UNCHANGED Disk
        \/ \E t, g : /\ UNCHANGED Disk
                     /\ To(e, [Run(e) EXCEPT !.at = "body", !.out = names.partial,
                                 !.serving = upstream.v, !.before = Run(e).size,
                                 !.total = t, !.etag = g])
    <3>1. CASE Run(e).ranged /\ (~Matches(e) \/ Run(e).size = Size)
      BY <1>8, <3>1, Zenon DEF Answers
    <3>2. CASE ~(Run(e).ranged /\ (~Matches(e) \/ Run(e).size = Size)) /\ names.partial = 0
      BY <1>8, <3>2, Zenon DEF Answers
    <3>3. CASE ~(Run(e).ranged /\ (~Matches(e) \/ Run(e).size = Size)) /\ names.partial # 0
      BY <1>8, <3>3, Zenon DEF Answers
    <3> QED
      BY <3>1, <3>2, <3>3, Zenon
  <2>2. CASE _changed(e)
    <3>1. names'.partial = 0 /\ Refused(e, "changed")
      BY <1>2, <2>2 DEF _changed
    <3> QED
      BY <1>3, <3>1
  <2>3. ASSUME NEW t, NEW g, UNCHANGED Disk,
               To(e, [Run(e) EXCEPT !.at = "body", !.out = names.partial,
                        !.serving = upstream.v, !.before = Run(e).size,
                        !.total = t, !.etag = g])
        PROVE  Shape
    <3> DEFINE r == [Run(e) EXCEPT !.at = "body", !.out = names.partial,
                        !.serving = upstream.v, !.before = Run(e).size,
                        !.total = t, !.etag = g]
    <3>1. r.ino = Run(e).ino /\ r.at \in AtWork /\ To(e, r) /\ names' = names
      BY <1>2, <2>3 DEF RunType, AtWork, Streaming, Disk
    <3> HIDE DEF r, Shape
    <3> QED
      BY <1>15, <3>1
  <2> QED
    BY <1>3, <2>1, <2>2, <2>3 DEF Disk
<1>9. ASSUME Streams(e) PROVE Shape
  <2> DEFINE g == [Run(e) EXCEPT !.size = @ + 1, !.digest = Append(@, Run(e).serving)]
             h == [g EXCEPT !.durable = g.size]
  <2>1. names' = names /\ Run(e).at = "body" /\ (To(e, g) \/ To(e, h))
    BY <1>9 DEF Streams
  <2>2. g.ino = Run(e).ino /\ g.at = "body" /\ h.ino = Run(e).ino /\ h.at = "body"
    BY <1>2, <2>1 DEF RunType
  <2> HIDE DEF g, h, Shape
  <2>3. "body" \in AtWork
    BY DEF AtWork, Streaming
  <2> QED
    BY <1>15, <2>1, <2>2, <2>3
<1>10. ASSUME BodyEnds(e) \/ StreamFails(e) \/ RecordsWhole(e) PROVE Shape
  BY <1>4, <1>10 DEF BodyEnds, StreamFails, RecordsWhole, AtWork, Streaming, Disk
<1>11. ASSUME _retry(e) PROVE Shape
  <2> DEFINE saved == Run(e).size > Run(e).before /\ Run(e).etag # 0
             f == IF saved THEN 0 ELSE Run(e).failures + 1
             r0 == [Run(e) EXCEPT !.at = "ask", !.failures = f, !.out = 0, !.serving = 0,
                                  !.before = 0]
             r1 == [r0 EXCEPT !.digest = <<>>, !.size = 0, !.durable = 0, !.total = 0,
                              !.ranged = FALSE]
             r2 == [r0 EXCEPT !.durable = r0.size, !.ranged = TRUE]
             r3 == [r0 EXCEPT !.ranged = r0.size > 0]
  <2>1. \/ Refused(e, "transport") /\ UNCHANGED Disk
        \/ _reset_incomplete(e, r1)
        \/ Refused(e, "local") /\ UNCHANGED Disk
        \/ To(e, r2) /\ UNCHANGED <<names, blocks>>
        \/ To(e, r3) /\ UNCHANGED Disk
    BY <1>11, Zenon DEF _retry
  <2> HIDE DEF saved, f
  <2>2. r0.ino = Run(e).ino /\ r0.at = "ask" /\ r0 = [x \in DOMAIN Run(e) |-> r0[x]]
        /\ "ino" \in DOMAIN r0 /\ "at" \in DOMAIN r0
    BY <1>2 DEF RunType
  <2> HIDE DEF r0
  <2>3. /\ r1.ino = Run(e).ino /\ r1.at = "ask" /\ r2.ino = Run(e).ino /\ r2.at = "ask"
        /\ r3.ino = Run(e).ino /\ r3.at = "ask"
    BY <2>2
  <2> HIDE DEF r1, r2, r3, Shape
  <2>4. "ask" \in AtWork
    BY DEF AtWork, Streaming
  <2> QED
    BY <1>15, <1>3, <1>5, <2>1, <2>3, <2>4 DEF Disk
<1>12. ASSUME Flushes(e) PROVE Shape
  BY <1>3, <1>4, <1>12 DEF Flushes, AtWork, Streaming
<1>13. ASSUME Renames(e) PROVE Shape
  <2>1. names.partial = 0 => Refused(e, "local") /\ names' = names
    BY <1>13 DEF Renames
  <2>2. names.partial # 0 => FALSE
    BY <1>13 DEF Renames
  <2> QED
    BY <1>3, <2>1, <2>2
<1>14. Shape
  BY <1>7, <1>8, <1>9, <1>10, <1>11, <1>12, <1>13
<1> QED
  BY <1>1, <1>2, <1>14 DEF To

\* The executions going are still a few when one only moves or ends.
LEMMA FewerKeeps ==
  ASSUME NEW A, NEW B, IsFiniteSet(A), B \subseteq A
  PROVE  /\ IsFiniteSet(B) /\ Cardinality(B) \in Nat /\ Cardinality(A) \in Nat
         /\ Cardinality(B) <= Cardinality(A)
         /\ \A e \in A : e \notin B => Cardinality(B) + 1 <= Cardinality(A)
<1>1. /\ IsFiniteSet(B) /\ Cardinality(B) \in Nat /\ Cardinality(A) \in Nat
      /\ Cardinality(B) <= Cardinality(A)
  BY FS_Subset, FS_CardinalityType
<1>2. ASSUME NEW e \in A, e \notin B PROVE Cardinality(B) + 1 <= Cardinality(A)
  <2>1. IsFiniteSet(B \cup {e}) /\ Cardinality(B \cup {e}) = Cardinality(B) + 1
    BY <1>1, <1>2, FS_AddElement
  <2>2. B \cup {e} \subseteq A
    BY <1>2
  <2> QED
    BY <2>1, <2>2, FS_Subset
<1> QED
  BY <1>1, <1>2

\* Once the file is there it stays.
LEMMA FileStays ==
  ASSUME FetchInv, form = "kept", [FetchNext]_fetchVars, names'.file = 0
  PROVE  names.file = 0
<1>1. names \in [partial : Inodes \cup {0}, file : Inodes \cup {0}]
  BY DEF FetchInv, FetchTypes
<1>2. SUFFICES ASSUME names.file # 0 PROVE names'.file = names.file
  OBVIOUS
<1>3. \A e \in Execs : Run(e).at \notin Streaming
  BY <1>2, Published DEF Run
<1>4. CASE names' = names
  BY <1>4
<1>5. ASSUME NEW e \in Execs, Opens(e) \/ Closes(e) PROVE names'.file = names.file
  BY <1>1, <1>5 DEF Opens, Closes
<1>6. ASSUME NEW e \in Execs, _open_or_resume(e) PROVE names'.file = names.file
  <2>1. fetchRec.state = "whole"
    BY <1>2 DEF FetchInv, FileStands
  <2>2. ResumesWhole(e)
    BY <1>6, <2>1 DEF _open_or_resume, ResumesPartial, Usable
  <2> QED
    BY <1>1, <1>2, <2>2 DEF ResumesWhole, Disk
<1>7. ASSUME NEW e \in Execs,
             \/ Answers(e) \/ Streams(e) \/ BodyEnds(e) \/ StreamFails(e)
             \/ _retry(e) \/ Flushes(e) \/ RecordsWhole(e) \/ Renames(e)
      PROVE FALSE
  BY <1>3, <1>7 DEF Answers, Streams, BodyEnds, StreamFails, _retry, Flushes, RecordsWhole,
                    Renames, Streaming
<1>8. ASSUME NEW e \in Execs, Starts(e) \/ Locks(e) PROVE names' = names
  BY <1>8 DEF Starts, Locks, Disk
<1>9. WorkerDies \/ PowerLoss \/ UpstreamChanges \/ UNCHANGED fetchVars => names' = names
  BY DEF WorkerDies, PowerLoss, UpstreamChanges, fetchVars, Disk
<1> QED
  BY <1>4, <1>5, <1>6, <1>7, <1>8, <1>9 DEF FetchNext, FetchStep

\* Nothing is done yet, or nothing more needs saying of who holds what.
Claims ==
  \A e \in Execs :
    LET i == fetchRun[e].ino
    IN  /\ fetchRun[e].at \in AtWork => i # 0 /\ names.partial = i /\ flocks[i] = e
        /\ fetchRun[e].at = "lock" => i # 0 /\ (names.partial = i \/ flocks[i] # 0)

\* Every step keeps who may hold the partial.
LEMMA HoldSteps ==
  ASSUME FetchInv, HoldInv, OneHolder, FetchInv', form = "kept", form' = form,
         [FetchNext]_fetchVars, names'.file = 0
  PROVE  HoldInv'
<1>1. /\ names.file = 0 /\ IsFiniteSet(Active) /\ Cardinality(Active) + Len(jobsDone) <= MaxJobs
      /\ flocks \in [Inodes -> Execs \cup {0}] /\ (jobsDone = <<>> => Claims)
  BY FileStays DEF HoldInv, Claims
<1>2. /\ fetchRun \in [Execs -> RunType] /\ jobsDone \in Seq(FetchReasons) /\ Len(jobsDone) \in Nat
      /\ names \in [partial : Inodes \cup {0}, file : Inodes \cup {0}]
      /\ fetchRun' \in [Execs -> RunType]
  <2>1. /\ fetchRun \in [Execs -> RunType] /\ jobsDone \in Seq(FetchReasons)
        /\ names \in [partial : Inodes \cup {0}, file : Inodes \cup {0}]
    BY DEF FetchInv, FetchTypes
  <2>2. fetchRun' \in [Execs -> RunType]
    BY DEF FetchInv, FetchTypes
  <2> QED
    BY <2>1, <2>2
<1>3. ASSUME IsFiniteSet(Active'), Cardinality(Active') + Len(jobsDone') <= MaxJobs,
             flocks' \in [Inodes -> Execs \cup {0}], jobsDone' = <<>> => Claims'
      PROVE  HoldInv'
  BY <1>3 DEF HoldInv, Claims
<1>4. ASSUME Active' \subseteq Active, jobsDone' = jobsDone
      PROVE  IsFiniteSet(Active') /\ Cardinality(Active') + Len(jobsDone') <= MaxJobs
  <2>1. /\ IsFiniteSet(Active') /\ Cardinality(Active') \in Nat /\ Cardinality(Active) \in Nat
        /\ Cardinality(Active') <= Cardinality(Active)
    BY <1>1, <1>4, FewerKeeps
  <2> QED
    BY <1>1, <1>2, <1>4, <2>1, FetchShapes
<1>5. ASSUME UNCHANGED <<names, flocks, jobsDone, fetchRun>> PROVE HoldInv'
  BY <1>5, FileStays DEF HoldInv, Active
<1>6. ASSUME NEW e \in Execs, Starts(e) PROVE HoldInv'
  <2>1. /\ names' = names /\ flocks' = flocks
        /\ Cardinality({x \in Execs : Run(x).at # "idle"}) + Len(jobsDone) < MaxJobs
    BY <1>6 DEF Starts, Disk
  <2>2. Cardinality(Active) + Len(jobsDone) < MaxJobs /\ Cardinality(Active) \in Nat
    <3>1. Active = {x \in Execs : Run(x).at # "idle"}
      BY DEF Active, Run
    <3> QED
      BY <1>1, <2>1, <3>1, FS_CardinalityType
  <2>3. ~FileWhole
    BY <1>1 DEF FileWhole
  <2>4. fetchRun' = [fetchRun EXCEPT ![e] = [NewRun EXCEPT !.at = "open"]] /\ jobsDone' = jobsDone
    BY <1>6, <2>3 DEF Starts, To
  <2>5. [NewRun EXCEPT !.at = "open"].at = "open"
    BY DEF NewRun
  <2>6. Active' \subseteq Active \cup {e}
    BY <1>2, <2>4 DEF Active
  <2>7. IsFiniteSet(Active') /\ Cardinality(Active') <= Cardinality(Active) + 1
        /\ Cardinality(Active') \in Nat
    <3>1. IsFiniteSet(Active \cup {e}) /\ Cardinality(Active \cup {e}) <= Cardinality(Active) + 1
          /\ Cardinality(Active \cup {e}) \in Nat
      <4>1. CASE e \in Active
        <5>1. Active \cup {e} = Active
          BY <4>1
        <5>2. IsFiniteSet(Active \cup {e}) /\ Cardinality(Active \cup {e}) = Cardinality(Active)
          BY ONLY <1>1, <5>1
        <5>3. Cardinality(Active) <= Cardinality(Active) + 1
          BY <2>2
        <5> QED
          BY ONLY <2>2, <5>2, <5>3
      <4>2. CASE e \notin Active
        <5>1. /\ IsFiniteSet(Active \cup {e})
              /\ Cardinality(Active \cup {e}) = Cardinality(Active) + 1
          BY <1>1, <4>2, FS_AddElement
        <5> QED
          BY <2>2, <5>1
      <4> QED
        BY <4>1, <4>2
    <3>2. /\ IsFiniteSet(Active') /\ Cardinality(Active') \in Nat
          /\ Cardinality(Active') <= Cardinality(Active \cup {e})
      BY <2>6, <3>1, FewerKeeps
    <3> QED
      BY <2>2, <3>1, <3>2
  <2>8. Cardinality(Active') + Len(jobsDone') <= MaxJobs
    BY <1>2, <2>2, <2>4, <2>7, FetchShapes
  <2>9. jobsDone' = <<>> => Claims'
    <3> DEFINE r == [NewRun EXCEPT !.at = "open"]
    <3> HIDE DEF r
    <3>1. r.at = "open" /\ fetchRun' = [fetchRun EXCEPT ![e] = r]
      BY <2>4, <2>5 DEF r
    <3> QED
      BY <1>1, <1>2, <2>1, <2>4, <3>1 DEF Claims, AtWork, Streaming
  <2> QED
    BY <1>1, <1>3, <2>1, <2>7, <2>8, <2>9
<1>7. ASSUME NEW e \in Execs, Opens(e) PROVE HoldInv'
  <2>1. flocks' = flocks /\ jobsDone' = jobsDone /\ Run(e).at = "open"
    BY <1>7 DEF Opens
  <2>2. PICK i \in Inodes, h \in BOOLEAN :
          /\ fetchRun' = [fetchRun EXCEPT ![e] = [Run(e) EXCEPT !.at = "lock", !.ino = i, !.had = h]]
          /\ names'.partial = i /\ (names.partial = 0 \/ names' = names)
    <3>1. CASE names.partial # 0
      <4>1. names.partial \in Inodes
        BY <1>2, <3>1
      <4> QED
        BY <1>7, <3>1, <4>1 DEF Opens, To
    <3>2. CASE names.partial = 0
      <4>1. PICK i \in Inodes :
              /\ To(e, [Run(e) EXCEPT !.at = "lock", !.ino = i, !.had = FALSE])
              /\ names' = [names EXCEPT !.partial = i]
        BY <1>7, <3>2 DEF Opens
      <4>2. names'.partial = i
        BY <1>2, <4>1
      <4> QED
        BY <3>2, <4>1, <4>2 DEF To
    <3> QED
      BY <3>1, <3>2
  <2>3. /\ fetchRun'[e].at = "lock" /\ fetchRun'[e].ino = i
        /\ \A x \in Execs \ {e} : fetchRun'[x] = fetchRun[x]
    BY <1>2, <2>2 DEF Run, RunType
  <2>4. Active' \subseteq Active
    BY <2>1, <2>3 DEF Active, Run
  <2>5. jobsDone' = <<>> => Claims'
    <3> SUFFICES ASSUME Claims, NEW x \in Execs
                 PROVE  /\ fetchRun'[x].at \in AtWork =>
                             /\ fetchRun'[x].ino # 0 /\ names'.partial = fetchRun'[x].ino
                             /\ flocks'[fetchRun'[x].ino] = x
                        /\ fetchRun'[x].at = "lock" =>
                             /\ fetchRun'[x].ino # 0
                             /\ names'.partial = fetchRun'[x].ino \/ flocks'[fetchRun'[x].ino] # 0
      BY <1>1, <2>1 DEF Claims
    <3>1. CASE x = e
      BY <2>2, <2>3, <3>1, FetchShapes DEF AtWork, Streaming
    <3>2. CASE x # e
      BY <2>1, <2>2, <2>3, <3>2 DEF Claims
    <3> QED
      BY <3>1, <3>2
  <2> QED
    BY <1>1, <1>3, <1>4, <2>1, <2>4, <2>5
<1>8. ASSUME NEW e \in Execs, Locks(e) PROVE HoldInv'
  <2> DEFINE i == Run(e).ino
  <2>1. names' = names /\ jobsDone' = jobsDone /\ Run(e).at = "lock" /\ Run(e) \in RunType
    BY <1>2, <1>8 DEF Locks, Disk, Run
  <2>2. CASE flocks[i] = 0
    <3>1. /\ flocks' = [flocks EXCEPT ![i] = e]
          /\ fetchRun' = [fetchRun EXCEPT ![e] = [Run(e) EXCEPT !.at = "resume"]]
      BY <1>8, <2>2 DEF Locks, Goes, To
    <3>2. /\ fetchRun'[e].at = "resume" /\ fetchRun'[e].ino = i
          /\ \A x \in Execs \ {e} : fetchRun'[x] = fetchRun[x]
      BY <1>2, <2>1, <3>1 DEF RunType
    <3>3. Active' \subseteq Active
      BY <2>1, <3>2 DEF Active, Run
    <3>4. flocks' \in [Inodes -> Execs \cup {0}]
      BY <1>1, <3>1
    <3>5. jobsDone' = <<>> => Claims'
      <4> SUFFICES ASSUME Claims, NEW x \in Execs
                   PROVE  /\ fetchRun'[x].at \in AtWork =>
                               /\ fetchRun'[x].ino # 0 /\ names'.partial = fetchRun'[x].ino
                               /\ flocks'[fetchRun'[x].ino] = x
                          /\ fetchRun'[x].at = "lock" =>
                               /\ fetchRun'[x].ino # 0
                               /\ names'.partial = fetchRun'[x].ino \/ flocks'[fetchRun'[x].ino] # 0
        BY <1>1, <2>1 DEF Claims
      <4>1. i # 0 /\ names.partial = i /\ i \in Inodes
        BY <2>1, <2>2 DEF Claims, Run, RunType
      <4>2. flocks'[i] = e
        BY <1>1, <3>1, <4>1
      <4>3. CASE x = e
        BY <2>1, <3>2, <4>1, <4>2, <4>3
      <4>4. CASE x # e
        <5>1. fetchRun[x].at \notin AtWork
          BY <2>2, <4>1, <4>4, FetchShapes DEF Claims
        <5>2. fetchRun[x].at = "lock" =>
                /\ fetchRun[x].ino # 0
                /\ names.partial = fetchRun[x].ino \/ flocks'[fetchRun[x].ino] # 0
          <6>1. fetchRun[x].ino \in Inodes \cup {0}
            BY <1>2 DEF RunType
          <6> QED
            BY <1>1, <3>1, <4>1, <6>1, FetchShapes DEF Claims
        <5> QED
          BY <2>1, <3>2, <4>4, <5>1, <5>2
      <4> QED
        BY <4>3, <4>4
    <3> QED
      BY <1>3, <1>4, <2>1, <3>3, <3>4, <3>5
  <2>3. CASE flocks[i] # 0
    <3>1. /\ flocks' = flocks
          /\ fetchRun' = [fetchRun EXCEPT ![e] = [Run(e) EXCEPT !.at = "close", !.reason = "busy"]]
      BY <1>8, <2>3 DEF Locks, Refused, To
    <3>2. /\ fetchRun'[e].at = "close"
          /\ \A x \in Execs \ {e} : fetchRun'[x] = fetchRun[x]
      BY <1>2, <2>1, <3>1 DEF RunType
    <3>3. Active' \subseteq Active
      BY <2>1, <3>2 DEF Active, Run
    <3>4. jobsDone' = <<>> => Claims'
      BY <1>1, <2>1, <3>1, <3>2 DEF Claims, AtWork, Streaming
    <3> QED
      BY <1>1, <1>3, <1>4, <2>1, <3>1, <3>3, <3>4
  <2> QED
    BY <2>2, <2>3
<1>9. ASSUME NEW e \in Execs, Closes(e) PROVE HoldInv'
  <2>1. /\ jobsDone' = Append(jobsDone, Run(e).reason) /\ Run(e).at = "close"
        /\ fetchRun' = [fetchRun EXCEPT ![e] = NewRun] /\ NewRun.at = "idle"
    BY <1>9 DEF Closes, To, NewRun
  <2>2. Len(jobsDone') = Len(jobsDone) + 1 /\ jobsDone' # <<>>
    <3>1. Run(e).reason \in FetchReasons
      BY <1>2 DEF Run, RunType
    <3>2. Len(jobsDone') = Len(jobsDone) + 1
      BY <1>2, <2>1, <3>1, AppendProperties
    <3>3. Len(<<>>) = 0
      OBVIOUS
    <3> QED
      BY <1>2, <3>2, <3>3
  <2>3. Active' \subseteq Active /\ e \in Active /\ e \notin Active'
    BY <1>2, <2>1 DEF Active, Run
  <2>4. /\ IsFiniteSet(Active') /\ Cardinality(Active') \in Nat /\ Cardinality(Active) \in Nat
        /\ Cardinality(Active') + 1 <= Cardinality(Active)
    BY <1>1, <2>3, FewerKeeps
  <2>5. Cardinality(Active') + Len(jobsDone') <= MaxJobs
    BY <1>1, <1>2, <2>2, <2>4, FetchShapes
  <2>6. flocks' \in [Inodes -> Execs \cup {0}]
    BY <1>1, <1>9 DEF Closes
  <2> QED
    BY <1>3, <2>2, <2>4, <2>5, <2>6
<1>10. ASSUME NEW e \in Execs,
              \/ _open_or_resume(e) \/ Answers(e) \/ Streams(e) \/ BodyEnds(e) \/ StreamFails(e)
              \/ _retry(e) \/ Flushes(e) \/ RecordsWhole(e) \/ Renames(e)
       PROVE  HoldInv'
  <2>1. /\ Run(e).at \in AtWork /\ flocks' = flocks /\ jobsDone' = jobsDone
        /\ \A x \in Execs \ {e} : fetchRun'[x] = fetchRun[x]
        /\ fetchRun'[e].ino = Run(e).ino /\ fetchRun'[e].at \in AtWork \cup {"close"}
        /\ \/ names' = names
           \/ names'.partial = 0 /\ fetchRun'[e].at = "close"
    BY <1>1, <1>10, WorkShape
  <2>2. Active' \subseteq Active
    BY <2>1 DEF Active, Run, AtWork, Streaming
  <2>3. jobsDone' = <<>> => Claims'
    <3> SUFFICES ASSUME Claims, NEW x \in Execs
                 PROVE  /\ fetchRun'[x].at \in AtWork =>
                             /\ fetchRun'[x].ino # 0 /\ names'.partial = fetchRun'[x].ino
                             /\ flocks'[fetchRun'[x].ino] = x
                        /\ fetchRun'[x].at = "lock" =>
                             /\ fetchRun'[x].ino # 0
                             /\ names'.partial = fetchRun'[x].ino \/ flocks'[fetchRun'[x].ino] # 0
      BY <1>1, <2>1 DEF Claims
    <3>1. Run(e).ino # 0 /\ names.partial = Run(e).ino /\ flocks[Run(e).ino] = e
      BY <2>1 DEF Claims, Run
    <3>2. CASE x = e
      BY <2>1, <3>1, <3>2 DEF AtWork, Streaming
    <3>3. CASE x # e
      <4>1. fetchRun'[x] = fetchRun[x] /\ fetchRun[x].at \notin AtWork
        BY <2>1, <3>1, <3>3 DEF Claims
      <4>2. fetchRun[x].at = "lock" => fetchRun[x].ino # 0 /\ flocks[fetchRun[x].ino] # 0
        BY <3>1, FetchShapes DEF Claims
      <4> QED
        BY <2>1, <4>1, <4>2
    <3> QED
      BY <3>2, <3>3
  <2> QED
    BY <1>1, <1>3, <1>4, <2>1, <2>2, <2>3
<1>11. ASSUME WorkerDies \/ PowerLoss PROVE HoldInv'
  <2>1. /\ fetchRun' = [e \in Execs |-> NewRun] /\ flocks' = [i \in Inodes |-> 0]
        /\ jobsDone' = jobsDone /\ NewRun.at = "idle"
    BY <1>11 DEF WorkerDies, PowerLoss, NewRun
  <2>2. Active' \subseteq Active
    BY <2>1 DEF Active
  <2>3. Claims'
    BY <2>1 DEF Claims, AtWork, Streaming
  <2>4. flocks' \in [Inodes -> Execs \cup {0}]
    BY <2>1
  <2> QED
    BY <1>3, <1>4, <2>1, <2>2, <2>3, <2>4
<1>12. UpstreamChanges \/ UNCHANGED fetchVars => UNCHANGED <<names, flocks, jobsDone, fetchRun>>
  BY DEF UpstreamChanges, fetchVars, Disk
<1> QED
  BY <1>5, <1>6, <1>7, <1>8, <1>9, <1>10, <1>11, <1>12 DEF FetchNext, FetchStep

\* At first nobody holds anything.
LEMMA HoldInitially == FetchInit => HoldInv
<1> SUFFICES ASSUME FetchInit PROVE HoldInv
  OBVIOUS
<1>1. /\ fetchRun = [e \in Execs |-> NewRun] /\ jobsDone = <<>> /\ NewRun.at = "idle"
      /\ flocks = [i \in Inodes |-> 0]
  BY DEF FetchInit, NewRun
<1>2. Active = {} /\ Len(jobsDone) = 0
  BY <1>1 DEF Active
<1>3. IsFiniteSet(Active) /\ Cardinality(Active) = 0
  BY <1>2, FS_EmptySet
<1>4. Cardinality(Active) + Len(jobsDone) <= MaxJobs
  BY <1>2, <1>3, FetchShapes
<1>5. \A e \in Execs : fetchRun[e].at \notin AtWork \cup {"lock"}
  BY <1>1 DEF AtWork, Streaming
<1>6. flocks \in [Inodes -> Execs \cup {0}]
  BY <1>1
<1> QED
  BY <1>3, <1>4, <1>5, <1>6 DEF HoldInv

\* With a stalled job run twice, and killed and run again as often as it may be, no third
\* execution beside them, the lock does keep one execution at the partial, and a kept fetch
\* tells the truth.
THEOREM TwoExecutionsSound ==
  ASSUME MaxJobs <= 2
  PROVE  FetchSpec => [](OneHolder /\ FetchSound)
<1>1. FetchInit => FetchInv /\ HoldInv
  BY FetchInitially, HoldInitially
<1>2. FetchInv /\ HoldInv /\ [FetchNext]_fetchVars => FetchInv' /\ HoldInv'
  <2> SUFFICES ASSUME FetchInv, HoldInv, [FetchNext]_fetchVars PROVE FetchInv' /\ HoldInv'
    OBVIOUS
  <2>1. OneHolder
    BY HoldersOne
  <2>2. FetchInv'
    BY <2>1, FetchInvSteps
  <2>3. HoldInv'
    <3>1. form' = form
      BY FormStays
    <3>2. CASE form = "kept" /\ names'.file = 0
      BY <2>1, <2>2, <3>1, <3>2, HoldSteps
    <3>3. CASE ~(form = "kept" /\ names'.file = 0)
      BY <3>1, <3>3 DEF HoldInv
    <3> QED
      BY <3>2, <3>3
  <2> QED
    BY <2>2, <2>3
<1>3. FetchInv /\ HoldInv => OneHolder /\ FetchSound
  BY HoldersOne, FetchInvSound
<1> QED
  BY <1>1, <1>2, <1>3, PTL DEF FetchSpec

=============================================================================
