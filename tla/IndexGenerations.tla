--------------------------- MODULE IndexGenerations ---------------------------
(***************************************************************************)
(* The life of the search index's generations on one box: the record in    *)
(* Postgres, the index and the collection in the two derived stores, the   *)
(* alias in each store, the worker's build jobs, and the commands that     *)
(* build, promote, retire and collect generations or restore the box.      *)
(*                                                                         *)
(* A generation is built by three worker jobs in turn (dupes, lexical,     *)
(* dense) that `gideon index build` defers and polls.  The command can be  *)
(* interrupted at any point while its job runs on; a stalled job is put    *)
(* back in the queue and may run beside the execution it was taken from.   *)
(* `gideon restore` holds the backup lock only, so it interleaves with the *)
(* corpus lock's commands; `gideon index gc` holds both.                   *)
(*                                                                         *)
(* The evaluations' sibling stack (ci) has generations of its own, built   *)
(* from a sample and filled again while they serve.  The engine lock is    *)
(* the corpus lock there, and no backup, restore or install touches it.    *)
(***************************************************************************)
EXTENDS GenerationRecord, Naturals, FiniteSets

CONSTANTS
  Stack,        \* "production", or "ci": the sibling stack the evaluations run on
  Gen,          \* generations of the one collection (caselaw), one per inputs hash
  NoGen,        \* no generation
  Slot,         \* executions of one job that can overlap in the worker
  Hold,         \* RETIRED_HOLD_DAYS, in ticks
  Limits,       \* which dense jobs the operator defers: FALSE whole, TRUE limited
  MaxCommands,  \* bound: commands that take the corpus lock
  MaxStops,     \* bound: commands refused, failed or interrupted midway
  MaxFails,     \* bound: job executions that fail
  MaxCrashes,   \* bound: worker crashes
  MaxStalls,    \* bound: live executions whose heartbeat goes stale
  MaxBackups,   \* bound: full backup runs
  MaxRestores   \* bound: restores

ASSUME StackAssumption == Stack \in {"production", "ci"}
ASSUME GenAssumption == NoGen \notin Gen
ASSUME SlotAssumption == Slot # {}
ASSUME HoldAssumption == Hold \in Nat \ {0}
ASSUME BoundAssumption ==
  /\ Limits \subseteq BOOLEAN /\ Limits # {}
  /\ MaxCommands \in Nat /\ MaxStops \in Nat /\ MaxFails \in Nat /\ MaxCrashes \in Nat /\ MaxStalls \in Nat
  /\ MaxBackups \in Nat /\ MaxRestores \in Nat

VARIABLES
  rows,      \* public.index_generations
  age,       \* days since a row's retired_at, counted up to Hold
  store,     \* what each store holds of a generation
  alias,     \* the generations each store's alias names
  job,       \* the newest worker job under each generation's lock, per kind
  body,      \* the executions of that job inside the worker
  cmd,       \* the command holding the corpus lock
  rst,       \* the full backup or the restore holding the backup lock
  tier,      \* which services run: none, the stores alone, the whole stack
  levelled,  \* no restore is unfinished since the stores were last put back
  turn,      \* the generation a chat turn read from the record, and its days
  snap,      \* the newest full backup: store snapshots and the record beside them
  spent      \* the bounded events so far

vars == <<rows, age, store, alias, job, body, cmd, rst, tier, levelled, turn, snap, spent>>

Kind == {"dupes", "lexical", "dense"}
Content == {"absent", "part", "whole"}
JobStatus == {"none", "todo", "doing", "succeeded", "failed"}
BodyStep == {"idle", "read", "readFailed", "fill", "fillLimited", "filled"}

NoCmd == [op |-> "none", gen |-> NoGen, kind |-> "dupes", pc |-> "none", bad |-> FALSE,
          seen |-> [h \in Half |-> {}], drop |-> {}, left |-> {}, again |-> FALSE]
EmptyStores == [h \in Half |-> [g \in Gen |-> "absent"]]
NoRst == [pc |-> "none", short |-> [g \in Gen |-> {}], whole |-> {},
          seen |-> [h \in Half |-> {}], store |-> EmptyStores, lexical |-> {}]
NoTurn == [gen |-> NoGen, days |-> 0]
NoSnap == [taken |-> FALSE, rows |-> [g \in Gen |-> NoRow],
           job |-> [g \in Gen |-> [k \in Kind |-> "none"]],
           store |-> EmptyStores, alias |-> {}]

CmdType ==
  [op : {"none", "build", "promote", "retire", "gc"}, gen : Gen \cup {NoGen}, kind : Kind,
   pc : {"none", "defer", "wait", "built", "finish", "gates", "flip", "retire",
         "lexical", "dense"},
   bad : BOOLEAN, seen : [Half -> SUBSET Gen], drop : SUBSET Gen, left : SUBSET Gen,
   again : BOOLEAN]

RstType ==
  [pc : {"none", "backup", "stopped", "level", "demote", "dense"},
   short : [Gen -> SUBSET Half], whole : SUBSET Gen, seen : [Half -> SUBSET Gen],
   store : [Half -> [Gen -> Content]], lexical : SUBSET Gen]

SnapType ==
  [taken : BOOLEAN, rows : [Gen -> Row], job : [Gen -> [Kind -> JobStatus]],
   store : [Half -> [Gen -> Content]], alias : SUBSET Gen]

TurnType == [gen : Gen \cup {NoGen}, days : Nat]

SpentType ==
  [commands : Nat, stops : Nat, fails : Nat, crashes : Nat, stalls : Nat, backups : Nat,
   restores : Nat]

TypeOK ==
  /\ rows \in [Gen -> Row]
  /\ age \in [Gen -> 0..Hold]
  /\ store \in [Half -> [Gen -> Content]]
  /\ alias \in [Half -> SUBSET Gen]
  /\ job \in [Gen -> [Kind -> JobStatus]]
  /\ body \in [Gen -> [Kind -> [Slot -> BodyStep]]]
  /\ cmd \in CmdType
  /\ rst \in RstType
  /\ tier \in {"down", "stores", "up"}
  /\ levelled \in BOOLEAN
  /\ turn \in TurnType
  /\ snap \in SnapType
  /\ spent \in SpentType

Init ==
  /\ rows = [g \in Gen |-> NoRow]
  /\ age = [g \in Gen |-> 0]
  /\ store = EmptyStores
  /\ alias = [h \in Half |-> {}]
  /\ job = [g \in Gen |-> [k \in Kind |-> "none"]]
  /\ body = [g \in Gen |-> [k \in Kind |-> [s \in Slot |-> "idle"]]]
  /\ cmd = NoCmd
  /\ rst = NoRst
  /\ tier = "up"
  /\ levelled = TRUE
  /\ turn = NoTurn
  /\ snap = NoSnap
  /\ spent = [commands |-> 0, stops |-> 0, fails |-> 0, crashes |-> 0, stalls |-> 0,
              backups |-> 0, restores |-> 0]

Live == {g \in Gen : rows[g].state = "live"}

\* live_job: a job under the generation's lock is queued or running.
LiveJob(g, k) == job[g][k] \in {"todo", "doing"}

\* A generation sampled for the sibling is filled again where it serves.
Refillable(g) == Stack = "ci" /\ rows[g].state = "live"

\* No job of these generations is queued or running; on the sibling, no job at all.
NoJob(gens) == \A g \in (IF Stack = "ci" THEN Gen ELSE gens), k \in Kind : ~LiveJob(g, k)

\* The corpus lock and the backup lock, both taken without waiting.
CorpusLockFree == cmd.op = "none"

\* Mutant: index gc takes the corpus lock alone.
BackupLockNotOfGc == rst.pc = "none"

\* index gc holds both locks; backup run and restore hold the backup lock.
BackupLockFree == rst.pc = "none" /\ cmd.op # "gc"

Begin(command) ==
  /\ CorpusLockFree /\ spent.commands < MaxCommands
  /\ cmd' = command
  /\ spent' = [spent EXCEPT !.commands = @ + 1]

-----------------------------------------------------------------------------
(* index build, and corpus install's build of a changed collection. *)

\* A live or retired generation is left as it stands, but for a live sample; any
\* other is (re)built.
BuildStart(g) ==
  /\ tier = "up"
  /\ rows[g].state \notin {"live", "retired"} \/ Refillable(g)
  /\ rows' = [rows EXCEPT ![g] = write_building(@)]
  /\ Begin([NoCmd EXCEPT !.op = "build", !.gen = g, !.pc = "defer"])
  /\ UNCHANGED <<age, store, alias, job, body, rst, tier, levelled, turn, snap>>

\* _cluster, _build, _dense: rejoin the generation's live job or defer one.
BuildDefer ==
  /\ cmd.op = "build" /\ cmd.pc = "defer" /\ tier # "down"
  /\ job' = IF LiveJob(cmd.gen, cmd.kind) THEN job
            ELSE [job EXCEPT ![cmd.gen][cmd.kind] = "todo"]
  /\ cmd' = [cmd EXCEPT !.pc = "wait", !.again = Stack = "ci" /\ LiveJob(cmd.gen, cmd.kind)]
  /\ UNCHANGED <<rows, age, store, alias, body, rst, tier, levelled, turn, snap, spent>>

\* The next stage of build_generation once a kind's job succeeded.
NextStage(k) == CASE k = "dupes" -> <<"lexical", "defer">>
                  [] k = "lexical" -> <<"dense", "defer">>
                  [] k = "dense" -> <<"dense", "built">>

\* Poll the job to its end.  A success whose half is not stamped (the counts
\* stage's check) and a failure both go on to the report.  A sample's job that was
\* rejoined may carry an earlier selection: the current one is deferred after it.
BuildPoll ==
  /\ cmd.op = "build" /\ cmd.pc = "wait" /\ tier # "down"
  /\ job[cmd.gen][cmd.kind] \in {"succeeded", "failed"}
  /\ LET succeeded == job[cmd.gen][cmd.kind] = "succeeded"
         stamped == cmd.kind = "lexical" => rows[cmd.gen].at["lexical"]
     IN  \/ /\ succeeded /\ cmd.again
            /\ cmd' = [cmd EXCEPT !.pc = "defer", !.again = FALSE]
         \/ /\ succeeded /\ ~cmd.again /\ stamped
            /\ cmd' = [cmd EXCEPT !.kind = NextStage(cmd.kind)[1], !.pc = NextStage(cmd.kind)[2]]
         \/ /\ ~succeeded \/ (~cmd.again /\ ~stamped)
            /\ cmd' = [cmd EXCEPT !.bad = TRUE, !.pc = "finish", !.again = FALSE]
  /\ job' = [job EXCEPT ![cmd.gen][cmd.kind] = "none"]
  /\ UNCHANGED <<rows, age, store, alias, body, rst, tier, levelled, turn, snap, spent>>

\* _built: measure and record the dense footprint of a stamped half; a limited
\* dense job passes without one; the measurement can fail.
BuildBuilt ==
  /\ cmd.op = "build" /\ cmd.pc = "built" /\ tier # "down"
  /\ LET row == rows[cmd.gen] IN
     \/ /\ row.at["dense"]
        /\ rows' = [rows EXCEPT ![cmd.gen] = write_footprint(@)]
        /\ cmd' = [cmd EXCEPT !.pc = "finish"]
     \/ /\ ~row.at["dense"] /\ row.limited
        /\ cmd' = [cmd EXCEPT !.pc = "finish"]
        /\ UNCHANGED rows
     \/ /\ row.at["dense"] \/ ~row.limited
        /\ cmd' = [cmd EXCEPT !.pc = "finish", !.bad = TRUE]
        /\ UNCHANGED rows
  /\ UNCHANGED <<age, store, alias, job, body, rst, tier, levelled, turn, snap, spent>>

\* _finish: materialize the treatment, then append the report; a failed stage
\* is reported too, and the treatment can fail in its turn.
BuildFinish ==
  /\ cmd.op = "build" /\ cmd.pc = "finish" /\ tier # "down"
  /\ Recorded(rows[cmd.gen])
  /\ \E verdict \in (IF cmd.bad THEN {"failed"} ELSE {"passed", "failed"}) :
        rows' = [rows EXCEPT ![cmd.gen] = write_report(@, verdict)]
  /\ cmd' = NoCmd
  /\ UNCHANGED <<age, store, alias, job, body, rst, tier, levelled, turn, snap, spent>>

\* corpus install over a built generation whose newest report is missing, failed
\* or lacks a staged count: finish_generation runs treatment and report alone.
FinishStart(g) ==
  /\ tier = "up" /\ Stack = "production"
  /\ rows[g].state = "built"
  /\ Begin([NoCmd EXCEPT !.op = "build", !.gen = g, !.pc = "finish"])
  /\ UNCHANGED <<rows, age, store, alias, job, body, rst, tier, levelled, turn, snap>>

-----------------------------------------------------------------------------
(* index promote. *)

\* point_alias with the targets read earlier: unchanged when they were already
\* the generation's, else one request removes them and adds the generation.
point_alias(h, g, seen) ==
  IF seen[h] = {g} THEN alias
  ELSE [alias EXCEPT ![h] = IF h = "lexical" THEN (@ \ seen[h]) \cup {g} ELSE {g}]

\* The request fails when the generation is missing from the store, or when an
\* alias OpenSearch is told to remove is no longer there.
CanPoint(h, g, seen) ==
  seen[h] # {g} => /\ store[h][g] # "absent"
                   /\ h = "lexical" => seen[h] \subseteq alias[h]

\* Mutant: the candidate's report is not read.
PromoteStartUnreported(g) ==
  /\ tier # "down" /\ NoJob({g})
  /\ rows[g].state = "built" /\ rows[g].footprint
  /\ Begin([NoCmd EXCEPT !.op = "promote", !.gen = g, !.pc = "gates", !.seen = alias])
  /\ UNCHANGED <<rows, age, store, alias, job, body, rst, tier, levelled, turn, snap>>

\* _candidate: a built generation with a footprint and a passed report is taken
\* to the gates; a live one converges its aliases.
PromoteStart(g) ==
  /\ tier # "down"
  /\ NoJob({g})
  /\ \/ /\ rows[g].state = "built" /\ rows[g].footprint /\ rows[g].report = "passed"
        /\ Begin([NoCmd EXCEPT !.op = "promote", !.gen = g, !.pc = "gates", !.seen = alias])
     \/ /\ rows[g].state = "live"
        /\ Begin([NoCmd EXCEPT !.op = "promote", !.gen = g, !.pc = "lexical", !.seen = alias])
  /\ Cardinality(Live) <= 1
  /\ UNCHANGED <<rows, age, store, alias, job, body, rst, tier, levelled, turn, snap>>

\* The memory check and the build-gates run pass; they need the whole stack.
PromoteGates ==
  /\ cmd.op = "promote" /\ cmd.pc = "gates" /\ tier = "up"
  /\ cmd' = [cmd EXCEPT !.pc = "flip"]
  /\ UNCHANGED <<rows, age, store, alias, job, body, rst, tier, levelled, turn, snap, spent>>

\* promote_generation: refused, with nothing written, unless still built.
PromoteFlip ==
  /\ cmd.op = "promote" /\ cmd.pc = "flip" /\ tier # "down"
  /\ Promotable(rows[cmd.gen])
  /\ rows' = promote_generation(rows, cmd.gen)
  /\ age' = [g \in Gen |-> IF rows'[g].state = "retired" /\ rows[g].state # "retired"
                           THEN 0 ELSE age[g]]
  /\ cmd' = [cmd EXCEPT !.pc = "lexical"]
  /\ UNCHANGED <<store, alias, job, body, rst, tier, levelled, turn, snap, spent>>

\* The record flips first; then the lexical alias, then the dense one.
PromotePoint ==
  /\ cmd.op = "promote" /\ cmd.pc \in Half /\ tier # "down"
  /\ CanPoint(cmd.pc, cmd.gen, cmd.seen)
  /\ alias' = point_alias(cmd.pc, cmd.gen, cmd.seen)
  /\ cmd' = IF cmd.pc = "lexical" THEN [cmd EXCEPT !.pc = "dense"] ELSE NoCmd
  /\ UNCHANGED <<rows, age, store, job, body, rst, tier, levelled, turn, snap, spent>>

-----------------------------------------------------------------------------
(* index retire. *)

RetireStart(g) ==
  /\ tier # "down"
  /\ NoJob({g})
  /\ Retirable(rows[g])
  /\ Begin([NoCmd EXCEPT !.op = "retire", !.gen = g, !.pc = "retire"])
  /\ UNCHANGED <<rows, age, store, alias, job, body, rst, tier, levelled, turn, snap>>

RetireWrite ==
  /\ cmd.op = "retire" /\ tier # "down"
  /\ Retirable(rows[cmd.gen])
  /\ rows' = [rows EXCEPT ![cmd.gen] = retire_generation(@)]
  /\ age' = [age EXCEPT ![cmd.gen] = 0]
  /\ cmd' = NoCmd
  /\ UNCHANGED <<store, alias, job, body, rst, tier, levelled, turn, snap, spent>>

-----------------------------------------------------------------------------
(* index gc. *)

\* Mutant: the hold is a day short.
GcCandidatesEarly ==
  {g \in Gen : /\ rows[g].state = "retired"
               /\ ~(rows[g].promotedAt /\ age[g] < Hold - 1)}

\* _candidates: retired rows, but for the once promoted ones still in their hold.
GcCandidates ==
  {g \in Gen : /\ rows[g].state = "retired"
               /\ ~(rows[g].promotedAt /\ age[g] < Hold)}

GcStart ==
  /\ BackupLockFree /\ tier # "down"
  /\ GcCandidates # {}
  /\ NoJob(GcCandidates)
  /\ \A h \in Half : alias[h] \cap GcCandidates = {}
  /\ Begin([NoCmd EXCEPT !.op = "gc", !.pc = "lexical",
                          !.drop = GcCandidates, !.left = GcCandidates])
  /\ UNCHANGED <<rows, age, store, alias, job, body, rst, tier, levelled, turn, snap>>

\* Every candidate's index goes, then every candidate's collection; a store
\* drops the alias of what it deletes.  The record is never written.
GcDrop(g) ==
  /\ cmd.op = "gc" /\ g \in cmd.left /\ tier # "down"
  /\ store' = [store EXCEPT ![cmd.pc][g] = "absent"]
  /\ alias' = [alias EXCEPT ![cmd.pc] = @ \ {g}]
  /\ cmd' = IF cmd.left # {g} THEN [cmd EXCEPT !.left = @ \ {g}]
            ELSE IF cmd.pc = "lexical" THEN [cmd EXCEPT !.pc = "dense", !.left = cmd.drop]
            ELSE NoCmd
  /\ UNCHANGED <<rows, age, job, body, rst, tier, levelled, turn, snap, spent>>

\* Any command can be refused, fail or be interrupted between two of its steps;
\* its finally releases the lock and a job it polled runs on unread.
CommandStops ==
  /\ cmd.op # "none" /\ spent.stops < MaxStops
  /\ spent' = [spent EXCEPT !.stops = @ + 1]
  /\ cmd' = NoCmd
  /\ job' = IF cmd.op = "build" /\ ~LiveJob(cmd.gen, cmd.kind)
            THEN [job EXCEPT ![cmd.gen][cmd.kind] = "none"] ELSE job
  /\ UNCHANGED <<rows, age, store, alias, body, rst, tier, levelled, turn, snap>>

-----------------------------------------------------------------------------
(* The worker's jobs: lexical.build, dense.build, dupes.build. *)

Polled(g, k) ==
  cmd.op = "build" /\ cmd.pc = "wait" /\ cmd.gen = g /\ cmd.kind = k

\* Whichever execution ends first ends the job; the queue keeps finished jobs,
\* and nothing but the build that polls it reads one.
JobEnds(g, k, result) ==
  job' = IF ~LiveJob(g, k) THEN job
         ELSE [job EXCEPT ![g][k] = IF Polled(g, k) THEN result ELSE "none"]

\* The worker fetches the job and reads the generation's state; a live generation
\* but for a sample's, or a retired one, is invalid and its row refuses the failure
\* mark.
JobStart(g, k, s) ==
  /\ tier = "up" /\ job[g][k] = "todo" /\ body[g][k][s] = "idle"
  /\ IF rows[g].state \in {"building", "built", "failed"} \/ Refillable(g)
     THEN /\ body' = [body EXCEPT ![g][k][s] =
                         IF rows[g].state = "failed" THEN "readFailed" ELSE "read"]
          /\ job' = [job EXCEPT ![g][k] = "doing"]
     ELSE /\ JobEnds(g, k, "failed")
          /\ UNCHANGED body
  /\ UNCHANGED <<rows, age, store, alias, cmd, rst, tier, levelled, turn, snap, spent>>

Filling(g, k) == \E s \in Slot : body[g][k][s] \in {"fill", "fillLimited", "filled"}

\* Under the generation's flock: resume what was read as failed, create the
\* index or collection when absent, and for dense reset the attempt's counts.
BodyLock(g, k, s) ==
  /\ body[g][k][s] \in {"read", "readFailed"} /\ ~Filling(g, k)
  /\ \E limited \in (IF k = "dense" THEN Limits ELSE {FALSE}) :
       LET read == IF body[g][k][s] = "readFailed" THEN resume(rows[g]) ELSE rows[g]
       IN  /\ rows' = [rows EXCEPT ![g] = IF k = "dense" THEN start(read, limited) ELSE read]
           /\ body' = [body EXCEPT ![g][k][s] = IF limited THEN "fillLimited" ELSE "fill"]
  /\ store' = IF k \in Half /\ store[k][g] = "absent"
              THEN [store EXCEPT ![k][g] = "part"] ELSE store
  /\ UNCHANGED <<age, alias, job, cmd, rst, tier, levelled, turn, snap, spent>>

\* The flock is held by another execution: the job fails as busy, and a busy
\* job leaves the row to the job holding the lock.
BodyBusy(g, k, s) ==
  /\ body[g][k][s] \in {"read", "readFailed"} /\ Filling(g, k)
  /\ body' = [body EXCEPT ![g][k][s] = "idle"]
  /\ JobEnds(g, k, "failed")
  /\ UNCHANGED <<rows, age, store, alias, cmd, rst, tier, levelled, turn, snap, spent>>

\* A lexical fill over a minute long records its counts so far.
BodyProgress(g, s) ==
  /\ body[g]["lexical"][s] = "fill" /\ rows[g].counted
  /\ rows' = [rows EXCEPT ![g] = progress(@)]
  /\ UNCHANGED <<age, store, alias, job, body, cmd, rst, tier, levelled, turn, snap, spent>>

\* _fill writes what the store lacks.  An index dropped under it is created again
\* by the next bulk request, without what it held; a dropped collection fails the job.
BodyFill(g, k, s) ==
  /\ k \in Half /\ body[g][k][s] = "fill"
  /\ k = "dense" => store[k][g] # "absent"
  /\ store' = [store EXCEPT ![k][g] = IF @ = "absent" THEN "part" ELSE "whole"]
  /\ body' = [body EXCEPT ![g][k][s] = "filled"]
  /\ UNCHANGED <<rows, age, alias, job, cmd, rst, tier, levelled, turn, snap, spent>>

\* Mutant: a limited dense attempt stamps the half.
BodyFinishLimited(g, k, s) ==
  /\ \/ /\ k \in Half /\ body[g][k][s] \in {"filled", "fillLimited"}
        /\ rows' = [rows EXCEPT ![g] = finish(@, k)]
     \/ /\ k = "dupes" /\ body[g][k][s] = "fill"
        /\ UNCHANGED rows
  /\ body' = [body EXCEPT ![g][k][s] = "idle"]
  /\ JobEnds(g, k, "succeeded")
  /\ UNCHANGED <<age, store, alias, cmd, rst, tier, levelled, turn, snap, spent>>

\* record.finish: a filled half is stamped; a limited dense attempt and the
\* clustering stamp no half.
BodyFinish(g, k, s) ==
  /\ \/ /\ body[g][k][s] = "filled"
        /\ rows' = [rows EXCEPT ![g] = finish(@, k)]
     \/ /\ (k = "dupes" /\ body[g][k][s] = "fill") \/ body[g][k][s] = "fillLimited"
        /\ UNCHANGED rows
  /\ body' = [body EXCEPT ![g][k][s] = "idle"]
  /\ JobEnds(g, k, "succeeded")
  /\ UNCHANGED <<age, store, alias, cmd, rst, tier, levelled, turn, snap, spent>>

\* Any other failure marks the row, or fails to when the database is away.
BodyFail(g, k, s) ==
  /\ body[g][k][s] # "idle" /\ spent.fails < MaxFails
  /\ body' = [body EXCEPT ![g][k][s] = "idle"]
  /\ \/ rows' = [rows EXCEPT ![g] = fail(@)]
     \/ UNCHANGED rows
  /\ JobEnds(g, k, "failed")
  /\ spent' = [spent EXCEPT !.fails = @ + 1]
  /\ UNCHANGED <<age, store, alias, cmd, rst, tier, levelled, turn, snap>>

\* The worker process dies: its flocks go with it, its jobs stay doing.
WorkerCrash ==
  /\ tier = "up" /\ spent.crashes < MaxCrashes
  /\ \E g \in Gen, k \in Kind, s \in Slot : body[g][k][s] # "idle"
  /\ body' = [g \in Gen |-> [k \in Kind |-> [s \in Slot |-> "idle"]]]
  /\ spent' = [spent EXCEPT !.crashes = @ + 1]
  /\ UNCHANGED <<rows, age, store, alias, job, cmd, rst, tier, levelled, turn, snap>>

Orphaned(g, k) == job[g][k] = "doing" /\ \A s \in Slot : body[g][k][s] = "idle"

\* Mutant: only a job that still runs is queued again.
RetryStalledRunning(g, k) ==
  /\ tier = "up" /\ job[g][k] = "doing" /\ ~Orphaned(g, k) /\ spent.stalls < MaxStalls
  /\ spent' = [spent EXCEPT !.stalls = @ + 1]
  /\ job' = [job EXCEPT ![g][k] = "todo"]
  /\ UNCHANGED <<rows, age, store, alias, body, cmd, rst, tier, levelled, turn, snap>>

\* retry_stalled_jobs: a job whose worker's heartbeat is stale is queued again,
\* its process dead or only late.
RetryStalled(g, k) ==
  /\ tier = "up" /\ job[g][k] = "doing"
  /\ \/ Orphaned(g, k) /\ UNCHANGED spent
     \/ /\ ~Orphaned(g, k) /\ spent.stalls < MaxStalls
        /\ spent' = [spent EXCEPT !.stalls = @ + 1]
  /\ job' = [job EXCEPT ![g][k] = "todo"]
  /\ UNCHANGED <<rows, age, store, alias, body, cmd, rst, tier, levelled, turn, snap>>

-----------------------------------------------------------------------------
(* Turns and time. *)

\* read_serving: a turn reads the one live generation once and keeps to it.
TurnStart(g) ==
  /\ tier = "up" /\ turn = NoTurn /\ Live = {g}
  /\ turn' = [gen |-> g, days |-> 0]
  /\ UNCHANGED <<rows, age, store, alias, job, body, cmd, rst, tier, levelled, snap, spent>>

TurnEnd ==
  /\ turn # NoTurn
  /\ turn' = NoTurn
  /\ UNCHANGED <<rows, age, store, alias, job, body, cmd, rst, tier, levelled, snap, spent>>

\* A day passes.  A turn is over within the hold.
Tick ==
  /\ turn # NoTurn => turn.days + 1 < Hold
  /\ turn' = IF turn = NoTurn THEN turn ELSE [turn EXCEPT !.days = @ + 1]
  /\ age' = [g \in Gen |-> IF rows[g].state = "retired" /\ age[g] < Hold
                           THEN age[g] + 1 ELSE age[g]]
  /\ UNCHANGED <<rows, store, alias, job, body, cmd, rst, tier, levelled, snap, spent>>

-----------------------------------------------------------------------------
(* backup run --full, restore and apply. *)

\* A full run snapshots the stores first, OpenSearch's index with its alias, and
\* backs the record up later: the set's record can be newer than its stores.
BackupStores ==
  /\ Stack = "production" /\ BackupLockFree /\ tier = "up" /\ spent.backups < MaxBackups
  /\ rst' = [NoRst EXCEPT !.pc = "backup", !.store = store, !.lexical = alias["lexical"]]
  /\ spent' = [spent EXCEPT !.backups = @ + 1]
  /\ UNCHANGED <<rows, age, store, alias, job, body, cmd, tier, levelled, turn, snap>>

BackupRecord ==
  /\ rst.pc = "backup"
  /\ snap' = [taken |-> TRUE, rows |-> rows, job |-> job, store |-> rst.store,
              alias |-> rst.lexical]
  /\ rst' = NoRst
  /\ UNCHANGED <<rows, age, store, alias, job, body, cmd, tier, levelled, turn, spent>>

\* compose down: the worker, the turns and the stores stop.
RestoreStop ==
  /\ BackupLockFree /\ snap.taken /\ spent.restores < MaxRestores
  /\ tier' = "down"
  /\ rst' = [NoRst EXCEPT !.pc = "stopped"]
  /\ body' = [g \in Gen |-> [k \in Kind |-> [s \in Slot |-> "idle"]]]
  /\ turn' = NoTurn
  /\ spent' = [spent EXCEPT !.restores = @ + 1]
  /\ UNCHANGED <<rows, age, store, alias, job, cmd, levelled, snap>>

\* Postgres comes back as of the set or of the archive's end; the snapshots go
\* over the indexes they hold, on this box or on an empty one.  An archive-end
\* restore leaves the stores as they are.
RestoreRecover(mode, toSet) ==
  /\ rst.pc = "stopped"
  /\ rows' = IF toSet THEN snap.rows ELSE rows
  /\ job' = IF toSet THEN snap.job ELSE job
  /\ LET kept(h, g) == mode = "archive_end" \/ (mode = "same" /\ snap.store[h][g] = "absent")
     IN  /\ store' = [h \in Half |-> [g \in Gen |->
                         IF kept(h, g) THEN store[h][g] ELSE snap.store[h][g]]]
         /\ alias' = [h \in Half |->
              IF h = "lexical"
              THEN {g \in alias[h] : kept(h, g)} \cup {g \in snap.alias : ~kept(h, g)}
              ELSE IF mode = "rebuilt" THEN {} ELSE alias[h]]
  /\ tier' = "stores"
  /\ levelled' = FALSE
  /\ rst' = [rst EXCEPT !.pc = "level"]
  /\ UNCHANGED <<age, body, cmd, turn, snap, spent>>

\* Mutant: a half is short only when its store has nothing of it.
AbsentHalves(g) == {h \in Half : store[h][g] = "absent"}

\* The halves of a generation that the stores do not hold whole.
ShortHalves(g) == {h \in Half : store[h][g] # "whole"}

\* What level_all finds short: a half absent, or below the recorded counts.  Part of
\* an index can reach the counts an unfinished attempt left, and then passes.
Findings(g) ==
  {ShortHalves(g)} \cup
  (IF store["lexical"][g] = "part" /\ ~rows[g].counted THEN {ShortHalves(g) \ {"lexical"}} ELSE {})

\* level_all reads everything first: which built or live rows are short, which
\* live row is whole, and the aliases; more than one live row refuses.
LevelRead ==
  /\ rst.pc = "level"
  /\ Cardinality(Live) <= 1
  /\ \E short \in [Gen -> SUBSET Half] :
       /\ \A g \in Gen : short[g] \in (IF Demotable(rows[g]) THEN Findings(g) ELSE {{}})
       /\ rst' = [NoRst EXCEPT !.pc = "demote", !.short = short,
                               !.whole = {g \in Live : short[g] = {}}, !.seen = alias]
  /\ UNCHANGED <<rows, age, store, alias, job, body, cmd, tier, levelled, turn, snap, spent>>

\* A short row is demoted if it still is built or live; its alias stands.
LevelDemote(g) ==
  /\ rst.pc = "demote" /\ rst.short[g] # {}
  /\ Demotable(rows[g])
  /\ rows' = [rows EXCEPT ![g] = demote_generation(@, rst.short[g])]
  /\ rst' = [rst EXCEPT !.short[g] = {}]
  /\ UNCHANGED <<age, store, alias, job, body, cmd, tier, levelled, turn, snap, spent>>

\* Then the live whole generation gets both aliases, and the restore ends.
LevelPoint ==
  /\ \/ rst.pc = "demote" /\ \A g \in Gen : rst.short[g] = {}
     \/ rst.pc = "dense"
  /\ LET h == IF rst.pc = "demote" THEN "lexical" ELSE "dense" IN
     IF rst.whole = {} THEN UNCHANGED alias
     ELSE \E g \in rst.whole : /\ CanPoint(h, g, rst.seen)
                               /\ alias' = point_alias(h, g, rst.seen)
  /\ rst' = IF rst.pc = "demote" THEN [rst EXCEPT !.pc = "dense"] ELSE NoRst
  /\ levelled' = (rst.pc = "dense")
  /\ UNCHANGED <<rows, age, store, job, body, cmd, tier, turn, snap, spent>>

\* A stage of the backup or the restore refuses: all stays as the last one left it.
RestoreStops ==
  /\ rst.pc # "none"
  /\ rst' = NoRst
  /\ UNCHANGED <<rows, age, store, alias, job, body, cmd, tier, levelled, turn, snap, spent>>

\* apply, the restore's named next step, starts the whole stack.
Apply ==
  /\ tier # "up" /\ rst.pc = "none"
  /\ tier' = "up"
  /\ UNCHANGED <<rows, age, store, alias, job, body, cmd, rst, levelled, turn, snap, spent>>

-----------------------------------------------------------------------------
Commands ==
  \/ \E g \in Gen : BuildStart(g) \/ FinishStart(g) \/ PromoteStart(g) \/ RetireStart(g)
                    \/ GcDrop(g)
  \/ BuildDefer \/ BuildPoll \/ BuildBuilt \/ BuildFinish
  \/ PromoteGates \/ PromoteFlip \/ PromotePoint
  \/ RetireWrite \/ GcStart \/ CommandStops

Worker ==
  \/ \E g \in Gen, k \in Kind, s \in Slot :
        \/ JobStart(g, k, s) \/ BodyLock(g, k, s) \/ BodyBusy(g, k, s)
        \/ BodyFill(g, k, s) \/ BodyFinish(g, k, s) \/ BodyFail(g, k, s)
  \/ \E g \in Gen, s \in Slot : BodyProgress(g, s)
  \/ \E g \in Gen, k \in Kind : RetryStalled(g, k)
  \/ WorkerCrash

Restoring ==
  \/ BackupStores \/ BackupRecord \/ RestoreStop \/ LevelRead \/ LevelPoint \/ RestoreStops \/ Apply
  \/ \E mode \in {"same", "rebuilt", "archive_end"}, toSet \in BOOLEAN :
        RestoreRecover(mode, toSet)
  \/ \E g \in Gen : LevelDemote(g)

Serving == TurnEnd \/ Tick \/ \E g \in Gen : TurnStart(g)

Next == Commands \/ Worker \/ Restoring \/ Serving

Spec == Init /\ [][Next]_vars

\* The worker fetches what is queued and its threads run on, its periodic task
\* queues a dead worker's jobs again, and a build's process polls on.
Fairness ==
  /\ \A g \in Gen, k \in Kind, s \in Slot :
       WF_vars(JobStart(g, k, s) \/ BodyLock(g, k, s) \/ BodyBusy(g, k, s)
               \/ BodyFill(g, k, s) \/ BodyFinish(g, k, s))
  /\ \A g \in Gen, k \in Kind : WF_vars(Orphaned(g, k) /\ RetryStalled(g, k))
  /\ WF_vars(BuildDefer \/ BuildPoll \/ BuildBuilt \/ BuildFinish)

FairSpec == Spec /\ Fairness

-----------------------------------------------------------------------------
(* Properties. *)

\* At most one generation is live, whatever flips, demotions and restores
\* interleave: promote_generation retires the others in the same transaction.
OneLive == \A a, b \in Live : a = b

\* No sequence of the host's and the worker's statements leaves a row the table's
\* CHECKs forbid, so no command or job is aborted by its own write.
RowLegal == \A g \in Gen : RowChecks(rows[g])

\* The record table is sound whatever the host's commands, the worker's jobs and the
\* restores interleave: its rows have their type and are legal, and one at most is live.
RecordSound == TypeOK /\ OneLive /\ RowLegal

\* A built or live generation is stamped in both halves and whole in both stores:
\* neither a limited attempt, nor an interrupted build, nor two overlapping
\* executions of one job make the FINISH statements call it built early.
BuiltWhole ==
  \A g \in Gen : Demotable(rows[g]) =>
    \A h \in Half : rows[g].at[h] /\ store[h][g] = "whole"

\* A turn keeps both stores of the generation it read before the flip, until it
\* is over: index gc's hold outlasts the turn.
TurnServed == \A h \in Half : turn.gen # NoGen => store[h][turn.gen] = "whole"

\* index gc deletes nothing that an alias names or whose row is not retired at
\* that moment, a restore that brings rows and aliases back included.
GcSpares ==
  [][\A g \in Gen, h \in Half :
       (cmd.op = "gc" /\ store[h][g] # "absent" /\ store'[h][g] = "absent")
         => /\ rows[g].state = "retired"
            /\ \A other \in Half : g \notin alias[other]]_vars

\* A retired generation stays retired but for a restore: no late job revives or
\* fails it, so that what index gc may drop is never built or promoted again.
RetiredStays ==
  [][\A g \in Gen : rows[g].state = "retired" /\ rst.pc # "stopped"
                      => rows'[g].state = "retired"]_vars

\* A row goes live only with both stores whole and a passed report and a footprint
\* recorded, although the flip comes long after promote read its candidate.
FlipGated ==
  [][\A g \in Gen :
       (rst.pc # "stopped" /\ rows[g].state # "live" /\ rows'[g].state = "live")
         => /\ rows[g].report = "passed" /\ rows[g].footprint
            /\ \A h \in Half : store[h][g] = "whole"]_vars

\* An alias moves to a generation only once the record says it is live: a promote
\* interrupted anywhere leaves no alias ahead of the record.
AliasFollowsRecord ==
  [][\A h \in Half : \A g \in alias'[h] \ alias[h] : rows[g].state = "live"]_vars

\* The order of index promote: gates, record, aliases.  A row goes live only behind its
\* gates, and no alias moves to a generation that the record does not call live.
PromoteOrdered == FlipGated /\ AliasFollowsRecord

\* When a restore has levelled the stores with the record, no row it leaves built
\* or live is short in a store, if its counts are those of a finished attempt.
LevelledWhole ==
  [][(~levelled /\ levelled') =>
       \A g \in Gen : Demotable(rows[g]) /\ rows[g].counted
                       => \A h \in Half : store[h][g] = "whole"]_vars

\* Once a restore has levelled, a built or live row is never short: "an index
\* generation short or absent in either store goes back to building".
LevelledRecord ==
  levelled => \A g \in Gen, h \in Half : Demotable(rows[g]) => store[h][g] = "whole"

\* What serves stands, whatever late executions, failed jobs and a sample's refills do
\* to it: its row stays live until a flip retires it, stamped in both halves and whole
\* in both stores ("the promoted generation stands").
LiveStands ==
  [][\A g \in Live : /\ rows'[g].state = "live" \/ cmd.pc = "flip"
                     /\ \A h \in Half : rows'[g].at[h] /\ store'[h][g] = "whole"]_vars

\* Every deferred job comes to an end, its worker's crash included.
JobsEnd == \A g \in Gen, k \in Kind : LiveJob(g, k) ~> ~LiveJob(g, k)

\* A build that is not interrupted comes to its report, whatever its jobs do.
BuildEnds == (cmd.op = "build") ~> (cmd.op # "build")

\* The worker's jobs and the build that polls them settle: every job ends and every
\* build reports, a sample's rejoined jobs and stalled executions included.
BuildsSettle == JobsEnd /\ BuildEnds
=============================================================================
