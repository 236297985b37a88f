------------------------------- MODULE CorpusLabels -------------------------------
(* The corpus commands: `gideon corpus cut` writes a lockfile that pins one snapshot *)
(* of every source, `corpus install` takes a committed lockfile through the worker's *)
(* jobs to a built generation.  Both hold the corpus lock, so one command runs at a  *)
(* time; the worker jobs it deferred go on when it is interrupted.                   *)
(*                                                                                   *)
(* A label is the day it was cut on.  There is one fetched source, caselaw, which    *)
(* carries courts, and one captured source, treatment; a snapshot's bytes are a      *)
(* version number.                                                                   *)
EXTENDS Integers, Sequences, FiniteSets, FiniteSetsExt

CONSTANTS
  Days,        \* the labels, 1..n
  Dates,       \* the upstream's snapshot dates, 1..n
  Courts,      \* court ids
  FirstCourts, \* first_courts of the registry
  Scotus,      \* OVERRULED_COURT
  Releases0,   \* pipeline versions a checkout may carry, 1..n
  Selections,  \* --courts of a cut, {} for none
  CorpusBoxes,       \* what a box starts from, and how many commands it is asked
  MaxMoves,    \* bound on what the upstream, the release and the operator change
  MaxSlips     \* bound on the failures and interruptions

ASSUME CorpusShapes ==
  /\ Days \subseteq Nat \ {0} /\ Dates \subseteq Nat \ {0} /\ FirstCourts \subseteq Courts
  /\ MaxMoves \in Nat /\ MaxSlips \in Nat

VARIABLES
  today, served,  \* the date; the version the upstream serves of each snapshot, 0: none
  captured,       \* the date of the newest treatment capture in the checkout
  pipeline,       \* PIPELINE_VERSION of the checkout
  lockfiles,      \* corpus/lockfiles/ of the checkout
  broken,         \* which of its files does not parse: none, court-map or lockfile
  labelRows,      \* corpus_lockfiles and lockfile_sources
  held,           \* /data/snapshots: the version held of each snapshot, 0: none
  work,           \* the labels with a staged work directory
  queued, lost,   \* the worker's corpus jobs; of those waited for, the failed ones
  documents0,     \* the courts ingested: <<date, version, court, pipeline>>
  overruledRows,  \* the lists resolved: <<treatment date, caselaw date>>
  generations,    \* index_generations by inputs: state and whether its report is whole
  corpusCmd, installs, asks, moves, slips0

corpusVars == <<today, served, captured, pipeline, lockfiles, broken, labelRows, held, work, queued, lost,
                documents0, overruledRows, generations, corpusCmd, installs, asks, moves, slips0>>

NoLabel == [state |-> "none", at |-> 0, file |-> <<>>]
NoCmd == [op |-> "none", at |-> "idle", file |-> <<>>, date |-> 0, ver |-> 0, tr |-> 0,
          courts |-> {}, base |-> 0, newest |-> <<>>]

World0 == <<today, served, captured, pipeline, broken, moves, asks>>
Asked  == <<today, served, captured, pipeline, broken, moves>>
Store0 == <<held, work, queued, lost, documents0, overruledRows>>
Rows1  == <<labelRows, installs>>

Put0(c) == corpusCmd' = c
Goto(stage) == Put0([corpusCmd EXCEPT !.at = stage])
_refuse == Put0(NoCmd)
In(op, stage) == corpusCmd.op = op /\ corpusCmd.at = stage
Slip0 == slips0 > 0 /\ slips0' = slips0 - 1

\* The directory's newest lockfile, or none.
newest == IF lockfiles = {} THEN <<>> ELSE CHOOSE f \in lockfiles : \A g \in lockfiles : g.label <= f.label
Recorded(l) == l \in Days /\ labelRows[l].state # "none"
Served == {d \in Dates : served[d] # 0}
Caselaw(d) == <<"caselaw", d>>
Capture(d) == <<"treatment", d>>
SnapshotDirs == ({"caselaw"} \X Dates) \cup ({"treatment"} \X (Days \cup {0}))
Pinned(f) == {Caselaw(f.date), Capture(f.tr)}

-----------------------------------------------------------------------------
(* The record's statements. *)

\* _SQL_EXISTING_LABEL and the snapshot loops: what was recorded is never changed.
LabelConflict(f) == Recorded(f.label) /\ labelRows[f.label].file # f
SnapshotConflict(f) ==
  \E l \in Days : Recorded(l) /\ labelRows[l].file.date = f.date /\ labelRows[l].file.ver # f.ver
SnapshotKnown(f) == \E l \in Days : Recorded(l) /\ labelRows[l].file.date = f.date

\* The row a write leaves: inserted as cut when it is new.
Inserted(f) == IF Recorded(f.label) THEN labelRows
               ELSE [labelRows EXCEPT ![f.label] = [state |-> "cut", at |-> 0, file |-> f]]

CutAllowed(f) == ~LabelConflict(f) /\ ~SnapshotConflict(f)

DerivedAllowed(f) == CutAllowed(f) /\ SnapshotKnown(f) /\ (f.base = 0 \/ Recorded(f.base))

InstallAllowed(f) == CutAllowed(f) /\ labelRows[f.label].state # "superseded"

\* Labels sort by their date; a later label is left for its own install.
Supersedes(l, r) == r.file.label < l /\ r.state \in {"installing", "installed"}

\* The installed move and what it supersedes are one transaction.
WritesInstalled(l) ==
  /\ labelRows[l].state \in {"installing", "installed"}
  /\ installs' = IF labelRows[l].state = "installing" THEN installs + 1 ELSE installs
  /\ labelRows' = [k \in Days |->
       IF k = l THEN [labelRows[l] EXCEPT !.state = "installed",
                                          !.at = IF labelRows[l].state = "installing" THEN installs + 1 ELSE @]
       ELSE IF Recorded(k) /\ Supersedes(l, labelRows[k])
            THEN [labelRows[k] EXCEPT !.state = "superseded"] ELSE labelRows[k]]

-----------------------------------------------------------------------------
(* corpus cut. *)

\* The court map and every lockfile are parsed before a command does anything.
load_court_map == broken # "court-map"
load_lockfile  == broken # "lockfile"
load_artifacts == load_court_map /\ load_lockfile

\* The corpus lock.
CorpusFree == corpusCmd = NoCmd

\* A derived cut names a base whose committed lockfile is the recorded one.
DerivedFrom(f) == Recorded(f.label) /\ labelRows[f.label].file = f

\* A full cut, one of a selection of courts, or one derived from a base.
CutStarts ==
  /\ CorpusFree /\ load_artifacts /\ asks > 0 /\ asks' = asks - 1
  /\ \/ \E s \in Selections :
          Put0([NoCmd EXCEPT !.op = "cut", !.at = "resolve", !.courts = s, !.newest = newest])
     \/ \E f \in lockfiles : \E c \in Courts \ f.courts :
          /\ DerivedFrom(f)
          /\ Put0([NoCmd EXCEPT !.op = "derive", !.at = "lockfile", !.file = f, !.courts = {c}, !.newest = newest])
  /\ UNCHANGED <<Asked, lockfiles, Rows1, Store0, generations, slips0>>

PreviousDate(n) == IF n = <<>> THEN 0 ELSE n.tr

\* The upstream's newest snapshot and the newest capture, neither older than is pinned.
CutResolves ==
  /\ In("cut", "resolve")
  /\ IF Served = {} \/ captured < PreviousDate(corpusCmd.newest) \/ captured < Max(Served)
     THEN _refuse
     ELSE Put0([corpusCmd EXCEPT !.at = "fetch", !.date = Max(Served), !.tr = captured])
  /\ UNCHANGED <<World0, lockfiles, Rows1, Store0, generations, slips0>>

\* Jobs under one lock run in order and do nothing twice, so a job deferred again is the
\* one job.
Enqueues(set) == queued' = queued \cup set /\ lost' = {}

\* A whole record is kept; what is absent is deferred, the capture seeded.
Fetches(date, tr, next) ==
  /\ IF held[Caselaw(date)] # 0
     THEN /\ held' = [held EXCEPT ![Capture(tr)] = 1] /\ Goto(next) /\ UNCHANGED <<queued, lost>>
     ELSE /\ Enqueues({<<"fetch", date>>})
          /\ held' = [held EXCEPT ![Capture(tr)] = 1] /\ Goto("fetch-wait")
  /\ UNCHANGED <<work, documents0, overruledRows>>

\* A deferred transfer ends.
FetchWaits(date, next) ==
  /\ <<"fetch", date>> \notin queued /\ lost' = {}
  /\ IF lost # {} THEN _refuse ELSE Goto(next)
  /\ UNCHANGED <<held, work, queued, documents0, overruledRows>>

CutFetches ==
  /\ In("cut", "fetch") /\ Fetches(corpusCmd.date, corpusCmd.tr, "verify")
  /\ UNCHANGED <<World0, lockfiles, Rows1, generations, slips0>>

CutFetchWaits ==
  /\ In("cut", "fetch-wait") /\ FetchWaits(corpusCmd.date, "verify")
  /\ UNCHANGED <<World0, lockfiles, Rows1, generations, slips0>>

\* The bytes held, compared with the newest lockfile's pin of the same date.
CutVerified(n, date) ==
  held[Caselaw(date)] # 0 /\ (n = <<>> \/ (n.date = date => n.ver = held[Caselaw(date)]))

CutVerifies ==
  /\ In("cut", "verify")
  /\ IF CutVerified(corpusCmd.newest, corpusCmd.date)
     THEN Put0([corpusCmd EXCEPT !.at = "lockfile", !.ver = held[Caselaw(corpusCmd.date)]]) ELSE _refuse
  /\ UNCHANGED <<World0, lockfiles, Rows1, Store0, generations, slips0>>

\* A full cut keeps the newest lockfile's courts unless a selection names others.
_full_candidate(c) ==
  [label |-> today, pipeline |-> pipeline, date |-> c.date, ver |-> c.ver, tr |-> c.tr, base |-> 0,
   courts |-> IF c.courts # {} THEN c.courts ELSE IF c.newest = <<>> THEN FirstCourts ELSE c.newest.courts]

_derived_candidate(c) ==
  [c.file EXCEPT !.label = today, !.pipeline = pipeline, !.base = c.file.label, !.courts = @ \cup c.courts]

\* The state a cut pins, its label left out.
same_state(f, g) == g # <<>> /\ [f EXCEPT !.label = 0, !.base = 0] = [g EXCEPT !.label = 0, !.base = 0]

\* An unchanged state writes nothing; a label with a lockfile or a row is refused.  The
\* YAML is the last file written, and the lockfile exists with it.
_write_lockfile(f) ==
  \/ /\ same_state(f, corpusCmd.newest)
     /\ Goto("record") /\ UNCHANGED lockfiles
  \/ /\ ~same_state(f, corpusCmd.newest)
     /\ \/ /\ Recorded(f.label) \/ \E g \in lockfiles : g.label = f.label
           /\ _refuse /\ UNCHANGED lockfiles
        \/ /\ ~Recorded(f.label) /\ \A g \in lockfiles : g.label # f.label
           /\ lockfiles' = lockfiles \cup {f}
           /\ Goto("record")

CutWrites ==
  /\ corpusCmd.op \in {"cut", "derive"} /\ corpusCmd.at = "lockfile"
  /\ _write_lockfile(IF corpusCmd.op = "cut" THEN _full_candidate(corpusCmd) ELSE _derived_candidate(corpusCmd))
  /\ UNCHANGED <<World0, Rows1, Store0, generations, slips0>>

\* The newest lockfile of the directory is recorded, as it was read back.
_record_stage ==
  /\ corpusCmd.op \in {"cut", "derive"} /\ corpusCmd.at = "record" /\ _refuse
  /\ labelRows' = IF (IF corpusCmd.op = "cut" THEN CutAllowed(newest) ELSE DerivedAllowed(newest))
                  THEN Inserted(newest) ELSE labelRows
  /\ UNCHANGED <<World0, lockfiles, installs, Store0, generations, slips0>>

-----------------------------------------------------------------------------
(* corpus install. *)

\* What a generation of a label is built from: the label itself is no part of it.
inputs_hash(f) == [date |-> f.date, ver |-> f.ver, courts |-> f.courts, pipeline |-> f.pipeline]

\* A committed label that is not superseded, its base recorded on this box.
InstallStarts ==
  /\ CorpusFree /\ load_artifacts /\ asks > 0 /\ asks' = asks - 1
  /\ \E f \in lockfiles :
       /\ labelRows[f.label].state # "superseded" /\ (f.base = 0 \/ Recorded(f.base))
       /\ Put0([NoCmd EXCEPT !.op = "install", !.at = "fetch", !.file = f])
  /\ UNCHANGED <<Asked, lockfiles, Rows1, Store0, generations, slips0>>

F == corpusCmd.file

InstallFetches ==
  /\ In("install", "fetch") /\ Fetches(F.date, F.tr, "verify")
  /\ UNCHANGED <<World0, lockfiles, Rows1, generations, slips0>>

InstallFetchWaits ==
  /\ In("install", "fetch-wait") /\ FetchWaits(F.date, "verify")
  /\ UNCHANGED <<World0, lockfiles, Rows1, generations, slips0>>

\* Every file's digest and size are the sidecar's.
PinHeld(f) == held[Caselaw(f.date)] = f.ver /\ held[Capture(f.tr)] # 0

InstallVerifies ==
  /\ In("install", "verify") /\ IF PinHeld(F) THEN Goto("record") ELSE _refuse
  /\ UNCHANGED <<World0, lockfiles, Rows1, Store0, generations, slips0>>

\* Mutant: an installing label skips the stages too.
InstallRecordsResuming ==
  /\ In("install", "record")
  /\ IF InstallAllowed(F)
     THEN /\ labelRows' = [Inserted(F) EXCEPT ![F.label].state = IF @ = "cut" THEN "installing" ELSE @]
          /\ Goto(IF labelRows[F.label].state \in {"installing", "installed"} THEN "collections" ELSE "stage")
     ELSE _refuse /\ UNCHANGED labelRows
  /\ UNCHANGED <<World0, lockfiles, installs, Store0, generations, slips0>>

\* An installed label skips the worker's stages.
InstallRecords ==
  /\ In("install", "record")
  /\ IF InstallAllowed(F)
     THEN /\ labelRows' = [Inserted(F) EXCEPT ![F.label].state = IF @ = "cut" THEN "installing" ELSE @]
          /\ Goto(IF labelRows[F.label].state = "installed" THEN "collections" ELSE "stage")
     ELSE _refuse /\ UNCHANGED labelRows
  /\ UNCHANGED <<World0, lockfiles, installs, Store0, generations, slips0>>

StageJob(f) == <<"stage", f.label>>
IngestJobs(f) == {<<"ingest", f.label, c>> : c \in f.courts}
OverruledJob(f) == <<"overruled", f.label>>
AgreementJobs(f) == {<<"agreement", f.label, c>> : c \in f.courts}

\* A stage defers its jobs.
Defers(stage, set) ==
  /\ In("install", stage) /\ Enqueues(set) /\ Goto(stage \o "-wait")
  /\ UNCHANGED <<World0, lockfiles, Rows1, held, work, documents0, overruledRows, generations, slips0>>

Passes1(stage, next) ==
  /\ In("install", stage) /\ IF next = "none" THEN _refuse ELSE Goto(next)
  /\ UNCHANGED <<World0, lockfiles, Rows1, Store0, generations, slips0>>

\* An existing stage record stands in for the stage job; the later stages read it again.
_stage     == In("install", "stage") /\ IF F.label \in work THEN Passes1("stage", "ingest") ELSE Defers("stage", {StageJob(F)})
_ingest    == In("install", "ingest") /\ IF F.label \in work THEN Defers("ingest", IngestJobs(F)) ELSE Passes1("ingest", "none")
_overruled == In("install", "overruled") /\ IF F.label \in work /\ Scotus \in F.courts THEN Defers("overruled", {OverruledJob(F)})
              ELSE Passes1("overruled", "none")
_agreement == In("install", "agreement") /\ IF F.label \in work THEN Defers("agreement", AgreementJobs(F)) ELSE Passes1("agreement", "none")

\* The counts read back: every staged opinion has its rows under the label's pipeline.
Ingested(f) == \A c \in f.courts : <<f.date, f.ver, c, f.pipeline>> \in documents0

\* The jobs are over: the next stage, or a refusal.
Waits(stage, set, fine, next) ==
  /\ In("install", stage \o "-wait") /\ set \cap queued = {} /\ lost' = {}
  /\ IF fine /\ lost = {} THEN Goto(next) ELSE _refuse
  /\ UNCHANGED <<World0, lockfiles, Rows1, held, work, queued, documents0, overruledRows, generations, slips0>>

StageOver     == In("install", "stage-wait") /\ Waits("stage", {StageJob(F)}, F.label \in work, "ingest")
IngestOver    == In("install", "ingest-wait") /\ Waits("ingest", IngestJobs(F), Ingested(F), "overruled")
OverruledOver == In("install", "overruled-wait") /\ Waits("overruled", {OverruledJob(F)}, <<F.tr, F.date>> \in overruledRows, "agreement")
AgreementOver == In("install", "agreement-wait") /\ Waits("agreement", AgreementJobs(F), TRUE, "collections")

NoGen == [state |-> "none", report |-> FALSE]
Gen(f) == IF inputs_hash(f) \in DOMAIN generations THEN generations[inputs_hash(f)] ELSE NoGen

\* Unchanged, to finish, to build, or retired: a retired generation is not rebuilt.
_collections ==
  /\ In("install", "collections")
  /\ IF Gen(F).state = "retired" THEN _refuse
     ELSE Goto(IF Gen(F).state \in {"none", "building", "failed"} THEN "build"
               ELSE IF Gen(F).state = "built" /\ ~Gen(F).report THEN "finish" ELSE "installed")
  /\ UNCHANGED <<World0, lockfiles, Rows1, Store0, generations, slips0>>

SetGen(state, whole) ==
  generations' = [i \in DOMAIN generations \cup {inputs_hash(F)} |->
                    IF i = inputs_hash(F) THEN [state |-> state, report |-> whole] ELSE generations[i]]

\* The row is written as building, then built; it may have been retired meanwhile.
Builds ==
  /\ In("install", "build")
  /\ \/ Gen(F).state \in {"none", "failed"} /\ SetGen("building", FALSE) /\ UNCHANGED <<corpusCmd, slips0>>
     \/ Gen(F).state = "building" /\ SetGen("built", FALSE) /\ Goto("finish") /\ UNCHANGED slips0
     \/ Gen(F).state = "building" /\ Slip0 /\ SetGen("failed", FALSE) /\ _refuse
     \/ Gen(F).state = "retired" /\ _refuse /\ UNCHANGED <<generations, slips0>>
  /\ UNCHANGED <<World0, lockfiles, Rows1, Store0>>

\* Treatment and the report.
finish_generation ==
  /\ In("install", "finish")
  /\ \/ Gen(F).state \in {"built", "live"} /\ SetGen(Gen(F).state, TRUE) /\ Goto("installed")
     \/ Gen(F).state = "retired" /\ _refuse /\ UNCHANGED generations
  /\ UNCHANGED <<World0, lockfiles, Rows1, Store0, slips0>>

_installed ==
  /\ In("install", "installed")
  /\ IF Gen(F).state \in {"built", "live"} /\ labelRows[F.label].state \in {"installing", "installed"}
     THEN WritesInstalled(F.label) /\ Goto("clean")
     ELSE _refuse /\ UNCHANGED <<labelRows, installs>>
  /\ UNCHANGED <<World0, lockfiles, Store0, generations, slips0>>

_clean ==
  /\ In("install", "clean") /\ work' = work \ {F.label} /\ Goto("retain")
  /\ UNCHANGED <<World0, lockfiles, Rows1, held, queued, lost, documents0, overruledRows, generations, slips0>>

Superseded == {l \in Days : labelRows[l].state = "superseded" /\ labelRows[l].at > 0}

\* The superseded label that was installed last.
PreviousLabel == {l \in Superseded : \A k \in Superseded : labelRows[k].at <= labelRows[l].at}

Live0 == {"cut", "installing", "installed"}

\* A snapshot only older superseded labels pin is removed; one nothing pins is left.
Removable(x) ==
  LET pinning == {l \in Days : Recorded(l) /\ x \in Pinned(labelRows[l].file)}
  IN  pinning # {} /\ \A l \in pinning : labelRows[l].state \notin Live0 /\ l \notin PreviousLabel

\* One directory after another.
_retain ==
  /\ In("install", "retain")
  /\ LET gone == {x \in SnapshotDirs : held[x] # 0 /\ Removable(x)}
     IN  IF gone = {} THEN _refuse /\ UNCHANGED held
         ELSE \E x \in gone : held' = [held EXCEPT ![x] = 0] /\ UNCHANGED corpusCmd
  /\ UNCHANGED <<World0, lockfiles, Rows1, work, queued, lost, documents0, overruledRows, generations, slips0>>

-----------------------------------------------------------------------------
(* The command's other ends. *)

\* A stage fails, or the operator interrupts it.
CorpusStops ==
  /\ corpusCmd # NoCmd /\ Slip0 /\ _refuse /\ lost' = {}
  /\ UNCHANGED <<World0, lockfiles, Rows1, held, work, queued, documents0, overruledRows, generations>>

-----------------------------------------------------------------------------
(* The worker's jobs, what they need and what they leave. *)

Jobs == ({"fetch"} \X Dates) \cup ({"stage", "overruled"} \X Days)
          \cup ({"ingest", "agreement"} \X Days \X Courts)

LockfileOf(l) == CHOOSE f \in lockfiles : f.label = l

JobReady(j) ==
  CASE j[1] = "fetch"     -> held[Caselaw(j[2])] # 0 \/ served[j[2]] # 0
    [] j[1] = "stage"     -> j[2] \in work \/ PinHeld(LockfileOf(j[2]))
    [] j[1] = "ingest"    -> j[2] \in work
    [] j[1] = "overruled" -> j[2] \in work /\ held[Capture(LockfileOf(j[2]).tr)] # 0
    [] j[1] = "agreement" -> j[2] \in work /\ PinHeld(LockfileOf(j[2]))

\* A fetch never writes over a whole file.
JobLeaves(j) ==
  LET f == LockfileOf(j[2])
  IN  /\ held' = IF j[1] = "fetch" /\ held[Caselaw(j[2])] = 0
                 THEN [held EXCEPT ![Caselaw(j[2])] = served[j[2]]] ELSE held
      /\ work' = IF j[1] = "stage" THEN work \cup {j[2]} ELSE work
      /\ documents0' = IF j[1] = "ingest" THEN documents0 \cup {<<f.date, f.ver, j[3], f.pipeline>>}
                       ELSE documents0
      /\ overruledRows' = IF j[1] = "overruled" THEN overruledRows \cup {<<f.tr, f.date>>} ELSE overruledRows

WorkerRuns(j) ==
  /\ j \in queued /\ queued' = queued \ {j}
  /\ \/ JobReady(j) /\ JobLeaves(j) /\ UNCHANGED <<lost, slips0>>
     \/ /\ \/ ~JobReady(j) /\ UNCHANGED slips0
           \/ JobReady(j) /\ Slip0
        /\ lost' = IF corpusCmd = NoCmd THEN {} ELSE lost \cup {j}
        /\ UNCHANGED <<held, work, documents0, overruledRows>>
  /\ UNCHANGED <<World0, lockfiles, Rows1, generations, corpusCmd>>

-----------------------------------------------------------------------------
(* What happens around the commands. *)

Inputs == DOMAIN generations
Move == moves > 0 /\ moves' = moves - 1

\* The day passes, with the operator saving the treatment page or not.
DayPasses ==
  /\ Move /\ today + 1 \in Days /\ today' = today + 1
  /\ captured' \in {captured, today + 1}
  /\ UNCHANGED <<served, pipeline, broken, lockfiles, Rows1, Store0, generations, corpusCmd, asks, slips0>>

\* The upstream publishes its next snapshot, serves other bytes under a date, or
\* withdraws one.
UpstreamMoves ==
  /\ Move
  /\ \E d \in Dates, v \in 0..2 :
       /\ \/ served[d] = 0 /\ v = 1 /\ d <= today
          \/ served[d] = 1 /\ v \in {0, 2}
       /\ served' = [served EXCEPT ![d] = v]
  /\ UNCHANGED <<today, captured, pipeline, broken, lockfiles, Rows1, Store0, generations, corpusCmd, asks, slips0>>

\* An upgrade brings another pipeline version.
Upgrades ==
  /\ Move /\ corpusCmd = NoCmd /\ pipeline + 1 \in Releases0 /\ pipeline' = pipeline + 1
  /\ UNCHANGED <<today, served, captured, broken, lockfiles, Rows1, Store0, generations, corpusCmd, asks, slips0>>

\* index promote and index retire, in any order with the commands.
Promotes ==
  /\ Move
  /\ \E i \in Inputs : generations[i].state = "built" /\
       generations' = [k \in Inputs |-> IF k = i THEN [generations[k] EXCEPT !.state = "live"]
                       ELSE IF generations[k].state = "live" THEN [generations[k] EXCEPT !.state = "retired"]
                       ELSE generations[k]]
  /\ UNCHANGED <<today, served, captured, pipeline, broken, lockfiles, Rows1, Store0, corpusCmd, asks, slips0>>

Retires ==
  /\ Move
  /\ \E i \in Inputs : generations[i].state \in {"building", "built", "failed"} /\
       generations' = [generations EXCEPT ![i].state = "retired"]
  /\ UNCHANGED <<today, served, captured, pipeline, broken, lockfiles, Rows1, Store0, corpusCmd, asks, slips0>>

\* The checkout is edited, for worse or for better.
CheckoutEdited ==
  /\ corpusCmd = NoCmd /\ Move /\ broken' \in {"none", "court-map", "lockfile"} \ {broken}
  /\ UNCHANGED <<today, served, captured, pipeline, lockfiles, Rows1, Store0, generations, corpusCmd, asks, slips0>>

\* A file that disagrees with a pin is removed with its record, as the refusal says.
OperatorRemoves ==
  /\ corpusCmd = NoCmd /\ Move
  /\ \E f \in lockfiles : /\ labelRows[f.label].state # "superseded"
                          /\ held[Caselaw(f.date)] \notin {0, f.ver}
                          /\ held' = [held EXCEPT ![Caselaw(f.date)] = 0]
  /\ UNCHANGED <<today, served, captured, pipeline, broken, lockfiles, Rows1, work, queued, lost, documents0, overruledRows,
                 generations, corpusCmd, asks, slips0>>

CorpusInit ==
  /\ \E b \in CorpusBoxes : lockfiles = b.lockfiles /\ today = b.today /\ served = b.served /\ asks = b.asks
  /\ captured = today /\ pipeline = 1 /\ broken = "none"
  /\ labelRows = [l \in Days |-> NoLabel] /\ held = [x \in SnapshotDirs |-> 0] /\ work = {}
  /\ queued = {} /\ lost = {} /\ documents0 = {} /\ overruledRows = {} /\ generations = <<>>
  /\ corpusCmd = NoCmd /\ installs = 0 /\ moves = MaxMoves /\ slips0 = MaxSlips

CommandStep ==
  \/ CutResolves \/ CutFetches \/ CutFetchWaits \/ CutVerifies \/ CutWrites \/ _record_stage
  \/ InstallFetches \/ InstallFetchWaits \/ InstallVerifies \/ InstallRecords
  \/ _stage \/ _ingest \/ _overruled \/ _agreement
  \/ StageOver \/ IngestOver \/ OverruledOver \/ AgreementOver
  \/ _collections \/ Builds \/ finish_generation \/ _installed \/ _clean \/ _retain

CorpusNext ==
  \/ CutStarts \/ InstallStarts \/ CommandStep \/ CorpusStops
  \/ \E j \in queued : WorkerRuns(j)
  \/ DayPasses \/ UpstreamMoves \/ Upgrades \/ Promotes \/ Retires \/ OperatorRemoves
  \/ CheckoutEdited

\* The command runs on and the worker runs what is queued.
CorpusFairness == WF_corpusVars(CommandStep) /\ \A j \in Jobs : WF_corpusVars(WorkerRuns(j))

CorpusSpec == CorpusInit /\ [][CorpusNext]_corpusVars /\ CorpusFairness

-----------------------------------------------------------------------------
(* Properties. *)

\* The snapshots of every installed label, and of the one installed before, are on the
\* box with the bytes the label pins, whatever order labels were installed in, whatever
\* the upstream serves by now and wherever an install was stopped.
SnapshotsKept ==
  LET superseded == {l \in Days : labelRows[l].state = "superseded"}
      last == {l \in superseded : \A k \in superseded : labelRows[k].at <= labelRows[l].at}
  IN  \A l \in Days : LET f == labelRows[l].file IN
        labelRows[l].state = "installed" \/ (l \in last /\ labelRows[l].at > 0)
          => held[Caselaw(f.date)] = f.ver /\ held[Capture(f.tr)] # 0

\* A label that stands installed has its opinions ingested under its own pipeline, its
\* known-overruled list resolved, and a generation of its inputs.
InstalledWhole ==
  \A l \in Days : LET f == labelRows[l].file IN
    labelRows[l].state = "installed" =>
      /\ \A c \in f.courts : <<f.date, f.ver, c, f.pipeline>> \in documents0
      /\ <<f.tr, f.date>> \in overruledRows
      /\ Gen(f).state \notin {"none", "building", "failed"}

\* What the record says a label pins is what its committed lockfile pins, and no two
\* labels pin one snapshot date with different bytes.
RecordAgrees ==
  /\ \A l \in Days : Recorded(l) => labelRows[l].file \in lockfiles
  /\ \A f, g \in lockfiles : Recorded(f.label) /\ Recorded(g.label) /\ f.date = g.date => f.ver = g.ver

\* The labels and what they stand for agree: snapshots on the box, opinions and generations
\* behind every installed label, pins as committed.
LabelsSound == SnapshotsKept /\ InstalledWhole /\ RecordAgrees

\* "make a new lockfile with `gideon corpus cut` and install it": a lockfile that a cut
\* adds to the record can be built on this box; its generation is not a retired one.
RetiredRecovers ==
  [][\A l \in Days : ~Recorded(l) /\ corpusCmd.op = "cut" /\ labelRows'[l].state # "none"
                       => Gen(labelRows'[l].file).state # "retired"]_corpusVars
=============================================================================
