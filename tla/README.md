# GIDEON: a TLA+ verification project

GIDEON runs a private legal assistant on one server: an installer and
administrator (`gideon/host`), a chat assistant whose answers pass a guardrail
(`gideon/api`, `gideon/guardrail`), a caselaw corpus with search indexes built by
a worker (`gideon/worker`), backups and restores, an evaluation harness, and the
services around them. This directory holds TLA+ models of its stateful parts, the
TLC configurations that check them on small instances, and TLAPS proofs.

`PROJECT.json` lists the components, the runs, the mutants that show each property
can fail, the source lines behind each definition, the findings, the hazards and
the theorems. Paths below are relative to `src/`; where a file is named without a
directory it is under `gideon/host/`.

## Inventory

| Component | State | Operations | What is hard | What makes it correct |
|---|---|---|---|---|
| Index generations (`gideon/host/index`) | rows of `index_generations`, OpenSearch indexes and Qdrant collections, two aliases | build, promote, retire, gc, level | commands and jobs write the same row; an interrupted promote; a turn still reads what gc drops | one live row; rows the table's CHECKs accept; built means whole; nothing in use is dropped |
| Worker index jobs (`gideon/worker/lexical.py`, `dense.py`, `tasks.py`) | a job row, an advisory lock, half stamps | start, fill, finish, fail, stalled retry | overlapping and dying executions, limited fills | a late execution changes no settled row; every job ends |
| Stage and caselaw jobs (`gideon/worker/staging.py`, `caselaw.py`) | staged tables, document rows, stored texts | stage, ingest, backfill | a worker killed by one opinion; rows an older release or pipeline left | an ingest that succeeds is whole under its pipeline; a poisonous opinion is set aside |
| Fetch job (`gideon/worker/fetch.py`) | a partial file, a record, a file lock | stream, checkpoint, resume, publish | an upstream that changes; a stalled execution beside its retry; power loss | a file recorded whole is one version, whole |
| Corpus jobs (`gideon/worker/agreement.py`, `overruled.py`) | the shared citation map, figures, failure files | split, compare, resolve | two executions on one directory | a figure the host reports comes from a whole map |
| Corpus commands (`gideon/host/corpus`) | lockfiles, label rows, snapshots | cut, derived cut, install, retention | an interrupted install; one label superseding another | an installed label's data is held and is what its lockfile names |
| Model store (`weights.py`, `archive.py`) | snapshots, blobs, `pulls.yaml`; the archive | pull, converge, prune, rotate, release, push | a killed pull; blobs two snapshots share | what the journal names is whole; nothing unnamed stays |
| Engine verification (`engine.py`) | rows, chats, one audit row | every check | a prompt sized against a moving count; a killed command | a passing row rests on clean checks |
| Box locks (`backuplock.py`, `sysio.py`) | a flock and the holder's record in one file | take, claim, nested claim, release | flock, truncate and write are separate steps | commands of two processes exclude each other; a nested one passes |
| Secrets and rotation (`secrets.py`, `rotate.py`) | secret files and the services' copies | generate, rotate | two copies changed in two steps | a rotation that ends has reached every holder |
| Users (`users.py`) | directory groups, accounts, audit rows | reconcile | accounts that change meanwhile; a kill between update and row | at most one correction is in doubt; roles follow the groups |
| Retention (`retention.py`) | chats, uploads, audit rows | sweep | users name files while it deletes | a named upload is spared; what was deleted was told |
| Releases (`upgrade.py`, `apply.py`, `render/`, `install.py`) | checkout, rendered files, applied record, containers, rollback record | install, apply, upgrade, rollback | failure between any two stages, then another command | a way back exists; a rollback that ends leaves one release's code and data |
| Provisioning (`provision.py`, `steps/`, `checks/`, `preflight.py`, `uninstall.py`) | what holds on the machine, daemons that still run old text | provision, preflight, uninstall | interruption between a file and its daemon's restart | data survives; the stack runs behind its firewall; re-running converges |
| Guardrail (`gideon/guardrail`) | text, released and decided positions, held constraints | append, finish | a pattern may match across deltas; a release cannot be taken back | no protected figure is released; exemptions keep their context |
| General's service (`gideon/api`) | one request's mechanics, its payloads, the engine's response | each engine event, each end, disconnect | failure and disconnect at any await | the reader's stream is well formed and never leaks; the engine is always closed |
| Backup sets (`backup.py`, `backupset.py`, `backuproots.py`, `pgbackrest.py`) | sets and one copy of the object store in staging, the pgBackRest repository, snapshots on the target | run, push, prune, expire | services write while the run copies; a crash at any stage; sets share the copy and the repository | a complete set can be recovered to its boundary with the objects its rows name; prune keeps what a kept set needs |
| Restore (`restore.py`) | the box itself, a fetched and a replaced staging directory | select, pre-restore, fetch, verify, stop, swap, files, postgres, stores | timelines earlier restores left; part-way failure; a rebuilt box | what cannot be recovered is refused while the stack serves; rows find their objects; a safety set survives |
| Evaluation (`gideon/evaluation`) | a set, rows of runs, the committed reference | run, reference | the clock passing a window; a kill; a restore of older rows | a passing row covers what it says; the reference never slackens |
| Live-turn harness (`gideon/evaluation/turns`) | sessions, turns in flight, chats | run, stop | a signal at any moment; a chat not yet named | every chat is deleted or named; the run ends |
| Improvement (`gideon/improvement`) | ratings, nights, a packet's files | proposals, candidates | pages that move while they are walked | what was rated before the walk is in it once |
| Drill, status, watch, TLS, LDAP, egress, images, extraction | nothing kept, or one file | | | see "Not modelled" |

Components interact through the Postgres record (index rows, label rows, document
rows, evaluation rows), the queue's job rows, the box locks (`corpus`, `backup`,
`engine`), the aliases a turn reads, the rendered files apply compares, and the
stores that backups snapshot and restores recover.

## Modules

| Module | Models |
|---|---|
| `GenerationRecord` | the SQL statements on one row: operators from row to row, with the table's CHECKs |
| `IndexGenerations` | commands, jobs, turns, backups and restores over the rows, the stores and the aliases |
| `CaselawIngest` | the stage and the caselaw job of one court |
| `SnapshotFetch` | the fetch job: two names over inodes, a record, a lock |
| `CorpusJobs` | the agreement and overruled jobs, and what the host reads of them |
| `CorpusLabels` | `corpus cut` and `corpus install` |
| `ModelStore` | `models pull` and `archive push` |
| `EngineVerify` | `engine verify` |
| `BoxLocks`, `LockPromise` | processes taking one lock, step by step; the abstract lock they implement |
| `Secrets` | generation, rotation of every class, and what the services hold |
| `Membership` | `users reconcile` |
| `Retention` | the sweep |
| `Proposals` | `proposals` and `eval candidates` |
| `Releases` | install, apply, upgrade, rollback |
| `Provisioning` | provision, preflight, uninstall |
| `EvaluationRuns` | `eval run` and `eval reference` |
| `TurnHarness` | the live-turn harness |
| `LagWindow` | one answer through the guardrail's window |
| `JudgedStream` | one completion through the relay; extends `LagWindow` |
| `BackupSets` | `backup run` and `backup push` over the object store, the cluster, staging and the target |
| `Restores` | `restore`, apply, and the lost box, over the sets; extends `BackupSets` |
| `MCIndexGenerations`, `MCRetirementHold` | instances: symmetry, starting boxes, the history of the hold |
| `MCJudgedStream`, `MCRestores`, `MCTurns` | instances: the answers and requests; a box after two nights; the drivers |
| `MCWorker`, `MCData` (with `MCCorpus`), `MCHost`, `MCShipping` | suites |
| `BoxLocksProofs`, `LagWindowProofs`, `JudgedStreamProofs` | theorems on one module each |
| `IndexGenerationsProofs` | theorems on `IndexGenerations` and `CaselawIngest`, the worker's two halves |
| `HostProofs` | theorems on `Membership`, `Retention` and `Secrets` |
| `DataProofs` | theorems on `CorpusJobs`, `ModelStore` and `SnapshotFetch` |
| `ReleasesProofs` | theorems on `Releases` |
| `RunsProofs` | theorems on `EvaluationRuns` and `TurnHarness` |

A suite checks components that keep no state in common in one run: its variable
`part` says which of them runs, and the others rest in an initial state. No
interleaving is lost by it, since no action of one component reads or writes a
variable of another. Where components do share state they are one module, or one
extends the other: rows, stores, jobs, turns and restores in `IndexGenerations`;
sets and restores in `Restores`; window and relay in `JudgedStream`; install, apply,
upgrade, rollback and the record of the restore in `Releases`.

### IndexGenerations and GenerationRecord

`rows` is the table, `store` what each half (the OpenSearch index, the Qdrant
collection) of a generation holds: absent, short or whole. `alias` is what each
store's alias names. Each host command is a process with a program counter whose
steps are the code's transactions and store calls; it takes the locks the code
takes, reads before it writes where the code does, and may be interrupted between
any two steps (`CommandStops`). Each half has a job with executions in slots: an
execution takes the generation's advisory lock or finds it busy, fills, and
finishes, fails, or dies with its worker; a stalled job is retried while its dead
execution's slot may still be running (a zombie, bounded by `MaxStalls`). A turn
picks the live generation and reads it for at most `Hold` ticks, which is the
retirement hold of gc. A backup snapshots the stores and then the record, in that
order; a restore puts both back, levels them and restarts the services.

`Stack` says whose generations these are. On the evaluations' sibling (`"ci"`) a
generation is a sample, which is built and filled again while it serves, a rejoined
job is followed by one of the command's own, promote, retire and gc refuse beside any
index job, and no backup, restore or install touches it. The engine lock the sibling's
commands take stands in the place of the corpus lock.

### The corpus: CaselawIngest, SnapshotFetch, CorpusJobs, CorpusLabels

`CaselawIngest` walks the staged opinions of a court. `documents` holds per opinion
the row's status, its attempts and the passes that have rows under each pipeline;
every committed transaction is a step, and the attempt is counted in a transaction
of its own before the parse, so that an opinion whose parse takes the worker down
(`Poison`) is set aside after `MaxAttempts`. The stage job writes its tables under a
partial name and renames them. Two executions compete for the file locks.

`SnapshotFetch` gives the two file names inodes, so that a rename, an unlink and a
write through an open descriptor differ. A block remembers the version of the object
it came from; what is not yet synced is lost with the power. The execution resumes
from the record, checks the upstream's etag and length where it offers them, retries
without progress at most `MaxFailures` times, and publishes the record and then the
file. `form` is whether the destination keeps its partial or starts afresh.

`CorpusJobs` has the citation map that the first agreement job splits for all courts,
the figures and failure files, and `told`, what the host made of each job. An
execution whose heartbeat stalled goes on beside its successor.

`CorpusLabels` has the label rows, the lockfiles of the checkout, the snapshots, the
staged data and the generations, which are found again by the inputs they were built
of. The upstream, the checkout's release and the date move between commands
(`MaxMoves`). A label is its day.

### ModelStore, EngineVerify, Secrets, Membership, Retention, Proposals

`ModelStore` has the journal `pulls.yaml`, the snapshot directories with their links
and the blobs, each absent, partial, bad or good. A pull takes no box lock; its claim
is the entry it writes.

`EngineVerify` sizes its long prompts by the code's rounds over an estimate of tokens
per block, validates structured answers against a small schema, drives the sample's
questions in chats it deletes, and writes one audit row last.

`Secrets` numbers the values drawn. A file, the containers created with it, the
rendered file that carries it and Grafana's stored password are separate copies; the
five classes of rotation change them in the code's order, `apply` generates what is
missing, and a failure or a kill may come between any two changes.

`Membership` puts each correction between an intent row and an applied row; the
directory and the accounts shift under the command. `Retention` lists, reads each
chat, deletes, and records, while users edit. `Proposals` walks the ratings page by
page while users rate, pools the challenger's nights, and writes the packet's page and
manifest.

### Releases

A release is a number, its content a number per service (`Content`), its rendered
files a set (`Artifacts`). Apply's stages (render with its manifest and foreign-file
refusal, secrets, the recreate judgement, the containers, the applied record) are
steps, and so are install's, upgrade's and rollback's. The rollback's record
`rollback.json` names the releases and the set, and is what a re-run resumes from.
`Reupgrade` lets an operator take an upgrade while such a record is still there; it
is off in `shipping` and on in the configuration of the finding. An `apply` under such
a record, which the code does not refuse either, is not taken in the model.

### Provisioning

What a step converges is a list of facts (`Recipe`), established in the order of its
apply; the step's check is its own operator where the code checks less, or something
else, than its apply establishes. `owed` has the daemons that still run what their
files said before, which no check reads. `outside` has what is not GIDEON's to change:
another platform, a stray fstab entry, a foreign mount, a missing token, a co-tenant, a
relay that refuses. `--only`, the runner's skips and halts, the reboot, the preflight
checks and the stages of uninstall are actions.

### EvaluationRuns and TurnHarness

A run validates its set (cases that supersede, vary, share a cluster, are held out),
claims the engine's lock, waits for its window, repeats, scores by an abstract outcome
per case, and records rows. A pass over a set from outside the release, or a slice that
reaches nothing on the box, ends well without a row. A reference is taken from a row
of any release whose tag names the row's commit, and may only tighten. A restore may
bring older rows back. `TurnHarness` has the registry of turns in flight
with each turn's chat named or not, the four drivers, the sessions, the stop's sweep with its bound,
and what an exit code says.

### BoxLocks

`file` is the record in the lock's file and `flock` its holder. Taking the lock is
three steps (flock, ftruncate, write) and reading another's record happens at any
time between them. A process may run a nested command that finds the lock taken and
reads its own record. Dying closes the descriptor and leaves the record.

### LagWindow and JudgedStream

An answer is a length and a set of forms: spans that a family's pattern matches,
each protected (`trip`), exempt with a context that must arrive, or excluded. A
greedy pattern may match a longer span later, so a form may be `gone` from a longer
text. `append`, `judge` and `finish` are the code's methods on the window; the
while loop is given by the point it ends at, and `LoopEnds` says it ends.
The non-overlap of successive matches in one scan is not modelled: a form is
matched whenever its span is in view.

`JudgedStream` adds the mechanics (progress line, settlement, error path) and the
relay (one send at a time, the engine closed before a refusal, the disconnect). The
engine is assumed to send no content after a finish reason.

### BackupSets and Restores

An object is stored before the row that names it commits; the cluster is a timeline
and a log of commits, each with its instant. `staging` holds the set directories,
the one copy of the object store that all sets share, and the pgBackRest repository:
backups, each with its timeline, its end and the full backup it rests on, and per
timeline the history file and the archived log. A run is the code's stages: copy,
backup (with pgBackRest's expiry after a nightly one), the boundary's instant, the
commit past it with the archive check, the second copy, the manifest and the rename,
the two prunes. Between any two of them services store and commit, and the process
may die. A push copies staging whole under a partial name, checks, renames, and
removes what is due until the deadline.

A restore selects a set or a snapshot, takes and pushes the safety set, fetches,
verifies, stops, swaps, puts objects back and recovers Postgres, which promotes to a
new timeline. `Recovers` is what Postgres needs for that: the backup, a target whose
history passes through the backup's end, and a commit archived past a time target.

Abstractions: one clock stands for days and for the instants within them, since only
order and retention distances are compared; the log is archived at a backup, a
boundary and a stop, so a snapshot never holds a log cut elsewhere; the removal of a
set by the run's prune may die half-way and leave its manifest without its files, or
its files without the manifest, while snapshots and the replaced staging go whole; the
file roots, the secrets and the index snapshots are left out (the
last are in `IndexGenerations`); after a swap the operator restores again before an
apply, as the restore's own fix line says. A cluster whose files were replaced, or
that is not the swapped repository's, is `NoCluster`: only a restore makes it usable.

## Runs

Several of the properties are conjunctions of named parts; each part has its own
comment beside its definition.

| Run | Properties | Shows |
|---|---|---|
| `index_worker` | `RecordSound` (`RowLegal`, `OneLive`), `BuiltWhole`, `TurnServed`, `PromoteOrdered` (`FlipGated`, `AliasFollowsRecord`), `RetiredStays` | the record, the stores, the aliases and the turns under every interleaving of three commands with overlapping, failing and crashing executions |
| `index_restore` | `GcSpares`, `LevelledWhole` | the same box with a backup and a restore: gc drops nothing named or brought back, no built or live row is short |
| `worker` | `IngestedWhole`, `BuildsSettle` (`JobsEnd`, `BuildEnds`), `LiveStands`, `CourtFills` | jobs end and builds report; what serves stands whole beside late executions and a sample's refills; an ingest that succeeds is whole; a court fills in spite of a poisonous opinion |
| `judged_stream` | `ReaderNoLeak`, `TripSound` (`TripEnds`, `ClosedBeforeRefusal`), `AnswerSound` (`TailRides`, `LineCloses`, `LabelLast`), `WindowSound` (`NoLeak`, `OpeningHeld`, `ContextWhole`, `LoopEnds`, `TripFounded`), `EveryRequestEnds` | every answer of up to eight characters with at most two forms in every cut; a request with every order of engine events, every end and every disconnect |
| `restores` | `SetsCovered` (`ListingsHeld`, `BoundaryCovered`, `BoundaryReached`), `StoppedReaches`, `RowsServed`, `WaysKept` (`TargetKept`, `SafetyKept`) | a run, two pushes and two restores of every kind on a box with two sets, with one mishap anywhere; of a set that outlives its own backup `SetsCovered` says only that its objects stay (`BackupExpiry.cfg`) |
| `data` | `StoreSound` (`NamedWhole`, `NothingLeaks`, `ArchiveHolds`), `FetchSound` (`WholeTrue`, `SucceededWhole`), `LabelsSound` (`SnapshotsKept`, `InstalledWhole`, `RecordAgrees`), `JobsSound` (`MapWhole`, `ToldTrue`) | what each record says the box holds is held, and whole |
| `host` | `VerifySound` (`LiveClean`, `NeedleSized`), `ReportSound` (`FeedbackWhole`, `PooledAlike`, `PacketWhole`), `SeededAgrees`, `RotationSound` (`RotationReaches`, `CarriersReached`, `PairRepaired`), `ReconcileSound` (`OneInDoubt`, `RolesFollow`), `SweepSound` (`NamedSpared`, `SweptTold`), `LocksSound` (`KeepsPromise`, `StaleWindow`, `NestedPasses`) | the operator's commands, each with a fault or a kill and the box changing under it |
| `shipping` | `BoxSound` (`WayBack`, `AppliedRuns`), `RollbackRestores`, `RollbackEnds`, `RowsTrusted` (`PassTrusted`, `PairsWhole`), `CommandsSound` (`RatchetKept`, `CommandEnds`) | three releases with two failures anywhere; runs and references with a torn write, a restore or a kill |
| `provision` | `BoxKept` (`DataSurvives`, `ShieldedStack`), `ProvisionSettles` | a build box provisioned, interrupted, edited, purged and provisioned again under each outside condition |
| `turns` | `RunSound` (`ChatsAccounted`, `CleanExit`), `RunEnds` | the harness with each driver, a failure, and a stop at any moment |
| `retired_recovers` | `RetiredRecovers` | finding, below |
| `stale_rollback` | `RollbackRestores` | finding, below |

**Bounds.** Two generations are the least that can be live in turn; two slots are
the least for an overlapping execution; three commands are build, promote and gc, or
build, retire and gc, around a serving generation; one crash, one failure and one
stalled execution each meet every step. `Hold` is in ticks; one tick past it is
enough for gc. `worker` has one generation, on production or as the sibling's sample,
from nothing or already serving, with two slots, two commands and two mishaps out of a
stop, a failure, a crash and a stall, so that a retried execution dies as well and a
stalled one writes into what serves; it has no turns, days, backups or restores, which
the two index runs have. Its court is of three opinions, one of them without legible
text and one poisonous, two workers, two attempts and two faults; the court starts
from nothing, from rows of three earlier releases, or from another pipeline's rows.
The window's bounds are the code's in miniature (match 2, look-ahead 2, exemption
reach 2, exclusion reach 1); eight characters let a form be matched, decided, held,
released and pass the floor. Four events are a progress line, text, a finish and one
event after it. `restores` starts after two nights, the second with `--full`, because
the shortest interesting history has two backups, one of them past the point a restore
goes back to; one more run, two pushes (one to be pruned by the other), two restores
(the second meets the timeline of the first) and one mishap follow; one object is
enough, since objects do not interact. Retention periods of one tick make every prune
and expiry happen; `Instants` leaves out the instants that every restore refuses.

In `data` the model store has two revisions of one repository that share a file and
a second repository, four pulls and one fault: a killed pull, its repetition, one that
prunes it and one more. The fetched object has three blocks with a checkpoint after
two, two versions, two executions and two troubles. The corpus has three days, two
upstream dates, two courts, two pipelines, two moves and one slip; the corpus jobs two
courts, three jobs (one court's twice), two executions and two stalls. In `host` three
processes take the lock twice each: a holder, a taker and a past holder. The other
commands have one fault or kill, which meets every step; five ratings in pages of two
make a page boundary move twice; four nights pool two; six secrets cover every class,
and two rotators overlap; three people, one without a principal name, in two runs; four
chats and three uploads of two accounts. `shipping` has three releases, so that an
upgrade's predecessor is itself an upgrade, four commands and two mishaps: a rollback
that fails twice. Three cases in two lists are the least for a case outside a list; the
requests cover every kind, a challenger, a set a person names and one the loader
refuses. In
`provision` one trouble meets every step of every recipe, with one outside condition
at a time. In `turns` one case and at most two sessions with two frames are enough for
a stop between any two steps of two turns. The proofs remove the bounds for the
properties they cover.

**Fairness.** Nothing is assumed of crashes, faults and operators unless said here.
`worker` assumes that the worker takes up a job that waits and an execution goes on
(weak), that the stalled-job task runs, since it is periodic (weak), that a polling
build goes on polling (weak), and that a court's jobs are started again and again,
since every install defers them anew (strong). `judged_stream` assumes that the
service's loop runs on, that a send completes or the caller disconnects, and that the
engine answers, ends or meets the client's read timeout. `shipping` assumes that a
running command goes on and the clock runs (weak), and, for the rollback's end alone,
that the operator follows the printed fix: runs the named command again, removes the
foreign file, provisions the host (strong, since a command in between disables each).
`provision` assumes the same of its operator: provision is begun again, the site file
written, the outside condition repaired, the box rebooted (strong); its steps go on
(weak). `turns` assumes that every session, the main thread, the sweep and the landing
of a sent chat go on (weak), each call being bounded by a timeout. `host`
and `data` check safety only and assume none.

**Deadlock** is checked on the two index runs. A lock's processes, a finished answer, a
finished request, and a box or a command at its bounds really stop, so the other runs
switch it off.

## Proofs

Every theorem rests on an inductive invariant, stronger than the property. The bounds
on commands, crashes and failures are constants of the specifications, so a theorem
holds for any of them.

* `IndexGenerationsProofs`, the record: `TypeOK`, `RowLegal`, `OneLive`, together
  `RecordSound`, and `RetiredStays`, for any generations and bounds. Type correctness
  carries the snapshots and the commands' read-ahead values; the stack is either one;
  the record's invariant is proved also of the snapshot a restore brings back, which is
  why it mentions it. One lemma per statement shows what it does to a row's legality and
  to the number of live rows.
* `IndexGenerationsProofs`, the stores: `GcSpares` and `LevelledWhole` always;
  `BuiltWhole`, `TurnServed`, `PromoteOrdered` and `LiveStands` up to the first restore.
  A restore puts
  back a record and stores that were read at different moments and keeps a stamp the
  stores need not honour (`RestoreLevel.cfg`), so after one the code does not
  promise these four; the runs that check them have no restores either. The
  invariant `ServedInv` says that a stamped or a filled half of a generation that is not
  retired is whole (a built row stamped in both halves would not say it alone: the stamp
  is set from what an execution filled steps before, while a stalled one may still be at
  work), that a turn's generation is live or retired for no longer than the turn lasts,
  that what promote checked still holds at its flip, and that what gc took up is retired
  and unnamed until it is dropped.
* `IndexGenerationsProofs`, the caselaw job: `IngestedWhole`, for any opinions, texts,
  number of workers, attempts and faults. `IngestInv` says that a job holds its court from
  the lock until it has closed a success; that in its walk every row behind the opinion it
  is at is settled under its pipeline and every row ahead is as it was read; that at the
  opinion the row differs from what was read only by what the job wrote itself; that the
  texts of a ready row are stored; and that the marks of a document, which name no
  pipeline, agree with its rows under each pipeline the labels ask for (`MarksAgree`). The
  last is what a backfill relies on, and it is asked of the rows an installation begins
  with (`HistoryKept`; `MCWorker` checks it of the run's). It rules out one history,
  sections from before the anchors where two pipelines are asked for, and there the
  property fails: `OlderPipeline.cfg` is the run (see Findings).
* `BoxLocksProofs`: for any set of processes and any number of takes `TypeOK`,
  `NestedPasses`, `StaleWindow`, and that the holders implement `LockPromise`,
  together `LocksSound`; with one take per process `Exclusion` of all commands, nested
  ones included. The invariant ties the flock, the record and the program counters: a
  record names the holder, or is empty, or is left by a process that is past its hold.
* `LagWindowProofs`: all the window's properties, together `WindowSound`, for any
  bounds with `Lag = MaxMatch + LookAhead` and `ExclReach <= LookAhead`, which is how
  `grammar.py` derives them. The invariant `Sound` says that what was released and what
  was decided stay behind the lag, that no undecided form begins before the release
  point, and that held, excluded and carried constraints do not contain it. It is
  stated so that it survives growth of the text, which gives the step for `append`;
  the loop's end point exists because a bounded set of free points has a greatest
  element (well-foundedness of `<` on the naturals).
* `JudgedStreamProofs`: `ReaderNoLeak`, `TripSound` and `AnswerSound` for any bounds, any
  answer and any number of engine events. It uses the window's `Sound` and lemmas. The
  invariant `StreamInv` is about `Out`, what the caller has received followed by what is
  queued: a send only moves the border inside `Out`, an event appends to it, and a caller
  who leaves keeps a beginning. It says that no text follows an ending, that the line is
  closed once and before the answer, that the label marks the end of a finished answer
  alone, that all that was released is in `Out`, and that the response is closed once a
  refusal is.
* `HostProofs`: `ReconcileSound` (`MemberInv`: intent, change and applied rows are
  nested sets for every run, the person in doubt is the one being written, and what an
  undisturbed run has read is the directory); `SweepSound` (`SweepInv`: what is
  protected was read before the first upload goes, and every chat gone and untouched is
  told or about to be); `SeededAgrees` and `RotationSound` (`SecretInv`: who holds the
  lock, how far a new value has come at each place, and that every key is paired from
  the end of the ensure stage on; `Agreeing`: which of the resets, writes and reads of
  seeded rotations are still to come; `Carried`: while the record holds a carried
  secret's value the carriers hold it). `SeededAgrees` speaks of the moments when no
  seeded rotation is under way and none has failed or died since one last began alone:
  of two that cross, the one that fails may leave the file and the stored password apart
  while the other ends well. `RotationSound` says of an apply that it reaches every
  carrier; the mounters it does not reach (see Findings). `SecretShapes` asks of the
  registry what `SECRET_REGISTRY` has: one seeded password, minted secrets that are
  reminted and neither mounted nor carried, a certificate for every key.
* `DataProofs`: `JobsSound` (`JobsInv`: who splits the map holds its lock and the partial
  directory is what it wrote, every file and row is one the host takes for valid, and a
  job is told of only what is its own), for finite tables
  without the cluster id 0 and courts whose names are not the lock names (`JobShapes`);
  two lemmas show that what `compare` counts and what `resolve` lists is valid for every
  table. And `StoreSound` (`StoreInv`: what the journal names is whole, a pull at work
  has the journal as it stands, nothing served retires, and every snapshot directory is
  covered by the journal until it is removed; `PushInv`: a push writes its row only for
  what the archive holds), for one process pulling at a
  time: two pulls may both load the journal before either saves it (see Findings), and
  `data` has one puller for the same reason.
  And `FetchSound`, for any object, checkpoint distance, upstream, failures, kills and
  losses of power, in two theorems. `FetchSoundHolds` takes one thing as given in every
  state: while the file is not there, one execution holds the partial its name leads to
  (`OneHolder`). `FetchInv` then says that a transfer's partial is its digest, all of one
  version, the entity tag's once there is one; that a partial record vouches for blocks of
  its tag's version, a whole record for the partial that only lacks its rename; and that a
  published file is its record's and durable. `TwoExecutionsSound` proves `OneHolder` for
  at most two executions, those that are going and those that ended counted together
  while killed ones are not (`MaxJobs <= 2`: a stalled job and its retry, killed and
  started again as often as may be), from `HoldInv`: until one has ended, whoever asked
  for a lock asked under the name the partial still has, or finds the lock taken. With
  three it is false, and so is `FetchSound`: the third opens and locks a new partial while
  the second locks the one whose name is gone (see Findings).
* `ReleasesProofs`: `WayBackHolds`, that a way back always exists, which is `BoxSound`'s
  first part, and `RollbackPutsBackHolds`, that a rollback which ends has put the data,
  the checkout, the rendered files and the applied record at the release of its set and,
  if it had to restore, the containers too. Both hold for any releases, contents and
  failures, of any history in which no upgrade renders under a rollback's record that
  says no restore is to come (`Overtakes`). Upgrades that begin, take sets, move the
  checkout and die under such a record are in, and whole upgrades under a record whose
  restore is still to come. What is left out is what the code does not survive:
  `StaleRollback.cfg` is that history, and there `RollbackRestores` fails. Two parts are
  only model-checked, because they are not true of all releases: `AppliedRuns`, and what
  the containers run after a rollback that needs no restore. With contents 1, 2, 1 and a
  failed apply in between a container of the middle release stays, since
  `recreate_judgment` compares with the applied record alone; TLC finds it when the
  constants have three such releases. The invariant `ReleaseInv` says at each place of
  upgrade, apply, restore and rollback which of checkout, rendered files, record and data
  have moved, that a set exists before anything of the new release runs, and that a
  rollback's record says how far its runs have come. A rollback never puts the box's
  identity back (`_rollback_identity_stage` only says what stays), so the property asks
  of the identity that the release can leave it out of its backups.
* `RunsProofs`, the runs: `RowsTrusted` (`RunInv`: at every place of a run its window,
  its counted failures and the comparison are those of the moment, and a row is written
  from them; a digest identifies its set); and the ratchet, `RatchetKept`, half of
  `CommandsSound` (`RatchetInv`: the working files, the committed ones and what a
  restore or a killed write may leave hold nothing as failing that the commit before
  held as passing). The ratchet is proved for sets that only append within a version
  (`AppendOnly`, `eval/sets/eval-v1/slices/README.md:67`). Without it TLC finds a
  counterexample with three releases and three rows: a killed write over all files, made
  from a row that does not count a case which the next version of the slices counts
  again.
* `RunsProofs`, the harness: `RunSound`, for any cases, drivers, sessions and slips.
  `HarnessInv` says where the chat of each turn can be: a chat is of a turn that was sent,
  the chat of a turn that is over is in the rows, whoever knows a chat knows that it has
  landed, and the registry, the sweep and the stop row call deleted only what is gone for
  good. One lemma (`TurnSteps`) shows what any step of one turn must leave alone; each
  action is then an instance of it. That a browser's row fails when a painted trip was
  taken back is a lemma about the frames (`TakenBackFlashes`): wherever the tripping began,
  the watch counts a flash.

Only model-checked: all liveness under fairness (`BuildsSettle`, `CourtFills`,
`EveryRequestEnds`, `RollbackEnds`, `CommandEnds`, `ProvisionSettles`, `RunEnds`), which
is out of the prover's reach; of `Releases`, `AppliedRuns` and `RollbackRestores` in the
form the run checks; the properties of `BackupSets`, `Restores`,
`CorpusLabels`, `Proposals` and `Provisioning`, which have no proofs; and those of
`EngineVerify`, whose schema validation is a recursive operator and is checked over the
instance's documents.

## Findings

Two runs end in a counterexample; `PROJECT.json` quotes the lines they refute.

* `retired_recovers`: a lockfile cut after its matching generation was retired matches
  that retired generation again, so the documented way out cannot be installed.
* `stale_rollback`: an upgrade does not clear a rollback's record, and the next
  rollback resumes it, skips its restore and ends with the newer release's data.

Six more disagreements can be reproduced with the configurations kept beside them:

| Configuration | Module, property | What the code does |
|---|---|---|
| `RetirementHold.cfg` | `MCRetirementHold`, `HoldKept` | `_DEMOTE_SQL` (`index/record.py:207`) clears `promoted_at`, so a generation that served loses its retirement hold; `docs/runbooks/release-files.md:216` says it keeps it |
| `RestoreLevel.cfg` | `MCIndexGenerations`, `LevelledRecord` | `level_all` (`index/level.py:103`) passes over building rows, so a stamp its stores do not honour stays; `docs/runbooks/backup-restore.md:220-221` |
| `BoxLocksStale.cfg` | `BoxLocks`, `Exclusion` | between flock and truncate (`sysio.py:305-312`) the file holds the last holder's record; the comment at `backuplock.py:193` says it is empty |
| `BackupExpiry.cfg` | `MCRestores`, `KeptVerifies` | a kept set names repository files that the next run's expiry removed (`backuproots.py:1268`); `config/site.example.yaml:43`. Restoring it refuses at verify |
| `TargetTimeline.cfg` | `MCRestores`, `AllReach` | `restore --from target --at` does not look at timelines (`restore.py:918`); `docs/runbooks/backup-restore.md:182-183`. `StoppedReaches` is the promise without that case |
| `OlderPipeline.cfg` | `MCWorker`, `IngestedWhole` | `write_walk` (`worker/caselaw.py:526-542`) sets `anchored_at` and `cited_at`, which name the document and no pipeline; `tests/test_worker_caselaw.py:584` says "Each pipeline owns a complete immutable walk." Sections from before v0.3.106, a first ingest since then under the newer pipeline and an install of a label of the older one (`install` refuses superseded labels only) end in a job that succeeds without anchors and citations |

Met while modelling, and not a run of their own:

* Two pulls at once both load `pulls.yaml` before either saves it (`weights.py`,
  `pull_profile`); `docs/runbooks/install-upgrade.md:141`. `data` has one puller.
* A stray fstab entry beside the managed block: the comment at `steps/disk.py:458-460`, the
  check and the apply (`steps/disk.py:822-827`, `900`) disagree on who refuses it.
* A cut is never named at the door: `gideon/evaluation/turns/door.py:338-345`
  against `doorclient.py:306-325`.
* An apply after a rotation killed between its write and its recreate ends with 0, and
  the services that mount the secret keep the old value until it is rotated again
  (`rotate.py:447-454` prints the fix for a recreate that failed, not for one that never
  ran). `CarriersReached` is what such an apply does promise.
* Two rotations of Grafana's password take no lock: one may fail its sign-in while the
  other ends with 0 over a file that is not the stored password (`rotate.py:393-399`).
* A held-out case's family reached through a retired predecessor
  (`gideon/evaluation/evalset.py:1378-1453`) against
  `eval/sets/eval-v1/slices/README.md:22-27`.
* The fetch's partial may be locked after its name was replaced
  (`gideon/worker/fetch.py:399-430` and the comment at `427`).
* An opinion's attempts are spent by database failures too
  (`gideon/worker/caselaw.py:1294-1307`), beside the comment at `53`.
* A provision interrupted after the age recipient is written never shows its identity
  (`steps/site_dirs.py:257`).

## Hazards without a property

The listed hazards are those the properties are for. These are real and narrower:

* content after a finish chunk (`gideon/guardrail/window.py:116`), and a close that
  fails on a trip (`gideon/api/relay.py:174`);
* cases linked over several hops into a held-out family
  (`gideon/evaluation/evalset.py:1378`): `load_set` refuses such a set whole, and a
  property of the sets that load would restate its check;
* a chat whose deletion failed is named in the final clean-up row only
  (`gideon/evaluation/turns/run.py:134`, `1390`);
* an interrupted render leaves files of the new release that an older tree refuses;
* two `eval reference` commands at once (`gideon/evaluation/reference_command.py:52`,
  `141`);
* a rating deleted in mid-walk; a packet's page without its manifest after a kill
  (`gideon/improvement/packet.py:344-368`);
* a fetch killed between its record and its rename, or between the two unlinks of a
  discard (`gideon/worker/fetch.py:668-691`, `433-436`);
* a label superseded while it is installed leaves its work directory
  (`corpus/install.py:505-527`);
* a job that fails as busy is never filed (`gideon/worker/agreement.py:614`);
* a reset of Grafana's password that times out and takes effect after its command has
  ended (`rotate.py:335-364`); a key rotated
  without its certificate until the next apply (`secrets.py:476-524`);
* a role written without comparing it with the one read (`users.py:513`);
* a deletion precedes its audit row, and an upload named in another account's chat can
  be deleted (`retention.py:356-367`, `442-462`).

## Not modelled

* Text: the grammar's regular expressions, extraction, citations and sections, the
  scorers of single slices, templates, reports, status. They are functions of their
  input with no state; a model would repeat the expressions, not check them.
* Plumbing: TLS, LDAP, the Open WebUI bootstrap, Grafana's provisioning, the
  application's routing, the image list. Each is one call or one file; the modelled
  commands use it as a call that succeeds or fails.
* The egress proxy admits or refuses one connection against a list and shares nothing
  between connections. `corpus watch` reads and prints. The drill repeats the restore's
  stages on disposable directories.
* Of backup and restore: the copied file roots and their ownership, the sealed
  secrets, the registry's seeding on the build box.

## Plan

1. Index generations, locks, window, stream, backup sets and restores: done.
2. Corpus, model store, host commands, releases, provisioning, evaluation: done.
3. Proofs of the record and the stores, locks, window, stream, the host's commands, the
   corpus jobs, the model store, the file transfer, the releases, the evaluation's runs,
   the turn harness and the caselaw ingest: done.
4. Proofs ahead, in this order: `ListingsHeld` and `BoundaryCovered` for any
   objects and bounds; then `Proposals`, `CorpusLabels` and `Provisioning`.
