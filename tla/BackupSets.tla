------------------------------ MODULE BackupSets ------------------------------
(* The backup sets of one box: `backup run` and `backup push` over the content-  *)
(* addressed store, the Postgres cluster, the staging directory and the target.  *)
(*                                                                               *)
(* A row names an object; it is committed after the object was stored.  A set    *)
(* pins the names its two passes listed; the objects themselves are in staging's *)
(* one copy, which all sets share.  The pgBackRest repository is in staging too: *)
(* its backups and, per timeline, the archived log.  A log position stands for   *)
(* an LSN.  The clock counts days and the instants within them alike: what is    *)
(* compared is the order, and a distance in retention periods.                   *)
EXTENDS Integers, Sequences, FiniteSets

CONSTANTS
  Objects,      \* names of the content-addressed store
  LocalDays,    \* backup.local_days, on the clock's scale
  RemoteDays,   \* backup.remote_days
  FullEvery,    \* the age past which the newest full backup is replaced (7 days)
  PartialDays,  \* the age past which an unfinished set or snapshot is removed (1 day)
  MaxTime,      \* bound on the clock
  MaxRuns,      \* bound on `backup run`s, the safety runs of restores included
  MaxPushes,    \* bound on `backup push`es
  MaxMishaps,   \* bound on failures, stops of the stack and losses
  Requests      \* the runs an operator or a timer asks for: [kind, full]

ASSUME Durations ==
  /\ {LocalDays, RemoteDays, FullEvery, PartialDays} \subseteq Nat
  /\ {MaxTime, MaxRuns, MaxPushes, MaxMishaps} \subseteq Nat

NoRow == "no row"            \* a commit that names no object
ASSUME NoRowIsNoObject == NoRow \notin Objects

VARIABLES
  now,      \* the clock
  live,     \* the objects in /data/bulk/cas
  lost,     \* the objects some damage removed from it (history)
  stack,    \* "up", "stores" (the store tier alone) or "down"
  cluster,  \* the Postgres cluster: its timeline and its log of commits
  staging,  \* /data/backup-staging, with the pgBackRest repository
  remote,   \* the snapshots on the target
  run,      \* the `backup run` in progress
  push,     \* the `backup push` in progress
  mishaps   \* the failures, stops and losses so far

backupVars == <<now, live, lost, stack, cluster, staging, remote, run, push, mishaps>>

Kinds == {"nightly", "labelled", "pre-restore"}

\* A labelled run is a full one; a nightly one is when --full asks for it.
ASSUME RequestsKnown ==
  Requests \subseteq [kind : {"nightly", "labelled"}, full : BOOLEAN] \
                       {[kind |-> "labelled", full |-> FALSE]}

Commit == [row : Objects \cup {NoRow}, at : 0..MaxTime]
Log    == Seq(Commit)

\* A set directory, complete when its manifest is there.  A removal cut short leaves some
\* of its files: not whole.  repository is the inventory of pgBackRest's files, by backup.
SetRef ==
  [n : 1..MaxRuns, complete : BOOLEAN, whole : BOOLEAN, finished : 0..MaxTime,
   boundary : 0..MaxTime, backup : 0..MaxRuns, listing : SUBSET Objects,
   repository : SUBSET (1..MaxRuns)]

\* full is the label of the full backup that an incremental one rests on.
BackupInfo ==
  [label : 1..MaxRuns, full : 1..MaxRuns, tl : Nat, stop : Nat, at : 0..MaxTime]

\* A timeline's history file, as <<ancestor, switch position>>, and its archived log.
Timeline == [chain : SUBSET (Nat \X Nat), log : Log]

Staging ==
  [sets : SUBSET SetRef, copy : SUBSET Objects, backups : SUBSET BackupInfo,
   timelines : Seq(Timeline)]

FreshStaging ==
  [sets |-> {}, copy |-> {}, backups |-> {}, timelines |-> <<[chain |-> {}, log |-> <<>>]>>]
FreshCluster == [tl |-> 1, log |-> <<>>]

-----------------------------------------------------------------------------
(* What the commands read. *)

Rows(log) == {log[i].row : i \in DOMAIN log} \ {NoRow}

\* The position a log has reached at an instant.
PositionAt(log, t) == Cardinality({i \in DOMAIN log : log[i].at <= t})

Complete(s) == {ref \in s.sets : ref.complete}
Newest(refs) == CHOOSE ref \in refs : \A r \in refs : r.finished <= ref.finished

Labels(backups) == {b.label : b \in backups}
Fulls(backups)  == {b \in backups : b.label = b.full}
Last(backups)   == CHOOSE b \in backups : \A c \in backups : c.label <= b.label
newest_full(backups) == Last(Fulls(backups))

\* pgBackRest's expiry by time: a full backup goes, with what rests on it, when a newer
\* full backup has reached the retention's age.
Expired(backups) ==
  {b \in backups : \E c \in Fulls(backups) : c.label > b.full /\ c.at <= now - LocalDays}

-----------------------------------------------------------------------------
(* The box around the commands. *)

BackupInit ==
  /\ now = 0 /\ live = {} /\ lost = {} /\ stack = "up"
  /\ cluster = FreshCluster /\ staging = FreshStaging /\ remote = {}
  /\ run = [stage |-> "idle", n |-> 0, ok |-> TRUE]
  /\ push = [stage |-> "idle", label |-> 0, ok |-> TRUE]
  /\ mishaps = 0

\* Something the bound counts.
Mishap == mishaps < MaxMishaps /\ mishaps' = mishaps + 1

EndRun(ok)  == run' = [stage |-> "idle", n |-> run.n, ok |-> ok]
EndPush(ok) == push' = [stage |-> "idle", label |-> push.label, ok |-> ok]

boxVars == <<stack, staging, remote, run, push>>

Tick == now < MaxTime /\ now' = now + 1 /\ UNCHANGED <<live, lost, cluster, boxVars, mishaps>>

\* A service stores an object, and later commits the row that names it.
StoreObject(o) ==
  /\ stack = "up" /\ o \notin live
  /\ live' = live \cup {o}
  /\ UNCHANGED <<now, lost, cluster, boxVars, mishaps>>

CommitRow(o) ==
  /\ stack = "up" /\ o \in live /\ o \notin Rows(cluster.log)
  /\ cluster' = [cluster EXCEPT !.log = Append(@, [row |-> o, at |-> now])]
  /\ UNCHANGED <<now, live, lost, boxVars, mishaps>>

LoseObject(o) ==
  /\ o \in live /\ Mishap
  /\ live' = live \ {o} /\ lost' = lost \cup {o}
  /\ UNCHANGED <<now, cluster, boxVars>>

\* The staging directory once the cluster's log is archived.
Archived == [staging EXCEPT !.timelines[cluster.tl].log = cluster.log]

-----------------------------------------------------------------------------
(* backup run *)

\* The repository as the run's backup leaves it.  Only a nightly run expires.
BackedUp ==
  LET base == IF run.full THEN run.n ELSE Last(staging.backups).full
      all  == staging.backups \cup
                {[label |-> run.n, full |-> base, tl |-> cluster.tl,
                  stop |-> Len(cluster.log), at |-> now]}
  IN  all \ (IF run.kind = "nightly" THEN Expired(all) ELSE {})

_backup_type(requested) ==
  requested \/ Fulls(staging.backups) = {} \/ now - newest_full(staging.backups).at > FullEvery

NewRun(kind, requested) ==
  [stage |-> "files", n |-> run.n + 1, kind |-> kind, full |-> _backup_type(requested),
   started |-> now, first |-> {}, second |-> {}, boundary |-> 0, ok |-> FALSE]

\* Preconditions, label and type.
RunStart(request) ==
  /\ run.stage = "idle" /\ run.n < MaxRuns /\ stack # "down"
  /\ run' = NewRun(request.kind, request.full)
  /\ UNCHANGED <<now, live, lost, stack, cluster, staging, remote, push, mishaps>>

RunStep(from, to) == run.stage = from /\ stack # "down" /\ run' = [run EXCEPT !.stage = to]

\* The first pass: list the live objects and copy what was listed into the copy.
RunFiles ==
  /\ run.stage = "files"
  /\ run' = [run EXCEPT !.stage = "backup", !.first = live]
  /\ staging' = [staging EXCEPT
       !.copy = @ \cup live,
       !.sets = @ \cup {[n |-> run.n, complete |-> FALSE, whole |-> TRUE, finished |-> now,
                         boundary |-> 0, backup |-> 0,
                         listing |-> {}, repository |-> {}]}]
  /\ UNCHANGED <<now, live, lost, stack, cluster, remote, push, mishaps>>

RunBackup ==
  /\ RunStep("backup", "boundary")
  /\ staging' = [Archived EXCEPT !.backups = BackedUp]
  /\ UNCHANGED <<now, live, lost, stack, cluster, remote, push, mishaps>>

\* Mutant: the boundary is the run's start.
RunBoundaryFirst ==
  /\ run.stage = "boundary" /\ stack # "down" /\ now < MaxTime
  /\ run' = [run EXCEPT !.stage = "archive", !.boundary = run.started]
  /\ now' = now + 1
  /\ UNCHANGED <<live, lost, stack, cluster, staging, remote, push, mishaps>>

\* The archive boundary is the instant after the backup; what commits next is past it.
RunBoundary ==
  /\ run.stage = "boundary" /\ stack # "down" /\ now < MaxTime
  /\ run' = [run EXCEPT !.stage = "archive", !.boundary = now]
  /\ now' = now + 1
  /\ UNCHANGED <<live, lost, stack, cluster, staging, remote, push, mishaps>>

\* One commit past the boundary, and the segment archived.
RunArchive ==
  /\ RunStep("archive", "complete")
  /\ cluster' = [cluster EXCEPT !.log = Append(@, [row |-> NoRow, at |-> now])]
  /\ staging' = [staging EXCEPT !.timelines[cluster.tl].log = cluster'.log]
  /\ UNCHANGED <<now, live, lost, stack, remote, push, mishaps>>

\* The second pass.
RunComplete ==
  /\ run.stage = "complete"
  /\ run' = [run EXCEPT !.stage = "manifest", !.second = live]
  /\ staging' = [staging EXCEPT !.copy = @ \cup live]
  /\ UNCHANGED <<now, live, lost, stack, cluster, remote, push, mishaps>>

\* The manifest pins the two listings' names and the repository's inventory, and names
\* the newest backup; the rename makes the set complete.
RunManifest ==
  /\ run.stage = "manifest" /\ stack # "down"
  /\ run' = [run EXCEPT !.stage = "prune"]
  /\ staging' = [staging EXCEPT !.sets =
       {ref \in @ : ref.n # run.n} \cup
       {[n |-> run.n, complete |-> TRUE, whole |-> TRUE, finished |-> now,
         boundary |-> run.boundary, backup |-> Last(staging.backups).label,
         listing |-> run.first \cup run.second,
         repository |-> Labels(staging.backups)]}]
  /\ UNCHANGED <<now, live, lost, stack, cluster, remote, push, mishaps>>

prune_candidates ==
  {ref \in staging.sets :
     ref.finished < run.started - (IF ref.complete THEN LocalDays ELSE PartialDays)}

\* What an `rm -rf` that dies in a set leaves of it: its manifest without some other
\* file, or files without the manifest.
Torn(ref) == {[ref EXCEPT !.whole = FALSE], [ref EXCEPT !.complete = FALSE, !.finished = now]}

\* The sets go one by one; a removal that fails, or dies, ends the run in the midst of one.
RunPruneSets ==
  /\ run.stage = "prune"
  /\ \/ /\ run' = [run EXCEPT !.stage = "prune copy"]
        /\ staging' = [staging EXCEPT !.sets = @ \ prune_candidates]
        /\ mishaps' = mishaps
     \/ /\ Mishap /\ EndRun(FALSE)
        /\ \E gone \in SUBSET prune_candidates : \E ref \in prune_candidates \ gone :
             \E left \in Torn(ref) :
               staging' = [staging EXCEPT !.sets = (@ \ (gone \cup {ref})) \cup {left}]
  /\ UNCHANGED <<now, live, lost, stack, cluster, remote, push>>

\* The copy keeps what some remaining complete set's listing names; a listing that is gone
\* fails it.
RunPruneCopy ==
  /\ run.stage = "prune copy" /\ \A ref \in Complete(staging) : ref.whole
  /\ run' = [run EXCEPT !.stage = "applied"]
  /\ staging' = [staging EXCEPT !.copy = @ \cap UNION {ref.listing : ref \in Complete(staging)}]
  /\ UNCHANGED <<now, live, lost, stack, cluster, remote, push, mishaps>>

RunApplied ==
  /\ run.stage = "applied" /\ stack # "down"
  /\ EndRun(TRUE)
  /\ UNCHANGED <<now, live, lost, stack, cluster, staging, remote, push, mishaps>>

\* A stage fails, or the process dies.  What the run wrote stays.
RunFails ==
  /\ run.stage # "idle" /\ Mishap /\ EndRun(FALSE)
  /\ UNCHANGED <<now, live, lost, stack, cluster, staging, remote, push>>

RunNext == RunFiles \/ RunBackup \/ RunBoundary \/ RunArchive \/ RunComplete
           \/ RunManifest \/ RunPruneSets \/ RunPruneCopy \/ RunApplied \/ RunFails

-----------------------------------------------------------------------------
(* backup push *)

Whole == {s \in remote : s.state = "complete"}

NewPush ==
  [stage |-> "send", label |-> push.label + 1, started |-> now, ok |-> FALSE,
   set |-> Newest(Complete(staging)), due |-> {}]

\* Preconditions and the coverage record of the newest complete set.
PushStart ==
  /\ push.stage = "idle" /\ push.label < MaxPushes /\ stack # "down" /\ Complete(staging) # {}
  /\ push' = NewPush
  /\ UNCHANGED <<now, live, lost, stack, cluster, staging, remote, run, mishaps>>

_push_prune_names(snapshots) ==
  {s.label : s \in {t \in snapshots :
     \/ t.state = "removing"
     \/ t.state = "complete" /\ t.at < push.started - RemoteDays
     \/ t.state = "partial" /\ t.at < push.started - PartialDays}}

\* List the target, copy staging to <label>.partial.  A copy cut short leaves less there.
PushSend ==
  /\ push.stage = "send"
  /\ \/ push' = [push EXCEPT !.stage = "check", !.due = _push_prune_names(remote)] /\ mishaps' = mishaps
     \/ EndPush(FALSE) /\ Mishap
  /\ remote' = remote \cup
       {[label |-> push.label, at |-> push.started, state |-> "partial",
         boundary |-> push.set.boundary, newest |-> push.set.n, staging |-> staging]}
  /\ UNCHANGED <<now, live, lost, stack, cluster, staging, run>>

\* The check on the target, then the rename to the final name.
PushFinalize ==
  /\ push.stage = "check"
  /\ push' = [push EXCEPT !.stage = "prune"]
  /\ remote' = {IF s.label = push.label THEN [s EXCEPT !.state = "complete"] ELSE s : s \in remote}
  /\ UNCHANGED <<now, live, lost, stack, cluster, staging, run, mishaps>>

\* Each due snapshot is renamed to <name>.removing and then removed, those an earlier
\* prune left first.  The deadline ends the removal of one and with it the prune.
PushPrune(s) ==
  /\ push.stage = "prune" /\ s \in remote /\ s.label \in push.due
  /\ s.state = "removing" \/ \A t \in remote : t.label \in push.due => t.state # "removing"
  /\ \/ remote' = remote \ {s} /\ push' = push
     \/ /\ remote' = (remote \ {s}) \cup {[s EXCEPT !.state = "removing"]}
        /\ EndPush(TRUE)
  /\ UNCHANGED <<now, live, lost, stack, cluster, staging, run, mishaps>>

\* Every due snapshot is gone, or the deadline comes before the next removal.
PushEnds ==
  /\ push.stage = "prune"
  /\ EndPush(TRUE)
  /\ UNCHANGED <<now, live, lost, stack, cluster, staging, remote, run, mishaps>>

PushFails ==
  /\ push.stage # "idle" /\ Mishap /\ EndPush(FALSE)
  /\ UNCHANGED <<now, live, lost, stack, cluster, staging, remote, run>>

PushNext == PushSend \/ PushFinalize \/ (\E s \in remote : PushPrune(s)) \/ PushEnds \/ PushFails
=============================================================================
