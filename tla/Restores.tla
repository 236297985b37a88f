------------------------------- MODULE Restores -------------------------------
(* `restore` over the sets of BackupSets: select, pre-restore, fetch, verify,    *)
(* stop, swap, files, postgres and stores, with the safety run and push nested   *)
(* in it, the operator's apply and stop, and the rebuilt box.                    *)
EXTENDS BackupSets

CONSTANTS
  MaxRestores,  \* bound on restores
  Instants      \* the instants an operator names with --at

ASSUME RestoreBounds == MaxRestores \in Nat /\ Instants \subseteq 0..MaxTime

VARIABLES
  restore,   \* the restore in progress
  side,      \* the staging directory fetched from the target
  replaced   \* the staging directory a swap moved away

vars == <<backupVars, restore, side, replaced>>
restoreVars == <<restore, side, replaced>>

\* A cluster that only a restore can make usable, and a directory that is not there.
NoCluster == [tl |-> 0, log |-> <<>>]
Nothing == [sets |-> {}, copy |-> {}, backups |-> {}, timelines |-> <<>>]

RestoreInit ==
  /\ BackupInit
  /\ restore = [stage |-> "idle", count |-> 0]
  /\ side = Nothing /\ replaced = Nothing

\* backuplock: one command at a time, but for those a restore runs itself.
Locked == run.stage # "idle" \/ push.stage # "idle" \/ restore.stage # "idle"

-----------------------------------------------------------------------------
(* What recovery can reach. *)

Latest(s) == Len(s.timelines)

\* A backup reaches the latest timeline from it, or from an ancestor before the switch.
reaches_latest(b, s) ==
  \/ b.tl = Latest(s)
  \/ \E c \in s.timelines[Latest(s)].chain : c[1] = b.tl /\ b.stop <= c[2]

Backup(s, ref) == CHOOSE b \in s.backups : b.label = ref.backup

\* The restore's repository: the fetched one until the swap.
Source == IF restore.source = "target" /\ side # Nothing THEN side ELSE staging

\* --at and --archive-end follow the latest timeline; else the backup's own is named.
TargetTimeline(s) ==
  IF restore.mode \in {"at", "end"} THEN Latest(s) ELSE Backup(s, restore.set).tl

\* The position recovery ends at.
TargetPosition(s) ==
  LET log == s.timelines[TargetTimeline(s)].log
  IN  CASE restore.mode = "end" -> Len(log)
        [] restore.mode = "at"  -> PositionAt(log, restore.at)
        [] OTHER                -> PositionAt(log, restore.set.boundary)

\* Postgres recovers: it has the backup, the target's history passes through the backup's
\* end, the target is not before that end, and a time target has an archived commit past
\* it.
Recovers(s) ==
  /\ restore.set.backup \in Labels(s.backups)
  /\ LET b == Backup(s, restore.set)
         t == TargetTimeline(s)
         p == TargetPosition(s)
     IN  /\ b.tl = t \/ \E c \in s.timelines[t].chain : c[1] = b.tl /\ b.stop <= c[2]
         /\ b.stop <= p
         /\ restore.mode = "end" \/ p < Len(s.timelines[t].log)

\* The promotion: a new timeline that leaves its parent where recovery ended.
NewTimeline(s) ==
  LET t     == TargetTimeline(s)
      p     == TargetPosition(s)
      chain == s.timelines[t].chain
      later == {c \in chain : c[2] >= p}
      owner == IF later = {} THEN t
               ELSE (CHOOSE c \in later : \A d \in later : c[1] <= d[1])[1]
  IN  [chain |-> {c \in chain : c[2] < p} \cup {<<owner, p>>},
       log   |-> SubSeq(s.timelines[t].log, 1, p)]

-----------------------------------------------------------------------------
(* The stages. *)

Go(stage) == restore' = [restore EXCEPT !.stage = stage]
EndRestore == restore' = [stage |-> "idle", count |-> restore.count]

NewRestore(source, mode, at, ref, snapshot) ==
  [stage |-> "pre-restore", count |-> restore.count + 1, source |-> source, mode |-> mode,
   at |-> at, set |-> ref, snapshot |-> snapshot, later |-> {}, safety |-> 0]

NoSet == [n |-> 0]

RestoreStart(source, mode, at, ref, snapshot) ==
  /\ ~Locked /\ restore.count < MaxRestores
  /\ staging # Nothing
  /\ restore' = NewRestore(source, mode, at, ref, snapshot)
  /\ UNCHANGED <<backupVars, side, replaced>>

\* The newest complete set, to its own boundary.
SelectNewest ==
  /\ Complete(staging) # {}
  /\ RestoreStart("staging", "set", 0, Newest(Complete(staging)), 0)

\* The complete set that --set names, to its own boundary.
SelectSet(ref) ==
  /\ ref \in Complete(staging)
  /\ RestoreStart("staging", "set", 0, ref, 0)

\* Mutant: any backup the repository holds.
_walk_candidates_held(refs) == {ref \in refs : ref.backup \in Labels(staging.backups)}

\* The newest of some complete sets whose backup the repository holds and reaches the
\* latest timeline.
_walk_candidates(refs) ==
  {ref \in refs : /\ ref.backup \in Labels(staging.backups)
                  /\ reaches_latest(Backup(staging, ref), staging)}

eligible_sets(s, t) == {ref \in Complete(s) : ref.finished <= t}

SelectAt(t) ==
  LET reached == _walk_candidates(eligible_sets(staging, t))
  IN  reached # {} /\ RestoreStart("staging", "at", t, Newest(reached), 0)

SelectArchiveEnd ==
  LET reached == _walk_candidates(Complete(staging))
  IN  reached # {} /\ RestoreStart("staging", "end", 0, Newest(reached), 0)

\* The newest complete snapshot, or the oldest whose boundary is not before --at.
SelectTarget ==
  \E s \in Whole : /\ \A r \in Whole : r.label <= s.label
                   /\ RestoreStart("target", "set", 0, NoSet, s.label)

SelectTargetAt(t) ==
  \E s \in Whole : /\ s.boundary >= t
                   /\ \A r \in Whole : r.boundary >= t => s.label <= r.label
                   /\ RestoreStart("target", "at", t, NoSet, s.label)

\* A stopped stack, or a running one whose staging has no set at all, takes no safety set.
PreRestoreSkipped ==
  /\ restore.stage = "pre-restore"
  /\ stack = "down" \/ staging.sets = {}
  /\ Go("bound") /\ UNCHANGED <<backupVars, side, replaced>>

\* The safety set: a full run nested in the restore.
PreRestoreRun ==
  /\ restore.stage = "pre-restore" /\ stack # "down" /\ run.n < MaxRuns
  /\ Complete(staging) # {} /\ restore.mode # "end"
  /\ run' = NewRun("pre-restore", TRUE)
  /\ Go("run")
  /\ UNCHANGED <<now, live, lost, stack, cluster, staging, remote, push, mishaps, side, replaced>>

PreRestorePush ==
  /\ restore.stage = "run" /\ run.stage = "idle" /\ run.ok
  /\ restore.source = "target" /\ push.label < MaxPushes
  /\ push' = NewPush
  /\ Go("push")
  /\ UNCHANGED <<now, live, lost, stack, cluster, staging, remote, run, mishaps, side, replaced>>

\* Mutant: the safety set is not sent to the target.
PreRestoreDoneUnsent ==
  /\ restore.stage \in {"run", "push"} /\ run.stage = "idle" /\ run.ok /\ push.stage = "idle"
  /\ restore' = [restore EXCEPT !.stage = "bound", !.safety = run.n]
  /\ UNCHANGED <<backupVars, side, replaced>>

PreRestoreDone ==
  /\ \/ restore.stage = "run" /\ restore.source = "staging" /\ run.stage = "idle" /\ run.ok
     \/ restore.stage = "push" /\ push.stage = "idle" /\ push.ok
  /\ restore' = [restore EXCEPT !.stage = "bound", !.safety = run.n]
  /\ UNCHANGED <<backupVars, side, replaced>>

\* From staging, --at is held to the newest complete set's boundary.
_staging_bound ==
  restore.source = "staging" /\ restore.mode = "at" =>
    Complete(staging) # {} /\ restore.at <= Newest(Complete(staging)).boundary

RestoreHeld ==
  /\ restore.stage = "bound" /\ _staging_bound
  /\ Go("fetch") /\ UNCHANGED <<backupVars, side, replaced>>

\* The snapshot into the side directory, and there the newest set finished by --at.
RestoreFetch ==
  /\ restore.stage = "fetch"
  /\ \/ restore.source = "staging" /\ Go("verify") /\ side' = side
     \/ \E s \in Whole :
          LET refs == IF restore.mode = "at" THEN eligible_sets(s.staging, restore.at)
                      ELSE Complete(s.staging)
          IN  /\ restore.source = "target" /\ s.label = restore.snapshot /\ refs # {}
              /\ side' = s.staging
              /\ restore' = [restore EXCEPT !.stage = "verify", !.set = Newest(refs)]
  /\ UNCHANGED <<backupVars, replaced>>

\* The complete sets after the selected one, for an instant past its boundary.
_later_sets ==
  IF restore.mode = "at" /\ restore.at > restore.set.boundary
  THEN {ref \in Complete(Source) : ref.finished > restore.set.finished} ELSE {}

\* Every hash of the set's inventory and every pinned listing, while the stack serves.
RestoreVerify ==
  /\ restore.stage = "verify"
  /\ restore.set.repository \subseteq Labels(Source.backups)
  /\ restore.mode # "end" => restore.set \in Source.sets /\ restore.set.whole
  /\ restore' = [restore EXCEPT !.stage = "stop", !.later = _later_sets]
  /\ UNCHANGED <<backupVars, side, replaced>>

\* Stopping Postgres archives the rest of its log.
Stopped == IF stack = "down" \/ cluster.tl = 0 THEN staging ELSE Archived

RestoreStop ==
  /\ restore.stage = "stop"
  /\ stack' = "down" /\ staging' = Stopped
  /\ Go(IF restore.source = "target" THEN "swap" ELSE "files")
  /\ UNCHANGED <<now, live, lost, cluster, remote, run, push, mishaps, side, replaced>>

\* Two renames; when the second fails, the first is undone and the restore ends.  The
\* cluster is not the new repository's: it waits for a restore to replace it.
RestoreSwapOut ==
  /\ restore.stage = "swap"
  /\ replaced' = staging /\ staging' = Nothing
  /\ Go("swap in")
  /\ UNCHANGED <<now, live, lost, stack, cluster, remote, run, push, mishaps, side>>

RestoreSwapIn ==
  /\ restore.stage = "swap in"
  /\ \/ staging' = side /\ side' = Nothing /\ replaced' = replaced /\ Go("files")
        /\ cluster' = NoCluster /\ mishaps' = mishaps
     \/ staging' = replaced /\ replaced' = Nothing /\ side' = side /\ EndRestore /\ Mishap
        /\ cluster' = cluster
  /\ UNCHANGED <<now, live, lost, stack, remote, run, push>>

\* Mutant: the set's own listing alone.
SuppliedBySet == staging.copy \cap restore.set.listing

\* Objects the live store lacks, from the set's listing and from the newest later set's.
Supplied ==
  LET from == {restore.set} \cup IF restore.later = {} THEN {} ELSE {Newest(restore.later)}
  IN  staging.copy \cap UNION {ref.listing : ref \in from}

RestoreFiles ==
  /\ restore.stage = "files"
  /\ live' = IF restore.mode = "end" THEN live ELSE live \cup Supplied
  /\ Go("postgres")
  /\ UNCHANGED <<now, lost, stack, cluster, staging, remote, run, push, mishaps, side, replaced>>

\* pgBackRest replaces the cluster's files; recovery runs at its start.
RestorePostgres ==
  /\ restore.stage = "postgres"
  /\ restore.set.backup \in Labels(staging.backups)
  /\ cluster' = NoCluster
  /\ Go("stores")
  /\ UNCHANGED <<now, live, lost, stack, staging, remote, run, push, mishaps, side, replaced>>

\* The store tier starts: recovery, promotion, the restore's own row; the replaced
\* staging directory goes.
RestoreStores ==
  /\ restore.stage = "stores" /\ Recovers(staging)
  /\ LET new == NewTimeline(staging)
     IN  /\ staging' = [staging EXCEPT !.timelines = Append(@, new)]
         /\ cluster' = [tl  |-> Latest(staging) + 1,
                        log |-> Append(new.log, [row |-> NoRow, at |-> now])]
  /\ stack' = "stores" /\ replaced' = Nothing
  /\ EndRestore
  /\ UNCHANGED <<now, live, lost, remote, run, push, mishaps, side>>

\* A stage refuses or fails, or the process dies, with what runs inside it.
RestoreFails ==
  /\ restore.stage # "idle" /\ Mishap /\ EndRestore /\ EndRun(FALSE) /\ EndPush(FALSE)
  /\ UNCHANGED <<now, live, lost, stack, cluster, staging, remote, side, replaced>>

-----------------------------------------------------------------------------
(* The operator and the box. *)

\* apply starts every service.
Apply ==
  /\ ~Locked /\ stack # "up" /\ cluster.tl # 0 /\ staging # Nothing
  /\ stack' = "up"
  /\ UNCHANGED <<now, live, lost, cluster, staging, remote, run, push, mishaps, restoreVars>>

\* docker compose down.
StackStops ==
  /\ ~Locked /\ stack # "down" /\ Mishap
  /\ stack' = "down" /\ staging' = Stopped
  /\ UNCHANGED <<now, live, lost, cluster, remote, run, push, restoreVars>>

\* A swap that died between its renames: the replaced directory is moved back by hand.
MovedBack ==
  /\ ~Locked /\ staging = Nothing
  /\ staging' = replaced /\ replaced' = Nothing
  /\ UNCHANGED <<now, live, lost, stack, cluster, remote, run, push, mishaps, restore, side>>

\* The box and its volume are lost; a new one is provisioned and applied.
BoxRebuilt ==
  /\ Mishap /\ EndRestore /\ EndRun(FALSE) /\ EndPush(FALSE)
  /\ live' = {} /\ stack' = "up" /\ cluster' = FreshCluster /\ staging' = FreshStaging
  /\ side' = Nothing /\ replaced' = Nothing
  /\ UNCHANGED <<now, lost, remote>>

-----------------------------------------------------------------------------

BackupCommands ==
  /\ ~Locked
  /\ \/ \E request \in Requests : RunStart(request)
     \/ PushStart
  /\ UNCHANGED restoreVars

Select ==
  \/ SelectNewest \/ SelectArchiveEnd \/ SelectTarget
  \/ \E ref \in staging.sets : SelectSet(ref)
  \/ \E t \in Instants : SelectAt(t) \/ SelectTargetAt(t)

BoxNext ==
  /\ \/ Tick
     \/ \E o \in Objects : StoreObject(o) \/ CommitRow(o) \/ LoseObject(o)
     \/ RunNext \/ PushNext
  /\ UNCHANGED restoreVars

Next ==
  \/ BoxNext \/ BackupCommands \/ Select
  \/ PreRestoreSkipped \/ PreRestoreRun \/ PreRestorePush \/ PreRestoreDone
  \/ RestoreHeld \/ RestoreFetch \/ RestoreVerify \/ RestoreStop \/ RestoreSwapOut
  \/ RestoreSwapIn \/ RestoreFiles \/ RestorePostgres \/ RestoreStores \/ RestoreFails
  \/ Apply \/ StackStops \/ MovedBack \/ BoxRebuilt

Spec == RestoreInit /\ [][Next]_vars

-----------------------------------------------------------------------------
(* Properties. *)

\* The staging directories a restore can come from.
Held == {staging, side, replaced} \cup {s.staging : s \in Whole}

Idle == [stage : {"idle"}, count : 0..MaxRestores]
Active ==
  [stage : {"idle", "pre-restore", "run", "push", "bound", "fetch", "verify", "stop",
            "swap", "swap in", "files", "postgres", "stores"},
   count : 1..MaxRestores, source : {"staging", "target"}, mode : {"set", "at", "end"},
   at : 0..MaxTime, set : SetRef \cup {NoSet}, snapshot : 0..MaxPushes,
   later : SUBSET SetRef, safety : 0..MaxRuns]

Snapshot ==
  [label : 1..MaxPushes, at : 0..MaxTime, state : {"partial", "complete", "removing"},
   boundary : 0..MaxTime, newest : 1..MaxRuns, staging : Staging]

\* Every variable has its type.
TypeOK ==
  /\ now \in 0..MaxTime /\ live \subseteq Objects /\ lost \subseteq Objects
  /\ stack \in {"up", "stores", "down"}
  /\ cluster \in [tl : Nat, log : Log]
  /\ staging \in Staging /\ side \in Staging /\ replaced \in Staging
  /\ remote \subseteq Snapshot
  /\ run.n \in 0..MaxRuns /\ push.label \in 0..MaxPushes
  /\ restore \in Idle \cup Active

\* Every object that a complete set's listing names is in the copy beside it, through
\* every prune, cut, push and swap: the sets share one copy.
ListingsHeld == \A s \in Held : \A ref \in Complete(s) : ref.listing \subseteq s.copy

\* While a complete set's backup is held, its listing names every object that the rows at
\* its archive boundary name, though services store and commit while the run copies: what
\* the two passes around the Postgres backup are for.
BoundaryCovered ==
  \A s \in Held : \A ref \in Complete(s) : ref.backup \in Labels(s.backups) =>
    LET log == s.timelines[Backup(s, ref).tl].log
    IN  Rows(SubSeq(log, 1, PositionAt(log, ref.boundary))) \subseteq ref.listing \cup lost

\* While a complete set's backup is held, recovery to its boundary neither ends before
\* that backup is consistent nor runs out of log.
BoundaryReached ==
  \A s \in Held : \A ref \in Complete(s) : ref.backup \in Labels(s.backups) =>
    LET b   == Backup(s, ref)
        log == s.timelines[b.tl].log
        p   == PositionAt(log, ref.boundary)
    IN  b.stop <= p /\ p < Len(log)

\* On the box, beside it and on the target a complete set's objects stay in the copy, and
\* as long as its repository holds the set's own backup its boundary is reached and the
\* rows there are covered.  It says nothing of a set that outlives its backup: pgBackRest's
\* expiry may take that first, and verification then refuses the set (KeptVerifies).
SetsCovered == TypeOK /\ ListingsHeld /\ BoundaryCovered /\ BoundaryReached

Past == {"swap", "swap in", "files", "postgres", "stores"}

\* Once a restore from staging, or one to a set's boundary, has stopped the stack, its
\* recovery succeeds: whatever cannot be reached was refused while the stack served.
StoppedReaches ==
  restore.stage \in Past /\ (restore.source = "staging" \/ restore.mode = "set") =>
    Recovers(Source)

\* The same of every restore, --from target --at included.
AllReach == restore.stage \in Past => Recovers(Source)

\* While Postgres runs, the live store holds every object its rows name: after a restore
\* to any instant, on the box or on a rebuilt one.
RowsServed == stack # "down" => Rows(cluster.log) \subseteq live \cup lost

\* Between runs, every complete set the box keeps passes the verification of its
\* repository inventory: "nightly sets kept on the server's own disk (...; also the
\* repository's point-in-time window)".
KeptVerifies == run.stage = "idle" =>
  \A ref \in Complete(staging) : ref.repository \subseteq Labels(staging.backups)

\* A push's prune never leaves the target without a complete snapshot.
TargetKept == [][Whole # {} => Whole' # {}]_vars

\* A restore that took a safety set ends with that set in staging or on the target.
SafetyKept ==
  [][RestoreStores /\ restore.safety # 0 =>
       \E s \in Held' : \E ref \in Complete(s) : ref.n = restore.safety]_vars

\* Neither a prune nor a restore takes the last way back with it.
WaysKept == TargetKept /\ SafetyKept
=============================================================================
