------------------------------- MODULE Releases -------------------------------
(* The commands that move one box between releases: `install`, `apply`, `upgrade` *)
(* and `upgrade --rollback`, with the children they run.  A command is a fixed    *)
(* sequence of stages; a stage that does not pass, or a crash, ends the command   *)
(* where it stands, and the operator runs a command again.                        *)
(*                                                                                *)
(* A release is a number, in version order.  What the renderer writes is a set of *)
(* files per release; a container holds the version of its rendered content.      *)
EXTENDS Integers, Sequences, FiniteSets

CONSTANTS
  Releases,      \* 1..n
  IdentityFrom,  \* the first release whose backups seal to the box identity too
  Artifacts,     \* per release, the files its renderer registers
  Content,       \* per release, the version of each service's rendered content
  Reupgrade,     \* may the operator run upgrade while a rollback record exists
  MaxCommands,   \* bound on installs, applies, upgrades and fresh rollbacks
  MaxMishaps,    \* bound on stages that fail and on crashes
  MaxRows        \* bound on the rows users write

Services == {"store", "app"}

ASSUME ReleasesCount == IsFiniteSet(Releases) /\ Releases # {} /\ Releases = 1..Cardinality(Releases)
ASSUME ReleasesShapes ==
  /\ IdentityFrom \in Nat /\ Reupgrade \in BOOLEAN
  /\ DOMAIN Artifacts = Releases
  /\ Content \in [Releases -> [Services -> Nat \ {0}]]
  /\ {MaxCommands, MaxMishaps, MaxRows} \subseteq Nat

VARIABLES
  tree,        \* the release checked out
  files,       \* the rendered files on disk
  manifest,    \* the release the rendered manifest names (0: none)
  applied,     \* the release the applied record names (0: none)
  data,        \* the stores: their schema's release and the rows written
  containers,  \* per service, the content it was created with (0: no container)
  images,      \* the releases whose images the daemon holds
  identity,    \* is the box identity present
  sets,        \* the pre-upgrade sets, complete
  marker,      \* rollback.json
  cmd,         \* the command in progress
  commands, mishaps

boxVars == <<tree, files, manifest, applied, data, containers, images, identity>>
releaseVars == <<boxVars, sets, marker, cmd, commands, mishaps>>

NoMarker == [set |-> 0]
NoSet    == [n |-> 0]
Idle     == [op |-> "none", at |-> 1, target |-> 0, set |-> NoSet, needed |-> FALSE]

ApplyStages ==
  <<"secrets", "render", "manifest", "network", "registry", "pull", "models", "recreate",
    "stores", "start", "apply-manifest", "settle", "timers", "record", "prune">>

Stages(op) ==
  CASE op = "apply"    -> ApplyStages
    [] op = "install"  -> <<"preflight">> \o ApplyStages \o
                          <<"audit-intent", "reconcile", "engine-verify", "backup", "drill", "audit-applied">>
    [] op = "upgrade"  -> <<"fetch", "signature", "version", "preflight", "backup", "audit-intent",
                            "checkout", "provision", "new-tree-preflight">> \o ApplyStages \o
                          <<"verify", "engine-verify", "audit-applied">>
    [] op = "rollback" -> <<"select", "plan", "safety", "audit-intent", "stop", "identity", "checkout",
                            "restore-files", "restore-stores", "restored">> \o ApplyStages \o
                          <<"verify", "engine-verify", "audit-applied">>

-----------------------------------------------------------------------------
(* What the stages read. *)

At(op, stage) == cmd.op = op /\ Stages(op)[cmd.at] = stage
AtAny(stage)  == cmd.op # "none" /\ Stages(cmd.op)[cmd.at] = stage

Ended   == IF cmd.at = Len(Stages(cmd.op)) THEN Idle ELSE [cmd EXCEPT !.at = @ + 1]
Advance == cmd' = Ended /\ UNCHANGED <<commands, mishaps>>
Refuse  == cmd' = Idle /\ UNCHANGED <<boxVars, sets, marker, commands, mishaps>>

\* Every service has a running container.
whole == \A s \in Services : containers[s] # 0

TaggedSets(tag) == {s \in sets : tag \in {0, s.tag}}
NewestOf(S) == CHOOSE s \in S : \A t \in S : t.n <= s.n

\* What a backup run started now would put in a set.
BackupOf(tag) ==
  [n |-> Cardinality(sets) + 1, tag |-> tag, release |-> tree, data |-> data,
   files |-> files, manifest |-> manifest, applied |-> applied,
   recipients |-> IF tree >= IdentityFrom THEN 2 ELSE 1]

\* The preconditions of backup run that a release change can disturb.
BackupAllowed == whole /\ (tree >= IdentityFrom => identity)

-----------------------------------------------------------------------------
(* The stages of apply. *)

Passes(stage) == AtAny(stage) /\ Advance /\ UNCHANGED <<boxVars, sets, marker>>

ApplySecrets  == Passes("secrets")
ApplyNetwork  == Passes("network")
ApplyRegistry == Passes("registry")
ApplyModels   == Passes("models")
ApplyManifest == Passes("apply-manifest")
ApplyTimers   == Passes("timers")

Registered == Artifacts[tree]
Listed     == IF manifest = 0 THEN {} ELSE Artifacts[manifest]
Foreign    == files \ (Registered \cup Listed)

\* The new files are written over the old ones, the stale ones are removed, and the
\* manifest is written last.
RenderFiles ==
  /\ AtAny("render") /\ Foreign = {} /\ Advance
  /\ files' = files \cup Registered
  /\ UNCHANGED <<tree, manifest, applied, data, containers, images, identity, sets, marker>>

RenderManifest ==
  /\ AtAny("manifest") /\ Advance
  /\ files' = files \ (Listed \ Registered)
  /\ manifest' = tree
  /\ UNCHANGED <<tree, applied, data, containers, images, identity, sets, marker>>

RenderRefuses == AtAny("render") /\ Foreign # {} /\ Refuse

ApplyPull ==
  /\ AtAny("pull") /\ Advance
  /\ images' = images \cup {tree}
  /\ UNCHANGED <<tree, files, manifest, applied, data, containers, identity, sets, marker>>

\* The services whose rendered content moved since the applied record.
recreate_judgment ==
  {s \in Services : applied = 0 \/ Content[applied][s] # Content[tree][s]}

\* What `compose up` leaves of a tier: judged services are recreated, absent ones created.
Started(tier) ==
  [s \in Services |->
     IF s \in tier /\ (s \in recreate_judgment \/ containers[s] = 0)
     THEN Content[tree][s] ELSE containers[s]]

ApplyRecreate ==
  /\ AtAny("recreate") /\ Advance
  /\ containers' = Started({"store"})
  /\ UNCHANGED <<tree, files, manifest, applied, data, images, identity, sets, marker>>

\* Migrations go forward only: a migration this tree does not know is left alone.
ApplyStores ==
  /\ AtAny("stores") /\ containers["store"] # 0 /\ Advance
  /\ data' = [data EXCEPT !.schema = IF @ < tree THEN tree ELSE @]
  /\ UNCHANGED <<tree, files, manifest, applied, containers, images, identity, sets, marker>>

ApplyStart ==
  /\ AtAny("start") /\ tree \in images /\ Advance
  /\ containers' = Started({"app"})
  /\ UNCHANGED <<tree, files, manifest, applied, data, images, identity, sets, marker>>

ApplySettles == AtAny("settle") /\ whole /\ Advance /\ UNCHANGED <<boxVars, sets, marker>>

ApplyRecord ==
  /\ AtAny("record") /\ Advance
  /\ applied' = tree
  /\ UNCHANGED <<tree, files, manifest, data, containers, images, identity, sets, marker>>

ApplyPrune ==
  /\ AtAny("prune") /\ Advance
  /\ images' = {tree}
  /\ UNCHANGED <<tree, files, manifest, applied, data, containers, identity, sets, marker>>

Converge ==
  \/ ApplySecrets \/ RenderFiles \/ RenderManifest \/ RenderRefuses \/ ApplyNetwork
  \/ ApplyRegistry \/ ApplyPull \/ ApplyModels \/ ApplyRecreate \/ ApplyStores \/ ApplyStart
  \/ ApplyManifest \/ ApplySettles \/ ApplyTimers \/ ApplyRecord \/ ApplyPrune

-----------------------------------------------------------------------------
(* Commands begin. *)

Begin(op, target) ==
  /\ cmd = Idle /\ commands < MaxCommands
  /\ cmd' = [Idle EXCEPT !.op = op, !.target = target] /\ commands' = commands + 1
  /\ UNCHANGED <<boxVars, sets, marker, mishaps>>

run_install == applied = 0 /\ Begin("install", 0)
run_apply   == applied # 0 /\ marker = NoMarker /\ Begin("apply", 0)

\* The runbook's order: a rollback that began is finished before another upgrade.
run_upgrade(t) ==
  /\ applied # 0 /\ (marker = NoMarker \/ Reupgrade)
  /\ Begin("upgrade", t)

\* A rollback that left its record is run again until it is done.
RollbackAgain(tag) ==
  /\ cmd = Idle /\ marker # NoMarker
  /\ \E s \in sets : s.n = marker.set /\ tag \in {0, s.tag}
  /\ cmd' = [Idle EXCEPT !.op = "rollback", !.target = tag]
  /\ UNCHANGED <<boxVars, sets, marker, commands, mishaps>>

RollbackFirst(tag) == applied # 0 /\ marker = NoMarker /\ Begin("rollback", tag)

-----------------------------------------------------------------------------
(* upgrade *)

UpgradeFetch     == At("upgrade", "fetch") /\ Passes("fetch")
UpgradeSignature == At("upgrade", "signature") /\ Passes("signature")

UpgradeVersion == cmd.target >= tree /\ Passes("version")
UpgradeVersionRefuses == At("upgrade", "version") /\ cmd.target < tree /\ Refuse

Preflight == Passes("preflight")

\* A checkout already at the target was moved by an earlier attempt: its set is reused.
Reusable == {s \in TaggedSets(cmd.target) : s.release # cmd.target}

UpgradeBackupReuses ==
  /\ At("upgrade", "backup") /\ tree = cmd.target /\ Reusable # {}
  /\ Advance /\ UNCHANGED <<boxVars, sets, marker>>

\* Mutant: an upgrade whose backup is refused goes on without one.
UpgradeBackupTakesUnwhole ==
  /\ At("upgrade", "backup") /\ tree # cmd.target
  /\ sets' = IF BackupAllowed THEN sets \cup {BackupOf(cmd.target)} ELSE sets
  /\ Advance /\ UNCHANGED <<boxVars, marker>>

UpgradeBackupTakes ==
  /\ At("upgrade", "backup") /\ tree # cmd.target /\ BackupAllowed
  /\ sets' = sets \cup {BackupOf(cmd.target)}
  /\ Advance /\ UNCHANGED <<boxVars, marker>>

UpgradeBackupRefuses ==
  /\ At("upgrade", "backup")
  /\ IF tree = cmd.target THEN Reusable = {} ELSE ~BackupAllowed
  /\ Refuse

\* The intent row must be written; the stores have to answer.
UpgradeIntent ==
  /\ At("upgrade", "audit-intent") /\ containers["store"] # 0
  /\ Advance /\ UNCHANGED <<boxVars, sets, marker>>

UpgradeCheckout ==
  /\ At("upgrade", "checkout") /\ Advance
  /\ tree' = cmd.target
  /\ UNCHANGED <<files, manifest, applied, data, containers, images, identity, sets, marker>>

\* The new tree's `host provision` writes the box identity its backups need.
UpgradeProvision ==
  /\ AtAny("provision") /\ Advance
  /\ identity' = (identity \/ tree >= IdentityFrom)
  /\ UNCHANGED <<tree, files, manifest, applied, data, containers, images, sets, marker>>

UpgradeNewTreePreflight == Passes("new-tree-preflight")

\* The applied record names the target and every service runs.
Verify ==
  /\ AtAny("verify") /\ whole
  /\ applied = IF cmd.op = "upgrade" THEN cmd.target ELSE cmd.set.release
  /\ Advance /\ UNCHANGED <<boxVars, sets, marker>>

\* A stage that finds a service without a running container ends its command.
ServiceMissing ==
  /\ \/ AtAny("stores") /\ containers["store"] = 0
     \/ \E stage \in {"settle", "verify"} : AtAny(stage) /\ ~whole
     \/ At("upgrade", "audit-intent") /\ containers["store"] = 0
     \/ At("install", "backup") /\ ~BackupAllowed
  /\ Refuse

EngineVerified == Passes("engine-verify")
UpgradeApplied == At("upgrade", "audit-applied") /\ Passes("audit-applied")

Upgrade ==
  \/ UpgradeFetch \/ UpgradeSignature \/ UpgradeVersion \/ UpgradeVersionRefuses \/ Preflight
  \/ UpgradeBackupReuses \/ UpgradeBackupTakes \/ UpgradeBackupRefuses \/ UpgradeIntent
  \/ UpgradeCheckout \/ UpgradeProvision \/ UpgradeNewTreePreflight \/ Verify \/ ServiceMissing
  \/ EngineVerified
  \/ UpgradeApplied

-----------------------------------------------------------------------------
(* install: what its last phases leave is outside the state above *)

InstallIntent    == At("install", "audit-intent") /\ Passes("audit-intent")
InstallReconcile == Passes("reconcile")
InstallBackup    == At("install", "backup") /\ BackupAllowed /\ Passes("backup")
InstallDrill     == Passes("drill")
InstallApplied   == At("install", "audit-applied") /\ Passes("audit-applied")

Install == InstallIntent \/ InstallReconcile \/ InstallBackup \/ InstallDrill \/ InstallApplied

-----------------------------------------------------------------------------
(* upgrade --rollback *)

Candidates == TaggedSets(cmd.target)

\* Mutant: a rollback under way is refused once checkout and record name its release.
NothingToRollBackEver(s) == tree = s.release /\ applied = s.release

NothingToRollBack(s) == tree = s.release /\ marker = NoMarker /\ applied = s.release

RollbackSelect ==
  /\ At("rollback", "select") /\ Candidates # {} /\ ~NothingToRollBack(NewestOf(Candidates))
  /\ cmd' = [Ended EXCEPT !.set = NewestOf(Candidates)]
  /\ UNCHANGED <<boxVars, sets, marker, commands, mishaps>>

RollbackSelectRefuses ==
  /\ At("rollback", "select")
  /\ Candidates # {} => NothingToRollBack(NewestOf(Candidates))
  /\ Refuse

\* A restore is needed unless the rendered manifest still names the set's release.
_restore_verdict == manifest # cmd.set.release

RollbackPlanFresh ==
  /\ At("rollback", "plan") /\ marker = NoMarker
  /\ marker' = [set |-> cmd.set.n, needed |-> _restore_verdict, restored |-> FALSE]
  /\ cmd' = [Ended EXCEPT !.needed = _restore_verdict]
  /\ UNCHANGED <<boxVars, sets, commands, mishaps>>

\* Mutant: a resumed rollback judges the restore anew and forgets its own record.
RollbackPlanResumesAnew ==
  /\ At("rollback", "plan") /\ marker # NoMarker /\ marker.set = cmd.set.n
  /\ cmd' = [Ended EXCEPT !.needed = _restore_verdict]
  /\ UNCHANGED <<boxVars, sets, marker, commands, mishaps>>

RollbackPlanResumes ==
  /\ At("rollback", "plan") /\ marker # NoMarker /\ marker.set = cmd.set.n
  /\ cmd' = [Ended EXCEPT !.needed = marker.needed /\ ~marker.restored]
  /\ UNCHANGED <<boxVars, sets, marker, commands, mishaps>>

RollbackPlanRefuses ==
  At("rollback", "plan") /\ marker # NoMarker /\ marker.set # cmd.set.n /\ Refuse

\* The safety set has its own label and is never selected.
RollbackSafety ==
  /\ At("rollback", "safety") /\ (cmd.needed /\ whole => BackupAllowed)
  /\ Advance /\ UNCHANGED <<boxVars, sets, marker>>

RollbackSafetyRefuses ==
  At("rollback", "safety") /\ cmd.needed /\ whole /\ ~BackupAllowed /\ Refuse

\* The intent row may be deferred.
RollbackIntent == At("rollback", "audit-intent") /\ Passes("audit-intent")

RollbackStop ==
  /\ At("rollback", "stop") /\ Advance
  /\ containers' = IF cmd.needed THEN [s \in Services |-> 0] ELSE containers
  /\ UNCHANGED <<tree, files, manifest, applied, data, images, identity, sets, marker>>

RollbackIdentity ==
  /\ At("rollback", "identity") /\ Advance
  /\ identity' = (identity /\ cmd.set.recipients # 1)
  /\ UNCHANGED <<tree, files, manifest, applied, data, containers, images, sets, marker>>

RollbackCheckout ==
  /\ At("rollback", "checkout") /\ Advance
  /\ tree' = cmd.set.release
  /\ UNCHANGED <<files, manifest, applied, data, containers, images, identity, sets, marker>>

\* The restore child: /etc/gideon with the rendered directory, then the stores.
RestoreFilesChild ==
  /\ At("rollback", "restore-files") /\ cmd.needed /\ Advance
  /\ files' = cmd.set.files /\ manifest' = cmd.set.manifest /\ applied' = cmd.set.applied
  /\ containers' = [s \in Services |-> 0]
  /\ UNCHANGED <<tree, data, images, identity, sets, marker>>

RestoreStoresChild ==
  /\ At("rollback", "restore-stores") /\ cmd.needed /\ Advance
  /\ data' = cmd.set.data
  /\ containers' = [containers EXCEPT !["store"] = Content[tree]["store"]]
  /\ UNCHANGED <<tree, files, manifest, applied, images, identity, sets, marker>>

RollbackRestored ==
  /\ At("rollback", "restored") /\ cmd.needed /\ Advance
  /\ marker' = [marker EXCEPT !.restored = TRUE]
  /\ UNCHANGED <<boxVars, sets>>

RollbackSkipsRestore ==
  /\ \E stage \in {"restore-files", "restore-stores", "restored"} : At("rollback", stage)
  /\ ~cmd.needed /\ Advance /\ UNCHANGED <<boxVars, sets, marker>>

RollbackApplied ==
  /\ At("rollback", "audit-applied") /\ Advance
  /\ marker' = NoMarker
  /\ UNCHANGED <<boxVars, sets>>

Rollback ==
  \/ RollbackSelect \/ RollbackSelectRefuses \/ RollbackPlanFresh \/ RollbackPlanResumes
  \/ RollbackPlanRefuses \/ RollbackSafety \/ RollbackSafetyRefuses \/ RollbackIntent \/ RollbackStop \/ RollbackIdentity
  \/ RollbackCheckout \/ RestoreFilesChild \/ RestoreStoresChild \/ RollbackRestored
  \/ RollbackSkipsRestore \/ RollbackApplied

-----------------------------------------------------------------------------
(* The box around the commands. *)

\* A stage fails, or the command dies, before the stage's effect.
StageFails ==
  /\ cmd # Idle /\ mishaps < MaxMishaps /\ mishaps' = mishaps + 1
  /\ cmd' = Idle /\ UNCHANGED <<boxVars, sets, marker, commands>>

\* A service's container is lost, with or without a command running.
ContainerLost(s) ==
  /\ containers[s] # 0 /\ mishaps < MaxMishaps /\ mishaps' = mishaps + 1
  /\ containers' = [containers EXCEPT ![s] = 0]
  /\ UNCHANGED <<tree, files, manifest, applied, data, images, identity, sets, marker, cmd, commands>>

Written ==
  /\ whole /\ data.rows < MaxRows
  /\ data' = [data EXCEPT !.rows = @ + 1]
  /\ UNCHANGED <<tree, files, manifest, applied, containers, images, identity, sets, marker,
                 cmd, commands, mishaps>>

\* The operator follows the fix of the foreign-file refusal.
ForeignRemoved ==
  /\ cmd = Idle /\ Foreign # {}
  /\ files' = files \ Foreign
  /\ UNCHANGED <<tree, manifest, applied, data, containers, images, identity, sets, marker,
                 cmd, commands, mishaps>>

\* The operator follows the fix of the missing-identity refusal: `host provision`.
HostProvisioned ==
  /\ cmd = Idle /\ tree >= IdentityFrom /\ ~identity
  /\ identity' = TRUE
  /\ UNCHANGED <<tree, files, manifest, applied, data, containers, images, sets, marker,
                 cmd, commands, mishaps>>

ReleaseInit ==
  /\ tree = 1 /\ files = {} /\ manifest = 0 /\ applied = 0
  /\ data = [schema |-> 0, rows |-> 0] /\ containers = [s \in Services |-> 0] /\ images = {}
  /\ identity = (IdentityFrom <= 1) /\ sets = {} /\ marker = NoMarker /\ cmd = Idle
  /\ commands = 0 /\ mishaps = 0

RerunNamed == \E s \in sets : s.n = marker.set /\ RollbackAgain(s.tag)
Rerun   == \E tag \in Releases \cup {0} : RollbackAgain(tag)
Command == Converge \/ Upgrade \/ Install \/ Rollback

ReleaseNext ==
  \/ Command \/ StageFails \/ Written \/ ForeignRemoved \/ HostProvisioned \/ Rerun
  \/ run_install \/ run_apply
  \/ \E s \in Services : ContainerLost(s)
  \/ \E t \in Releases : run_upgrade(t)
  \/ \E t \in Releases \cup {0} : RollbackFirst(t)

\* A command runs to its end and an operator finishes a rollback that began, following
\* the fixes it prints.
ReleaseFairness ==
  /\ WF_releaseVars(Command) /\ SF_releaseVars(RerunNamed)
  /\ SF_releaseVars(ForeignRemoved) /\ SF_releaseVars(HostProvisioned)

ReleaseSpec == ReleaseInit /\ [][ReleaseNext]_releaseVars /\ ReleaseFairness

-----------------------------------------------------------------------------
(* Properties *)

RunsOnly(r)    == \A s \in Services : containers[s] \in {0, Content[r][s]}

\* A rollback that completes leaves checkout, rendered files, applied record, containers
\* and data at one release: the set's, and no box identity that release cannot leave out
\* of its backups.  (upgrade.py: "Rollback restores that set and applies the previous
\* release".)  It may take several runs, with failures between the record, the restore
\* and the apply.
RollbackRestores ==
  [][RollbackApplied =>
       LET r == cmd.set.release
       IN  /\ tree = r /\ manifest = r /\ applied = r /\ data.schema = r /\ RunsOnly(r)
           /\ identity => r >= IdentityFrom]_releaseVars

\* Once the data has crossed to a later release than the applied record names, there is a
\* complete pre-upgrade set of the release it names, and no set holds data of a later
\* release than its checkout's (_backup_stage runs before anything of the new release
\* does, on the first attempt and on every retry).
WayBack ==
  /\ \A s \in sets : s.data.schema <= s.release
  /\ data.schema > applied /\ applied # 0 => \E s \in sets : s.release = applied

\* Where the applied record names the checked-out release and no command runs, every
\* container was created from that release's rendered content, whatever attempts failed
\* before (recreate_judgment compares with the applied record, not with the manifest).
AppliedRuns ==
  cmd = Idle /\ marker = NoMarker /\ applied = tree /\ applied = manifest => RunsOnly(applied)

\* Between commands and through every failed upgrade the box stands on one side or the
\* other: a way back exists, and what the applied record names is what runs.
BoxSound == WayBack /\ AppliedRuns

\* A rollback that has begun is finished: no refusal along its resumed stages, and no
\* foreign file an interrupted render left, keeps it from its end for ever.
RollbackEnds == marker # NoMarker ~> marker = NoMarker
=============================================================================
